----------------------------- MODULE StepProofs -----------------------------
(***************************************************************************)
(* Proofs about Speculation, for every state space, every scheduling       *)
(* function and every length of the journal: the safety invariants, and    *)
(* that Speculation implements DirectScheduler.                            *)
(*                                                                         *)
(* Then proofs about what a step does on the device and how its result is  *)
(* decided and stored.                                                     *)
(*                                                                         *)
(* A burst samples the tokens that as many stock steps would sample, and   *)
(* leaves the keys, the recurrent states and the counts they would leave:  *)
(* for every width, block size, number of iterations and way of cutting    *)
(* them into graphs, if every request of the batch passed the align gate   *)
(* where the device is.                                                    *)
(*                                                                         *)
(* A trace of stock steps and a trace of kernels run side by side: after k *)
(* iterations the buffers are those of stock step k + 1, the accumulator   *)
(* has the tokens of the steps before it, and its column counter is k.     *)
(*                                                                         *)
(* Then the fast path of a step:                                           *)
(* The graph of a fast step reads what stock would have built for it, for  *)
(* any requests, rows and tables, after any steps: the cached batch stays  *)
(* that of the worker's tables as long as its requests keep their rows.    *)
(*                                                                         *)
(* Then the decision: deciding a runner step launch by launch is deciding  *)
(* it as one step, for every batch, width and condition: a row that stops  *)
(* is given nothing of the launches that were run after its stop. An       *)
(* ending of the first of two adjacent parts is the first ending of the    *)
(* whole, and without one the first ending of the second part is.          *)
(*                                                                         *)
(* Then the token store: every call keeps it sound, whatever the block     *)
(* size, the requests, the slots and the texts: first that hashing a text  *)
(* token by token gives the hashes of the whole text, then one theorem per *)
(* call.                                                                   *)
(***************************************************************************)
EXTENDS Speculation, BurstDecode, DecodeFastpath, StopDecision, TokenStore,
        SequenceTheorems, WellFoundedInduction, TLAPS

\* Every non-empty set of naturals has a least element.
LEMMA LeastNatural ==
  ASSUME NEW T, T \subseteq Nat, T # {}
  PROVE  \E x \in T : \A y \in T : x <= y
<1> DEFINE R == OpToRel(<, Nat)
<1>0. IsWellFoundedOn(R, Nat)
  BY NatLessThanWellFounded
<1> HIDE DEF R
<1>1. PICK x \in T : \A y \in T : ~ (<<y, x>> \in R)
  BY <1>0, WFMin
<1>2. ASSUME NEW y \in T
      PROVE  x <= y
  <2>1. ~ (y < x)
    BY <1>1 DEF R, OpToRel
  <2> QED BY <2>1
<1> QED BY <1>2

(***************************************************************************)
(* The journal.                                                            *)
(***************************************************************************)

\* The first entry of a cell is one of its entries, and no later than any.
LEMMA EarliestIsLeast ==
  ASSUME NEW j \in Seq(Entry), NEW c, Entries(j, c) # {}
  PROVE  /\ Earliest(j, c) \in Entries(j, c)
         /\ \A k \in Entries(j, c) : Earliest(j, c) <= k
<1>1. Entries(j, c) \in SUBSET Nat
  BY DEF Entries
<1>2. \E i \in Entries(j, c) : \A k \in Entries(j, c) : i <= k
  BY <1>1, LeastNatural
<1> QED BY <1>2 DEF Earliest

\* Undoing a journal gives a state of the manager.
LEMMA UndoType ==
  ASSUME NEW m \in Memory, NEW j \in Seq(Entry)
  PROVE  Undo(m, j) \in Memory
<1>1. ASSUME NEW c \in Cells, Entries(j, c) # {}
      PROVE  j[Earliest(j, c)].old \in Values
  <2>1. Earliest(j, c) \in DOMAIN j
    BY <1>1, EarliestIsLeast DEF Entries
  <2>2. j[Earliest(j, c)] \in Entry
    BY <2>1
  <2> QED BY <2>2 DEF Entry
<1> QED BY <1>1 DEF Undo, Memory

\* No entry is a journal.
LEMMA EmptyJournal == << >> \in Seq(Entry)
OBVIOUS

\* An empty journal undoes nothing.
LEMMA UndoNothing ==
  ASSUME NEW m \in Memory
  PROVE  Undo(m, << >>) = m
<1>1. \A c : Entries(<< >>, c) = {}
  BY DEF Entries
<1> QED BY <1>1 DEF Undo, Memory

\* A write that records the old value first does not change what undoing
\* the journal gives.
LEMMA UndoWrite ==
  ASSUME NEW m \in Memory, NEW j \in Seq(Entry),
         NEW c \in Cells, NEW v \in Values
  PROVE  Undo([m EXCEPT ![c] = v], Append(j, [cell |-> c, old |-> m[c]]))
           = Undo(m, j)
<1> DEFINE e == [cell |-> c, old |-> m[c]]
           n == Len(j) + 1
           jj == Append(j, e)
<1>1. e \in Entry
  BY DEF Entry, Memory
<1>2. /\ jj \in Seq(Entry) /\ DOMAIN jj = 1 .. n /\ DOMAIN j = 1 .. n - 1
      /\ \A i \in 1 .. n - 1 : jj[i] = j[i]
      /\ jj[n] = e /\ n \in Nat
  BY <1>1
<1>3. \A d : Entries(jj, d) = IF d = c THEN Entries(j, d) \cup {n}
                                       ELSE Entries(j, d)
  BY <1>2 DEF Entries
<1> HIDE DEF e, n, jj
<1>4. ASSUME NEW d \in Cells, Entries(j, d) # {}
      PROVE  Entries(jj, d) # {} /\ jj[Earliest(jj, d)] = j[Earliest(j, d)]
  <2>1. /\ Entries(jj, d) # {}
        /\ Earliest(j, d) \in Entries(j, d)
        /\ \A k \in Entries(j, d) : Earliest(j, d) <= k
        /\ Entries(j, d) \subseteq 1 .. n - 1
    BY <1>2, <1>3, <1>4, EarliestIsLeast DEF Entries
  <2>2. /\ Earliest(jj, d) \in Entries(jj, d)
        /\ \A k \in Entries(jj, d) : Earliest(jj, d) <= k
    BY <1>2, <2>1, EarliestIsLeast
  <2>3. Earliest(jj, d) = Earliest(j, d)
    BY <1>2, <1>3, <2>1, <2>2
  <2> QED BY <1>2, <2>1, <2>3
<1>5. ASSUME Entries(j, c) = {}
      PROVE  Entries(jj, c) # {} /\ jj[Earliest(jj, c)].old = m[c]
  <2>1. Entries(jj, c) = {n}
    BY <1>3, <1>5
  <2>2. Earliest(jj, c) = n
    BY <1>2, <2>1, EarliestIsLeast
  <2> QED BY <1>2, <2>1, <2>2 DEF e
<1>6. \A d \in Cells : d # c /\ Entries(j, d) = {} => Entries(jj, d) = {}
  BY <1>3
<1>7. Undo([m EXCEPT ![c] = v], jj) = Undo(m, j)
  BY <1>4, <1>5, <1>6 DEF Undo, Memory
<1> QED BY <1>7 DEF jj, e

(***************************************************************************)
(* The inductive invariant.  JournalScope, OneSpeculation and RollbackExact *)
(* carry it: where no journal is armed, nothing of a speculation is in mem. *)
(***************************************************************************)

\* Without a journal the state is the engine's; a job is a call.
QuietIsBase == ~armed => mem = base /\ journal = << >>
JobIsCall == worker # "parked" => job \in Call

SpecInv == /\ TypeOK /\ JournalScope /\ OneSpeculation /\ RollbackExact
           /\ PendingIsTheStep /\ WindowQuiet
           /\ QuietIsBase /\ JobIsCall

\* The assumption on the constants, in the names of this module.
LEMMA Closed ==
  /\ \A m \in Memory : \A call \in Call :
       /\ Result(m, call) \in Memory
       /\ Decision(m, call) \in Decisions
       /\ ProbeResult(m, call) \in Memory
       /\ Probe(m, call) \in Carries
  /\ \A m \in Memory : \A left \in Carries :
       /\ AdmitResult(m, left) \in Memory
       /\ Admission(m, left) \in Decisions
  /\ NoCarry \notin Carries
  /\ NoCall \notin Call
  /\ NoPending \notin [call : Call, decisions : Decisions]
  /\ MaxGen \in Nat
BY SpeculationAssumption
   DEF Direct!SchedulerAssumption, Direct!Memory, Direct!Call, Memory, Call

\* Whatever a locked call finds, rolling back what it finds gives the
\* state without the speculation.
LEMMA SettledIsBase ==
  ASSUME SpecInv
  PROVE  /\ RolledBack = base
         /\ ~Locked => Settled = base
         /\ ~Locked /\ ~DropsPending => ~armed
         /\ ~Locked /\ pending = NoPending => ~armed
BY DEF SpecInv, JournalScope, OneSpeculation, RollbackExact, QuietIsBase,
       RolledBack, Settled, DropsPending, Locked

\* A locked call that changes the state ends without a speculation.
LEMMA AfterWriter ==
  ASSUME SpecInv, Writer, mem' \in Memory
  PROVE  /\ armed' = FALSE /\ journal' = << >> /\ pending' = NoPending
         /\ base' = mem' /\ base' \in Memory
         /\ worker # "running"
         /\ UNCHANGED <<mail, job, worker, stopped, gen>>
         /\ disabled' \in BOOLEAN
<1>1. ~Locked /\ (~DropsPending => ~armed)
  BY SettledIsBase DEF Writer
<1>2. armed' = FALSE /\ journal' = << >> /\ base' = mem'
  BY <1>1 DEF Writer, Disarm, SpecInv, QuietIsBase
<1>3. disabled' \in BOOLEAN
  BY DEF Writer, SpecInv, TypeOK
<1> QED BY <1>1, <1>2, <1>3 DEF Writer, workerVars, Locked

\* A state in which no journal is armed and none has to be.
LEMMA QuietInv ==
  ASSUME TypeOK', armed' = FALSE, journal' = << >>, pending' = NoPending,
         base' = mem', worker' # "running", JobIsCall',
         window' => carry' # NoCarry
  PROVE  SpecInv'
BY DEF SpecInv, JournalScope, OneSpeculation, RollbackExact,
       PendingIsTheStep, WindowQuiet, QuietIsBase

\* Every call that changes the state keeps the invariant.
LEMMA WriterKeeps ==
  ASSUME SpecInv, Writer, mem' \in Memory,
         window' \in BOOLEAN, carry' \in Carries \cup {NoCarry},
         window' => carry' # NoCarry,
         poisoned' \in BOOLEAN, out' \in Decisions \cup {NoDecision}
  PROVE  SpecInv'
<1>1. /\ armed' = FALSE /\ journal' = << >> /\ pending' = NoPending
      /\ base' = mem' /\ base' \in Memory
      /\ worker # "running"
      /\ UNCHANGED <<mail, job, worker, stopped, gen>>
      /\ disabled' \in BOOLEAN
  BY AfterWriter
<1>2. TypeOK'
  BY <1>1, EmptyJournal DEF SpecInv, TypeOK
<1>3. JobIsCall' /\ worker' # "running"
  BY <1>1 DEF SpecInv, JobIsCall
<1> QED BY <1>1, <1>2, <1>3, QuietInv

\* A call that only looks keeps it, recovering a poisoned lock or not.
LEMMA ReaderKeeps ==
  ASSUME SpecInv, Reader, mail' \in Call \cup {NoCall},
         UNCHANGED <<job, worker>>, poisoned' \in BOOLEAN
  PROVE  SpecInv'
<1>1. disabled' \in BOOLEAN
  BY DEF SpecInv, TypeOK, Reader
<1>2. CASE Recovering
  <2>1. /\ mem' = base /\ armed' = FALSE /\ journal' = << >> /\ base' = mem'
        /\ pending' = NoPending /\ worker' # "running"
        /\ UNCHANGED <<stopped, window, carry, gen, out>>
    BY <1>2, SettledIsBase DEF Reader, Disarm, Locked
  <2>2. TypeOK'
    BY <1>1, <2>1, EmptyJournal DEF SpecInv, TypeOK
  <2>3. JobIsCall' /\ (window' => carry' # NoCarry)
    BY <2>1 DEF SpecInv, JobIsCall, WindowQuiet
  <2> QED BY <2>1, <2>2, <2>3, QuietInv
<1>3. CASE ~Recovering
  <2>1. UNCHANGED <<mem, base, journal, armed, pending, job, worker, stopped,
                    window, carry, gen, out>>
    BY <1>3 DEF Reader, specVars
  <2>2. TypeOK'
    BY <1>1, <2>1 DEF SpecInv, TypeOK
  <2> QED BY <2>1, <2>2
          DEF SpecInv, JournalScope, OneSpeculation, RollbackExact,
              PendingIsTheStep, WindowQuiet, QuietIsBase, JobIsCall
<1> QED BY <1>2, <1>3

\* The steps of the worker keep it.
LEMMA WorkerKeeps ==
  ASSUME SpecInv, Worker
  PROVE  SpecInv'
<1> USE DEF SpecInv
<1>1. CASE PickUp \/ Decline
  BY <1>1
  DEF PickUp, Decline, MayRun, specVars, flags, TypeOK, JournalScope,
      OneSpeculation, RollbackExact, PendingIsTheStep, WindowQuiet,
      QuietIsBase, JobIsCall
<1>2. CASE Begin
  <2>1. mem' = base /\ base' = base
    BY <1>2, SettledIsBase DEF Begin, Locked, QuietIsBase
  <2>2. Undo(mem', journal') = base'
    BY <1>2, <2>1, UndoNothing DEF Begin, TypeOK
  <2>3. TypeOK'
    <3>1. /\ armed' = TRUE /\ journal' = << >> /\ pending' = NoPending
          /\ carry' = NoCarry /\ worker' = "running"
          /\ UNCHANGED <<mail, job, window, disabled, stopped, poisoned,
                         gen, out>>
      BY <1>2 DEF Begin, flags
    <3> QED BY <2>1, <3>1, EmptyJournal DEF TypeOK
  <2> QED BY <1>2, <2>1, <2>2, <2>3
          DEF Begin, MayRun, flags, JournalScope, OneSpeculation,
              RollbackExact, PendingIsTheStep, WindowQuiet, QuietIsBase,
              JobIsCall
<1>3. ASSUME NEW c \in Cells, NEW v \in Values, Write(c, v)
      PROVE  SpecInv'
  <2>1. /\ journal' = Append(journal, [cell |-> c, old |-> mem[c]])
        /\ mem' = [mem EXCEPT ![c] = v]
        /\ UNCHANGED <<base, armed, pending, mail, job, worker, window,
                       carry, disabled, stopped, poisoned, gen, out>>
        /\ worker = "running"
    BY <1>3 DEF Write, Record, workerVars, flags
  <2>2. Undo(mem', journal') = Undo(mem, journal)
    BY <2>1, UndoWrite DEF TypeOK
  <2>3. TypeOK'
    <3>1. [cell |-> c, old |-> mem[c]] \in Entry
      BY DEF TypeOK, Memory, Entry
    <3>2. mem' \in Memory /\ journal' \in Seq(Entry)
      BY <2>1, <3>1 DEF TypeOK, Memory
    <3> QED BY <2>1, <3>2 DEF TypeOK
  <2> QED BY <2>1, <2>2, <2>3
          DEF JournalScope, OneSpeculation, RollbackExact, PendingIsTheStep,
              WindowQuiet, QuietIsBase, JobIsCall
<1>4. CASE Complete
  <2>1. job \in Call /\ Decision(base, job) \in Decisions
    BY <1>4, Closed DEF Complete, JobIsCall, TypeOK
  <2>2. pending' # NoPending /\ pending'.call = job
        /\ pending'.decisions = Decision(base, job)
        /\ pending' \in [call : Call, decisions : Decisions]
    BY <1>4, <2>1, Closed DEF Complete
  <2>3. TypeOK'
    BY <1>4, <2>2 DEF Complete, TypeOK, flags
  <2> QED BY <1>4, <2>2, <2>3
          DEF Complete, flags, JournalScope, OneSpeculation, RollbackExact,
              PendingIsTheStep, WindowQuiet, QuietIsBase, JobIsCall
<1>5. CASE Abandon \/ Panic
  <2>1. /\ mem' = base /\ base' = mem' /\ armed' = FALSE /\ journal' = << >>
        /\ worker' = "parked" /\ worker = "running"
        /\ UNCHANGED <<mail, window, carry, poisoned, gen, out>>
    BY <1>5, SettledIsBase DEF Abandon, Panic, Disarm, flags
  <2>2. pending' = NoPending
    BY <1>5 DEF Abandon, Panic, OneSpeculation
  <2>3. TypeOK'
    BY <1>5, <2>1, <2>2, EmptyJournal DEF Abandon, Panic, TypeOK, flags
  <2> QED BY <2>1, <2>2, <2>3, QuietInv DEF JobIsCall, WindowQuiet
<1> QED BY <1>1, <1>2, <1>3, <1>4, <1>5 DEF Worker

\* The calls of the engine and of the input thread keep it.
LEMMA EngineKeeps ==
  ASSUME SpecInv, Engine
  PROVE  SpecInv'
<1> USE DEF SpecInv
<1>t. /\ window \in BOOLEAN /\ poisoned \in BOOLEAN
      /\ carry \in Carries \cup {NoCarry} /\ out \in Decisions \cup {NoDecision}
      /\ mem \in Memory /\ base \in Memory /\ gen \in 0 .. MaxGen
      /\ window => carry # NoCarry
      /\ mail \in Call \cup {NoCall}
  BY DEF TypeOK, WindowQuiet
<1>n. \A slots \in Orders, params \in Params : Now(slots, params) \in Call
  BY <1>t DEF Now, Call
<1>s. Writer => Settled = base
  BY SettledIsBase DEF Writer
<1>1. CASE Get \/ GetPanics
  BY <1>1, <1>t, ReaderKeeps DEF Get, GetPanics, workerVars
<1>2. ASSUME NEW slots \in Orders, NEW params \in Params, Kick(slots, params)
      PROVE  SpecInv'
  BY <1>2, <1>n, <1>t, ReaderKeeps DEF Kick
<1>3. ASSUME NEW slots \in Orders, NEW params \in Params, TakeHit(slots, params)
      PROVE  SpecInv'
  <2>1. /\ mem' = mem /\ base' = mem' /\ armed' = FALSE /\ journal' = << >>
        /\ pending' = NoPending /\ out' = pending.decisions
        /\ pending # NoPending /\ worker # "running"
        /\ UNCHANGED <<mail, job, worker, window, carry, disabled, stopped,
                       poisoned, gen>>
    BY <1>3 DEF TakeHit, Matches, Disarm, workerVars, flags, Locked
  <2>2. TypeOK'
    BY <2>1, EmptyJournal DEF TypeOK
  <2> QED BY <2>1, <2>2, QuietInv DEF JobIsCall, WindowQuiet
<1>4. ASSUME NEW slots \in Orders, NEW params \in Params, TakeMiss(slots, params)
      PROVE  SpecInv'
  <2>1. /\ mem' \in Memory /\ Writer
        /\ UNCHANGED <<window, carry, poisoned, out>>
    BY <1>4, <1>s, <1>t DEF TakeMiss
  <2> QED BY <2>1, <1>t, WriterKeeps
<1>5. ASSUME NEW slots \in Orders, NEW params \in Params, Schedule(slots, params)
      PROVE  SpecInv'
  <2>1. /\ mem' \in Memory /\ Writer /\ window' = FALSE /\ carry' = NoCarry
        /\ out' \in Decisions /\ poisoned' = poisoned
    BY <1>5, <1>n, <1>s, <1>t, Closed DEF Schedule
  <2> QED BY <2>1, <1>t, WriterKeeps
<1>6. ASSUME NEW slots \in Orders, NEW params \in Params, Phase1(slots, params)
      PROVE  SpecInv'
  <2>1. /\ mem' \in Memory /\ Writer /\ window' = TRUE /\ carry' \in Carries
        /\ UNCHANGED <<poisoned, out>>
    BY <1>6, <1>n, <1>s, <1>t, Closed DEF Phase1
  <2> QED BY <2>1, <1>t, Closed, WriterKeeps
<1>7. CASE Phase2
  <2>1. /\ mem' \in Memory /\ Writer /\ window' = FALSE /\ carry' = NoCarry
        /\ out' \in Decisions /\ poisoned' = poisoned
    BY <1>7, <1>s, <1>t, Closed DEF Phase2
  <2> QED BY <2>1, <1>t, WriterKeeps
<1>8. ASSUME NEW m \in Memory, ScheduleFails(m)
      PROVE  SpecInv'
  <2>1. /\ mem' \in Memory /\ Writer /\ window' = FALSE /\ carry' = NoCarry
        /\ UNCHANGED <<poisoned, out>>
    BY <1>8 DEF ScheduleFails
  <2> QED BY <2>1, <1>t, WriterKeeps
<1>9. ASSUME NEW m \in Memory, Mutate(m)
      PROVE  SpecInv'
  <2>1. mem' \in Memory /\ Writer /\ UNCHANGED <<window, carry, poisoned, out>>
    BY <1>9 DEF Mutate
  <2> QED BY <2>1, <1>t, WriterKeeps
<1>10. ASSUME NEW m \in Memory, CallPanics(m)
       PROVE  SpecInv'
  <2>1. /\ mem' \in Memory /\ Writer /\ UNCHANGED <<carry, out>>
        /\ poisoned' = TRUE /\ (window' = window \/ window' = FALSE)
    BY <1>10 DEF CallPanics
  <2>2. /\ window' \in BOOLEAN /\ poisoned' \in BOOLEAN
        /\ carry' \in Carries \cup {NoCarry}
        /\ out' \in Decisions \cup {NoDecision}
    BY <2>1, <1>t
  <2>3. window' => carry' # NoCarry
    BY <2>1, <1>t
  <2> QED BY <2>1, <2>2, <2>3, WriterKeeps
<1>11. CASE Bump
  <2>1. gen' \in 0 .. MaxGen
    <3>1. MaxGen \in Nat /\ gen \in 0 .. MaxGen
      BY <1>t, Closed
    <3>2. gen < MaxGen /\ gen' = gen + 1
      BY <1>11 DEF Bump
    <3> QED BY <3>1, <3>2
  <2>2. UNCHANGED <<specVars, workerVars, window, carry, flags, out>>
    BY <1>11 DEF Bump
  <2>3. TypeOK'
    BY <2>1, <2>2 DEF TypeOK, specVars, workerVars, flags
  <2> QED BY <2>2, <2>3
          DEF specVars, workerVars, flags, JournalScope, OneSpeculation,
              RollbackExact, PendingIsTheStep, WindowQuiet, QuietIsBase,
              JobIsCall
<1> QED BY <1>1, <1>2, <1>3, <1>4, <1>5, <1>6, <1>7, <1>8, <1>9, <1>10, <1>11
        DEF Engine

(***************************************************************************)
(* The theorems.                                                           *)
(***************************************************************************)

\* The invariant holds when the manager is built.
LEMMA InitHolds == Init => SpecInv
<1> SUFFICES ASSUME Init PROVE SpecInv
  OBVIOUS
<1>1. TypeOK
  <2>1. 0 \in 0 .. MaxGen
    BY Closed
  <2> QED BY <2>1, EmptyJournal DEF Init, TypeOK
<1> QED BY <1>1
        DEF Init, SpecInv, JournalScope, OneSpeculation, RollbackExact,
            PendingIsTheStep, WindowQuiet, QuietIsBase, JobIsCall

\* No step of any thread breaks it.
LEMMA Inductive == SpecInv /\ [Next]_vars => SpecInv'
<1> SUFFICES ASSUME SpecInv, [Next]_vars PROVE SpecInv'
  OBVIOUS
<1>1. CASE Worker
  BY <1>1, WorkerKeeps
<1>2. CASE Engine
  BY <1>2, EngineKeeps
<1>3. CASE UNCHANGED vars
  BY <1>3
  DEF vars, specVars, workerVars, flags, SpecInv, TypeOK, JournalScope,
      OneSpeculation, RollbackExact, PendingIsTheStep, WindowQuiet,
      QuietIsBase, JobIsCall
<1> QED BY <1>1, <1>2, <1>3 DEF Next

\* So the invariant holds in every state of every behaviour.
LEMMA Invariance == Spec => []SpecInv
BY InitHolds, Inductive, PTL DEF Spec

\* Speculation.tla's variables keep their types.
THEOREM TypeCorrect == Spec => []TypeOK
BY Invariance, PTL DEF SpecInv

\* journal.rs: at every moment of a speculative run, and until its result is
\* consumed, reversing the journal restores the state the run started from,
\* whatever the run wrote, in whatever order, and however often.
THEOREM RollbackIsExact == Spec => []RollbackExact
BY Invariance, PTL DEF SpecInv

\* The journal is armed in a run and while its result waits, and nowhere
\* else; and no run starts on top of a result that waits.
THEOREM JournalIsScoped == Spec => [](JournalScope /\ OneSpeculation)
BY Invariance, PTL DEF SpecInv

\* What take_speculative may hand out is the step a direct call computes.
THEOREM PendingIsDirect == Spec => []PendingIsTheStep
BY Invariance, PTL DEF SpecInv

\* Between schedule_phase1 and schedule_phase2 the worker changes nothing.
THEOREM WindowIsQuiet == Spec => []WindowQuiet
BY Invariance, PTL DEF SpecInv

\* The three together: a speculation never outlives its scope.
THEOREM SpeculationIsScoped == Spec => []Scoped
BY JournalIsScoped, PendingIsDirect, WindowIsQuiet, PTL DEF Scoped

(***************************************************************************)
(* Speculation implements DirectScheduler.                                 *)
(***************************************************************************)

\* What the abstract scheduler has for carry.
SeenCarry == IF window THEN carry ELSE NoCarry

\* The first state is one of the abstract scheduler's.
LEMMA InitImplements == Init => Direct!Init
BY DEF Init, Direct!Init, Direct!Memory, Memory

\* Every step of the worker is invisible.
LEMMA WorkerStutters ==
  ASSUME SpecInv, Worker
  PROVE  UNCHANGED <<base, gen, SeenCarry, out>>
<1>1. RolledBack = base
  BY SettledIsBase
<1>2. CASE PickUp \/ Decline \/ Complete
  BY <1>2 DEF PickUp, Decline, Complete, specVars, SeenCarry
<1>3. CASE Begin
  <2>1. base' = base
    BY <1>1, <1>3, SettledIsBase
    DEF Begin, Locked, SpecInv, QuietIsBase
  <2> QED BY <1>3, <2>1 DEF Begin, MayRun, SeenCarry
<1>4. ASSUME NEW c \in Cells, NEW v \in Values, Write(c, v)
      PROVE  UNCHANGED <<base, gen, SeenCarry, out>>
  BY <1>4 DEF Write, SeenCarry
<1>5. CASE Abandon \/ Panic
  BY <1>1, <1>5 DEF Abandon, Panic, Disarm, SeenCarry
<1> QED BY <1>2, <1>3, <1>4, <1>5 DEF Worker

\* A call that only looks is invisible too.
LEMMA ReaderStutters ==
  ASSUME SpecInv, Reader
  PROVE  UNCHANGED <<base, gen, SeenCarry, out>>
<1>1. CASE Recovering
  BY <1>1, SettledIsBase DEF Reader, Disarm, SeenCarry
<1>2. CASE ~Recovering
  BY <1>2 DEF Reader, specVars, SeenCarry
<1> QED BY <1>1, <1>2

\* Every call of the engine is the call of the abstract scheduler; a hit is
\* its Schedule.
LEMMA EngineImplements ==
  ASSUME SpecInv, Engine
  PROVE  [Direct!Next]_(Direct!vars)
<1> DEFINE Same == UNCHANGED <<base, gen, SeenCarry, out>>
<1>a. Same => [Direct!Next]_(Direct!vars)
  BY DEF Direct!vars, SeenCarry
<1>b. Writer => Settled = base /\ base' = mem' /\ gen' = gen
  BY SettledIsBase DEF Writer
<1>1. CASE Get \/ GetPanics
  BY <1>1, <1>a, ReaderStutters DEF Get, GetPanics
<1>2. ASSUME NEW slots \in Orders, NEW params \in Params, Kick(slots, params)
      PROVE  [Direct!Next]_(Direct!vars)
  BY <1>2, <1>a, ReaderStutters DEF Kick
<1>3. ASSUME NEW slots \in Orders, NEW params \in Params, TakeHit(slots, params)
      PROVE  [Direct!Next]_(Direct!vars)
  <2>1. /\ base' = Result(base, Now(slots, params))
        /\ out' = Decision(base, Now(slots, params))
        /\ gen' = gen
    BY <1>3 DEF TakeHit, Matches, Disarm, SpecInv, PendingIsTheStep
  <2>2. window = FALSE /\ window' = FALSE
    BY <1>3 DEF TakeHit, Matches, SpecInv, JournalScope, WindowQuiet, TypeOK
  <2>3. Direct!Schedule(slots, params)
    BY <2>1, <2>2 DEF Direct!Schedule, Direct!Now, Now
  <2> QED BY <2>3 DEF Direct!Next
<1>4. ASSUME NEW slots \in Orders, NEW params \in Params, TakeMiss(slots, params)
      PROVE  [Direct!Next]_(Direct!vars)
  BY <1>4, <1>a, <1>b DEF TakeMiss, SeenCarry
<1>5. ASSUME NEW slots \in Orders, NEW params \in Params, Schedule(slots, params)
      PROVE  [Direct!Next]_(Direct!vars)
  <2>1. Direct!Schedule(slots, params)
    BY <1>5, <1>b DEF Schedule, Direct!Schedule, Direct!Now, Now
  <2> QED BY <2>1 DEF Direct!Next
<1>6. ASSUME NEW slots \in Orders, NEW params \in Params, Phase1(slots, params)
      PROVE  [Direct!Next]_(Direct!vars)
  <2>1. Direct!Phase1(slots, params)
    BY <1>6, <1>b DEF Phase1, Direct!Phase1, Direct!Now, Now
  <2> QED BY <2>1 DEF Direct!Next
<1>7. CASE Phase2
  <2>1. carry # NoCarry
    BY <1>7 DEF Phase2, SpecInv, WindowQuiet
  <2>2. Direct!Phase2
    BY <1>7, <1>b, <2>1 DEF Phase2, Direct!Phase2
  <2> QED BY <2>2 DEF Direct!Next
<1>8. ASSUME NEW m \in Memory, ScheduleFails(m)
      PROVE  [Direct!Next]_(Direct!vars)
  <2>1. Direct!ScheduleFails(m)
    BY <1>8, <1>b DEF ScheduleFails, Direct!ScheduleFails
  <2> QED BY <2>1 DEF Direct!Next, Direct!Memory, Memory
<1>9. ASSUME NEW m \in Memory, Mutate(m)
      PROVE  [Direct!Next]_(Direct!vars)
  <2>1. Direct!Mutate(m)
    BY <1>9, <1>b DEF Mutate, Direct!Mutate
  <2> QED BY <2>1 DEF Direct!Next, Direct!Memory, Memory
<1>10. ASSUME NEW m \in Memory, CallPanics(m)
       PROVE  [Direct!Next]_(Direct!vars)
  <2>1. CASE window' = window
    <3>1. Direct!Mutate(m)
      BY <1>10, <1>b, <2>1 DEF CallPanics, Direct!Mutate
    <3> QED BY <3>1 DEF Direct!Next, Direct!Memory, Memory
  <2>2. CASE window' = FALSE
    <3>1. Direct!ScheduleFails(m)
      BY <1>10, <1>b, <2>2 DEF CallPanics, Direct!ScheduleFails
    <3> QED BY <3>1 DEF Direct!Next, Direct!Memory, Memory
  <2> QED BY <1>10, <2>1, <2>2 DEF CallPanics
<1>11. CASE Bump
  <2>1. Direct!Bump
    BY <1>11 DEF Bump, Direct!Bump, specVars
  <2> QED BY <2>1 DEF Direct!Next
<1> QED BY <1>1, <1>2, <1>3, <1>4, <1>5, <1>6, <1>7, <1>8, <1>9, <1>10, <1>11
        DEF Engine

\* Every step is a step of the abstract scheduler, or none.
LEMMA StepImplements == SpecInv /\ [Next]_vars => [Direct!Next]_(Direct!vars)
<1> SUFFICES ASSUME SpecInv, [Next]_vars PROVE [Direct!Next]_(Direct!vars)
  OBVIOUS
<1>1. CASE Worker
  BY <1>1, WorkerStutters DEF Direct!vars, SeenCarry
<1>2. CASE Engine
  BY <1>2, EngineImplements
<1>3. CASE UNCHANGED vars
  BY <1>3 DEF vars, specVars, Direct!vars
<1> QED BY <1>1, <1>2, <1>3 DEF Next

\* A precomputed step can never be told from one computed on demand: with
\* any scheduling functions, any interleaving of worker, engine and input
\* thread, and any panics, the engine sees the scheduler without speculation.
THEOREM SpeculationImplementsDirect == Spec => ImplementsDirect
<1>1. Spec => Direct!Init
  BY InitImplements DEF Spec
<1>2. SpecInv /\ [Next]_vars => [Direct!Next]_(Direct!vars)
  BY StepImplements
<1> QED BY <1>1, <1>2, Invariance, PTL DEF Spec, ImplementsDirect, Direct!Spec

------------------------------------------------------------------------------
(* What the operators write, field by field.                               *)

\* A device state with one or several fields changed has the others as before.
LEMMA PrepareFields ==
  ASSUME NEW d, IsDevice(d)
  PROVE  LET p == PrepareInputs(d)
         IN  /\ IsDevice(p)
             /\ p.num_reqs = d.num_reqs /\ p.rows = d.rows /\ p.computed = d.computed
             /\ p.last = d.last /\ p.kv = d.kv /\ p.tok = d.tok /\ p.accum = d.accum
             /\ p.step = d.step /\ p.hidden = d.hidden
             /\ \A i \in Batch : i <= d.num_reqs =>
                  /\ p.input_ids[i] = d.last[i]
                  /\ p.positions[i] = d.computed[i]
                  /\ p.seq_lens[i] = d.computed[i] + 1
                  /\ p.column[i] = d.computed[i] \div BlockSize
                  /\ p.ssm[i] = PreCopied(d.ssm[i], d.computed[i])
             /\ \A i \in Batch : ~ (i <= d.num_reqs) =>
                  /\ p.seq_lens[i] = 0
                  /\ p.ssm[i] = d.ssm[i]
  BY DEF IsDevice, PrepareInputs

\* Forward changes the keys, the recurrent states and the hidden states.
LEMMA ForwardFields ==
  ASSUME NEW d, IsDevice(d)
  PROVE  LET f == Forward(d)
         IN  /\ IsDevice(f)
             /\ f.num_reqs = d.num_reqs /\ f.rows = d.rows /\ f.computed = d.computed
             /\ f.last = d.last /\ f.input_ids = d.input_ids /\ f.positions = d.positions
             /\ f.seq_lens = d.seq_lens /\ f.column = d.column /\ f.tok = d.tok
             /\ f.accum = d.accum /\ f.step = d.step
             /\ f.kv = KvAfter(d) /\ f.ssm = SsmAfter(d) /\ f.hidden = HiddenAfter(d)
  BY DEF IsDevice, Forward

\* PostUpdate changes the counts and the last tokens.
LEMMA PostUpdateFields ==
  ASSUME NEW d, IsDevice(d), NEW sampled, NEW num, NEW rejected
  PROVE  LET u == PostUpdate(d, sampled, num, rejected)
         IN  /\ IsDevice(u)
             /\ u.num_reqs = d.num_reqs /\ u.kv = d.kv /\ u.ssm = d.ssm
             /\ u.seq_lens = d.seq_lens
             /\ \A i \in Batch : i <= d.num_reqs =>
                  /\ u.computed[i] = d.computed[i] + 1 - rejected
                  /\ u.last[i] = sampled[i][num]
             /\ \A i \in Batch : ~ (i <= d.num_reqs) =>
                  u.computed[i] = d.computed[i] /\ u.last[i] = d.last[i]
  BY DEF IsDevice, PostUpdate

\* Sample changes the tokens, of the rows that are sampled.
LEMMA SampleFields ==
  ASSUME NEW d, IsDevice(d), NEW width
  PROVE  LET s == Sample(d, width)
         IN  /\ IsDevice(s)
             /\ s.num_reqs = d.num_reqs /\ s.rows = d.rows /\ s.computed = d.computed
             /\ s.last = d.last /\ s.input_ids = d.input_ids /\ s.positions = d.positions
             /\ s.seq_lens = d.seq_lens /\ s.column = d.column /\ s.kv = d.kv
             /\ s.ssm = d.ssm /\ s.hidden = d.hidden /\ s.accum = d.accum /\ s.step = d.step
             /\ \A i \in Batch : i <= width => s.tok[i] = d.hidden[i]
  BY DEF IsDevice, Sample

\* AccumTail changes a column of the accumulator.
LEMMA AccumTailFields ==
  ASSUME NEW d, IsDevice(d)
  PROVE  LET a == AccumTail(d)
         IN  /\ IsDevice(a)
             /\ a.num_reqs = d.num_reqs /\ a.rows = d.rows /\ a.computed = d.computed
             /\ a.last = d.last /\ a.input_ids = d.input_ids /\ a.positions = d.positions
             /\ a.seq_lens = d.seq_lens /\ a.column = d.column /\ a.kv = d.kv
             /\ a.ssm = d.ssm /\ a.hidden = d.hidden /\ a.tok = d.tok /\ a.step = d.step
             /\ \A i \in Batch : a.accum[i] = [d.accum[i] EXCEPT ![d.step] = d.tok[i]]
  BY DEF IsDevice, AccumTail, Accumulated

\* Feed changes the accumulator, the inputs of the real rows, and the counter.
LEMMA FeedFields ==
  ASSUME NEW d, IsDevice(d)
  PROVE  LET f == Feed(d)
         IN  /\ IsDevice(f)
             /\ f.num_reqs = d.num_reqs /\ f.rows = d.rows /\ f.computed = d.computed
             /\ f.last = d.last /\ f.column = d.column /\ f.kv = d.kv /\ f.ssm = d.ssm
             /\ f.hidden = d.hidden /\ f.tok = d.tok /\ f.step = d.step + 1
             /\ \A i \in Batch : f.accum[i] = [d.accum[i] EXCEPT ![d.step] = d.tok[i]]
             /\ \A i \in Batch : i <= d.rows =>
                  /\ f.input_ids[i] = d.tok[i]
                  /\ f.positions[i] = Least(d.positions[i] + 1, MaxModelLen - 1)
                  /\ f.seq_lens[i] = Least(d.seq_lens[i] + 1, MaxModelLen)
             /\ \A i \in Batch : ~ (i <= d.rows) => f.seq_lens[i] = d.seq_lens[i]
  BY DEF IsDevice, Feed, Accumulated

\* HostTail changes a column of the accumulator, in the real rows.
LEMMA HostTailFields ==
  ASSUME NEW d, IsDevice(d), NEW c
  PROVE  LET a == HostTail(d, c)
         IN  /\ IsDevice(a)
             /\ a.num_reqs = d.num_reqs /\ a.rows = d.rows /\ a.computed = d.computed
             /\ a.last = d.last /\ a.input_ids = d.input_ids /\ a.positions = d.positions
             /\ a.seq_lens = d.seq_lens /\ a.column = d.column /\ a.kv = d.kv
             /\ a.ssm = d.ssm /\ a.hidden = d.hidden /\ a.tok = d.tok /\ a.step = d.step
             /\ \A i \in Batch : i <= d.num_reqs =>
                  a.accum[i] = [d.accum[i] EXCEPT ![c] = d.tok[i]]
  BY DEF IsDevice, HostTail

\* Primed changes the two scalars the kernels read.
LEMMA PrimedFields ==
  ASSUME NEW d, IsDevice(d)
  PROVE  LET p == Primed(d)
         IN  /\ IsDevice(p)
             /\ p.num_reqs = d.num_reqs /\ p.rows = d.num_reqs /\ p.computed = d.computed
             /\ p.last = d.last /\ p.input_ids = d.input_ids /\ p.positions = d.positions
             /\ p.seq_lens = d.seq_lens /\ p.column = d.column /\ p.kv = d.kv
             /\ p.ssm = d.ssm /\ p.hidden = d.hidden /\ p.tok = d.tok
             /\ p.accum = d.accum /\ p.step = 0
  BY DEF IsDevice, Primed

------------------------------------------------------------------------------
(* A stock step, and one iteration of a burst, of one row.                 *)

\* The token a row's forward pass comes to, from the row's keys, the length it
\* attends to, its recurrent states and the column of them.
TokenOf(row, len, states, col) == Decode(Seen(row, len), states[col])

\* A stock step feeds the last token in at the count, in the column of it.
LEMMA StockStepRow ==
  ASSUME NEW d, IsDevice(d), NEW i \in Batch, i <= d.num_reqs, d.computed[i] \in Nat
  PROVE  LET s   == StockStep(d)
             c   == d.computed[i]
             col == c \div BlockSize
             kv  == Written(d.kv[i], c, d.last[i])
             ssm == Recurred(PreCopied(d.ssm[i], c), col, d.last[i])
         IN  /\ s.computed[i] = c + 1
             /\ s.kv[i] = kv
             /\ s.ssm[i] = ssm
             /\ s.last[i] = TokenOf(kv, c + 1, ssm, col)
<1> DEFINE p == PrepareInputs(d)
           f == Forward(p)
           sampled == [j \in Batch |-> <<f.hidden[j]>>]
<1>1. /\ IsDevice(p) /\ p.num_reqs = d.num_reqs /\ p.computed = d.computed /\ p.kv = d.kv
      /\ p.input_ids[i] = d.last[i] /\ p.positions[i] = d.computed[i]
      /\ p.seq_lens[i] = d.computed[i] + 1 /\ p.column[i] = d.computed[i] \div BlockSize
      /\ p.ssm[i] = PreCopied(d.ssm[i], d.computed[i])
  BY PrepareFields
<1> HIDE DEF p
<1>2. /\ IsDevice(f) /\ f.num_reqs = p.num_reqs /\ f.computed = p.computed
      /\ f.kv = KvAfter(p) /\ f.ssm = SsmAfter(p) /\ f.hidden = HiddenAfter(p)
  BY <1>1, ForwardFields
<1>3. /\ KvAfter(p)[i] = Written(d.kv[i], d.computed[i], d.last[i])
      /\ SsmAfter(p)[i] = Recurred(PreCopied(d.ssm[i], d.computed[i]),
                                   d.computed[i] \div BlockSize, d.last[i])
  BY <1>1 DEF KvAfter, SsmAfter
<1>4. HiddenAfter(p)[i] = TokenOf(KvAfter(p)[i], d.computed[i] + 1, SsmAfter(p)[i],
                                  d.computed[i] \div BlockSize)
  BY <1>1 DEF HiddenAfter, TokenOf
<1> HIDE DEF f
<1>5. sampled[i][1] = f.hidden[i]
  OBVIOUS
<1> HIDE DEF sampled
<1>6. LET u == PostUpdate(f, sampled, 1, 0)
      IN  /\ u.kv = f.kv /\ u.ssm = f.ssm
          /\ u.computed[i] = f.computed[i] + 1 - 0
          /\ u.last[i] = sampled[i][1]
  BY <1>1, <1>2, PostUpdateFields
<1>7. StockStep(d) = PostUpdate(f, sampled, 1, 0)
  BY DEF StockStep, p, f, sampled
<1> QED
  BY <1>1, <1>2, <1>3, <1>4, <1>5, <1>6, <1>7

\* A stock step keeps the batch, and leaves the other rows alone.
LEMMA StockStepRest ==
  ASSUME NEW d, IsDevice(d)
  PROVE  /\ IsDevice(StockStep(d))
         /\ StockStep(d).num_reqs = d.num_reqs
<1> DEFINE p == PrepareInputs(d)
           f == Forward(p)
<1>1. IsDevice(p) /\ p.num_reqs = d.num_reqs
  BY PrepareFields
<1>2. IsDevice(f) /\ f.num_reqs = p.num_reqs
  BY <1>1, ForwardFields
<1> HIDE DEF p, f
<1>3. LET u == PostUpdate(f, [i \in Batch |-> <<f.hidden[i]>>], 1, 0)
      IN  IsDevice(u) /\ u.num_reqs = f.num_reqs
  BY <1>2, PostUpdateFields
<1> QED
  BY <1>1, <1>2, <1>3 DEF StockStep, p, f

\* An iteration feeds the token in at the next position, in the same column.
LEMMA BodyRow ==
  ASSUME NEW d, IsDevice(d), d.rows = d.num_reqs, NEW width, d.num_reqs \in Int, width \in Int,
         d.num_reqs <= width,
         NEW i \in Batch, i <= d.num_reqs
  PROVE  LET s   == Body(d, width)
             pos == Least(d.positions[i] + 1, MaxModelLen - 1)
             len == Least(d.seq_lens[i] + 1, MaxModelLen)
             kv  == Written(d.kv[i], pos, d.tok[i])
             ssm == Recurred(d.ssm[i], d.column[i], d.tok[i])
         IN  /\ s.positions[i] = pos
             /\ s.seq_lens[i] = len
             /\ s.kv[i] = kv
             /\ s.ssm[i] = ssm
             /\ s.tok[i] = TokenOf(kv, len, ssm, d.column[i])
             /\ s.accum[i] = [d.accum[i] EXCEPT ![d.step] = d.tok[i]]
<1> DEFINE e == Feed(d)
           f == Forward(e)
<1>1. /\ IsDevice(e) /\ e.num_reqs = d.num_reqs /\ e.column = d.column /\ e.kv = d.kv
      /\ e.ssm = d.ssm
      /\ e.accum[i] = [d.accum[i] EXCEPT ![d.step] = d.tok[i]]
      /\ e.input_ids[i] = d.tok[i]
      /\ e.positions[i] = Least(d.positions[i] + 1, MaxModelLen - 1)
      /\ e.seq_lens[i] = Least(d.seq_lens[i] + 1, MaxModelLen)
  BY FeedFields
<1> HIDE DEF e
<1>2. /\ IsDevice(f) /\ f.num_reqs = e.num_reqs /\ f.positions = e.positions
      /\ f.seq_lens = e.seq_lens /\ f.accum = e.accum
      /\ f.kv = KvAfter(e) /\ f.ssm = SsmAfter(e) /\ f.hidden = HiddenAfter(e)
  BY <1>1, ForwardFields
<1>3. /\ KvAfter(e)[i] = Written(d.kv[i], e.positions[i], d.tok[i])
      /\ SsmAfter(e)[i] = Recurred(d.ssm[i], d.column[i], d.tok[i])
  BY <1>1 DEF KvAfter, SsmAfter
<1>4. HiddenAfter(e)[i] = TokenOf(KvAfter(e)[i], e.seq_lens[i], SsmAfter(e)[i], d.column[i])
  BY <1>1 DEF HiddenAfter, TokenOf
<1> HIDE DEF f
<1>5. i <= width
  BY DEF Batch
<1>6. LET s == Sample(f, width)
      IN  /\ s.positions = f.positions /\ s.seq_lens = f.seq_lens /\ s.kv = f.kv
          /\ s.ssm = f.ssm /\ s.accum = f.accum /\ s.tok[i] = f.hidden[i]
  BY <1>2, <1>5, SampleFields
<1> QED
  BY <1>1, <1>2, <1>3, <1>4, <1>6 DEF Body, e, f

\* The rest of what it does: the counter goes up, and a padded row's length and
\* state stay as they are.
LEMMA BodyRest ==
  ASSUME NEW d, IsDevice(d), d.rows = d.num_reqs, NEW width
  PROVE  LET s == Body(d, width)
         IN  /\ IsDevice(s) /\ s.num_reqs = d.num_reqs /\ s.rows = d.rows
             /\ s.step = d.step + 1 /\ s.column = d.column /\ s.computed = d.computed
             /\ s.last = d.last
             /\ \A i \in Batch : ~ (i <= d.num_reqs) =>
                  s.seq_lens[i] = d.seq_lens[i] /\ s.kv[i] = d.kv[i] /\ s.ssm[i] = d.ssm[i]
<1> DEFINE e == Feed(d)
           f == Forward(e)
<1>1. /\ IsDevice(e) /\ e.num_reqs = d.num_reqs /\ e.rows = d.rows /\ e.column = d.column
      /\ e.kv = d.kv /\ e.ssm = d.ssm /\ e.step = d.step + 1
      /\ e.computed = d.computed /\ e.last = d.last
      /\ \A i \in Batch : ~ (i <= d.rows) => e.seq_lens[i] = d.seq_lens[i]
  BY FeedFields
<1> HIDE DEF e
<1>2. /\ IsDevice(f) /\ f.num_reqs = e.num_reqs /\ f.rows = e.rows /\ f.column = e.column
      /\ f.seq_lens = e.seq_lens /\ f.step = e.step /\ f.computed = e.computed
      /\ f.last = e.last /\ f.kv = KvAfter(e) /\ f.ssm = SsmAfter(e)
  BY <1>1, ForwardFields
<1>3. \A i \in Batch : ~ (i <= e.num_reqs) =>
        KvAfter(e)[i] = e.kv[i] /\ SsmAfter(e)[i] = e.ssm[i]
  BY DEF KvAfter, SsmAfter
<1> HIDE DEF f
<1>4. LET s == Sample(f, width)
      IN  /\ IsDevice(s) /\ s.num_reqs = f.num_reqs /\ s.rows = f.rows
          /\ s.column = f.column /\ s.seq_lens = f.seq_lens /\ s.kv = f.kv
          /\ s.ssm = f.ssm /\ s.step = f.step /\ s.computed = f.computed /\ s.last = f.last
  BY <1>2, SampleFields
<1> QED
  BY <1>1, <1>2, <1>3, <1>4 DEF Body, e, f

------------------------------------------------------------------------------
(* The two traces side by side.                                            *)

\* Within a block the column does not change.
LEMMA SameColumn ==
  ASSUME NEW c \in Nat, NEW j \in Nat, NEW b \in Nat \ {0}, (c % b) + j < b
  PROVE  (c + j) \div b = c \div b
  OBVIOUS

\* n stock steps from d.
StockTrace(t, d, n) == t[0] = d /\ \A k \in 1 .. n : t[k] = StockStep(t[k - 1])

\* Device g has the row of stock state s, with the token in tok and not in last
\* and where the next position is the one after positions.
SameRow(g, s, i, c, k) ==
  /\ g.positions[i] = c + k
  /\ g.seq_lens[i] = c + k + 1
  /\ g.column[i] = c \div BlockSize
  /\ g.kv[i] = s.kv[i]
  /\ g.ssm[i] = s.ssm[i]
  /\ g.tok[i] = s.last[i]
  /\ s.computed[i] = c + k + 1

\* After k iterations of a burst from d, t being the trace of stock steps from d.
Agree(g, t, d, k) ==
  /\ IsDevice(g)
  /\ g.num_reqs = d.num_reqs /\ g.rows = d.num_reqs /\ g.step = k
  /\ g.computed = d.computed /\ g.last = d.last
  /\ \A i \in Batch : i <= d.num_reqs =>
       /\ SameRow(g, t[k + 1], i, d.computed[i], k)
       /\ DOMAIN g.accum[i] = 0 .. Columns - 1
       /\ \A j \in 0 .. k - 1 : g.accum[i][j] = t[j + 1].last[i]
  /\ \A i \in Batch : ~ (i <= d.num_reqs) =>
       g.seq_lens[i] = 0 /\ g.kv[i] = d.kv[i] /\ g.ssm[i] = d.ssm[i]

\* The batch is one that was gated, and the accumulator is wide enough.
Fits(d, n) ==
  /\ IsDevice(d) /\ n \in 1 .. Columns
  /\ d.num_reqs \in 1 .. Padded
  /\ \A i \in 1 .. d.num_reqs : d.computed[i] \in Nat
  /\ \A i \in 1 .. d.num_reqs : DOMAIN d.accum[i] = 0 .. Columns - 1
  /\ Gated(d, n)

\* Every stock state has the batch of the first.
LEMMA StockTraceRest ==
  ASSUME NEW d, NEW n \in Nat, NEW t, IsDevice(d), StockTrace(t, d, n)
  PROVE  \A k \in 0 .. n : IsDevice(t[k]) /\ t[k].num_reqs = d.num_reqs
<1> DEFINE bad == {k \in 0 .. n : ~ (IsDevice(t[k]) /\ t[k].num_reqs = d.num_reqs)}
<1>1. CASE bad = {}
  BY <1>1
<1>2. CASE bad # {}
  <2>1. PICK k \in bad : \A j \in bad : k <= j
    <3>1. bad \subseteq Nat
      OBVIOUS
    <3> HIDE DEF bad
    <3> QED BY <1>2, <3>1, LeastNatural
  <2>2. k # 0
    BY DEF StockTrace
  <2>3. k - 1 \in 0 .. n /\ k - 1 \notin bad /\ k \in 1 .. n
    BY <2>1, <2>2
  <2>4. IsDevice(t[k - 1]) /\ t[k - 1].num_reqs = d.num_reqs
    BY <2>3
  <2>5. t[k] = StockStep(t[k - 1])
    BY <2>3 DEF StockTrace
  <2> QED
    BY <2>1, <2>4, <2>5, StockStepRest
<1> QED
  BY <1>1, <1>2

\* What a gated row has.
LEMMA FitsRow ==
  ASSUME BurstConstants, NEW d, NEW n, Fits(d, n), NEW i \in Batch, i <= d.num_reqs
  PROVE  /\ d.computed[i] \in Nat /\ n \in Nat
         /\ (d.computed[i] % BlockSize) + n <= BlockSize
         /\ d.computed[i] + n <= MaxModelLen - 1
         /\ DOMAIN d.accum[i] = 0 .. Columns - 1
<1>1. i \in 1 .. d.num_reqs
  BY DEF Fits, Batch
<1>2. d.computed[i] \in Nat /\ DOMAIN d.accum[i] = 0 .. Columns - 1
  BY <1>1 DEF Fits
<1>3. n \in Nat
  BY DEF Fits, BurstConstants
<1>4. Gated(d, n)
  BY DEF Fits
<1>5. (d.computed[i] % BlockSize) + n <= BlockSize /\ d.computed[i] + n <= MaxModelLen - 1
  BY <1>1, <1>4, Zenon DEF Gated
<1> QED
  BY <1>2, <1>3, <1>5, Zenon

\* The prologue samples what the stock step sampled.
LEMMA AgreeFirst ==
  ASSUME BurstConstants, NEW d, NEW n, Fits(d, n), NEW t, StockTrace(t, d, n),
         NEW width \in Int, d.num_reqs <= width
  PROVE  Agree(Sample(Primed(Forward(PrepareInputs(d))), width), t, d, 0)
<1> DEFINE p == PrepareInputs(d)
           f == Forward(p)
           m == Primed(f)
           g == Sample(m, width)
<1>0. IsDevice(d) /\ d.num_reqs \in Int /\ 1 \in 1 .. n
  BY DEF Fits
<1>1. /\ IsDevice(p) /\ p.num_reqs = d.num_reqs /\ p.computed = d.computed
      /\ p.last = d.last /\ p.kv = d.kv /\ p.accum = d.accum
      /\ \A i \in Batch : i <= d.num_reqs =>
           /\ p.input_ids[i] = d.last[i]
           /\ p.positions[i] = d.computed[i]
           /\ p.seq_lens[i] = d.computed[i] + 1
           /\ p.column[i] = d.computed[i] \div BlockSize
           /\ p.ssm[i] = PreCopied(d.ssm[i], d.computed[i])
      /\ \A i \in Batch : ~ (i <= d.num_reqs) => p.seq_lens[i] = 0 /\ p.ssm[i] = d.ssm[i]
  BY <1>0, PrepareFields
<1> HIDE DEF p
<1>2. /\ IsDevice(f) /\ f.num_reqs = p.num_reqs /\ f.computed = p.computed
      /\ f.last = p.last /\ f.positions = p.positions /\ f.seq_lens = p.seq_lens
      /\ f.column = p.column /\ f.accum = p.accum
      /\ f.kv = KvAfter(p) /\ f.ssm = SsmAfter(p) /\ f.hidden = HiddenAfter(p)
  BY <1>1, ForwardFields
<1> HIDE DEF f
<1>3. /\ IsDevice(m) /\ m.num_reqs = f.num_reqs /\ m.rows = f.num_reqs
      /\ m.computed = f.computed /\ m.last = f.last /\ m.positions = f.positions
      /\ m.seq_lens = f.seq_lens /\ m.column = f.column /\ m.kv = f.kv /\ m.ssm = f.ssm
      /\ m.hidden = f.hidden /\ m.accum = f.accum /\ m.step = 0
  BY <1>2, PrimedFields
<1> HIDE DEF m
<1>4. /\ IsDevice(g) /\ g.num_reqs = m.num_reqs /\ g.rows = m.rows
      /\ g.computed = m.computed /\ g.last = m.last /\ g.positions = m.positions
      /\ g.seq_lens = m.seq_lens /\ g.column = m.column /\ g.kv = m.kv /\ g.ssm = m.ssm
      /\ g.accum = m.accum /\ g.step = m.step
      /\ \A i \in Batch : i <= width => g.tok[i] = m.hidden[i]
  BY <1>3, SampleFields
<1> HIDE DEF g
<1>5. t[1] = StockStep(d)
  BY <1>0 DEF StockTrace
<1>6. ASSUME NEW i \in Batch, i <= d.num_reqs
      PROVE  /\ SameRow(g, t[0 + 1], i, d.computed[i], 0)
             /\ DOMAIN g.accum[i] = 0 .. Columns - 1
  <2> DEFINE c   == d.computed[i]
             col == c \div BlockSize
             kv  == Written(d.kv[i], c, d.last[i])
             ssm == Recurred(PreCopied(d.ssm[i], c), col, d.last[i])
  <2>1. c \in Nat /\ DOMAIN d.accum[i] = 0 .. Columns - 1
    BY <1>6, FitsRow
  <2>2. /\ t[1].computed[i] = c + 1 /\ t[1].kv[i] = kv /\ t[1].ssm[i] = ssm
        /\ t[1].last[i] = TokenOf(kv, c + 1, ssm, col)
    BY <1>0, <1>5, <1>6, <2>1, StockStepRow
  <2>3. KvAfter(p)[i] = kv /\ SsmAfter(p)[i] = ssm
    BY <1>1, <1>6 DEF KvAfter, SsmAfter
  <2>4. HiddenAfter(p)[i] = TokenOf(KvAfter(p)[i], c + 1, SsmAfter(p)[i], col)
    BY <1>1, <1>6 DEF HiddenAfter, TokenOf
  <2>5. i <= width
    BY <1>0, <1>6 DEF Batch
  <2>6. g.tok[i] = t[1].last[i]
    BY <1>2, <1>3, <1>4, <2>2, <2>3, <2>4, <2>5
  <2>7. /\ g.positions[i] = c /\ g.seq_lens[i] = c + 1 /\ g.column[i] = col
        /\ g.kv[i] = kv /\ g.ssm[i] = ssm /\ g.accum[i] = d.accum[i]
    BY <1>1, <1>2, <1>3, <1>4, <1>6, <2>3
  <2> QED
    BY <2>1, <2>2, <2>6, <2>7 DEF SameRow
<1>7. ASSUME NEW i \in Batch, ~ (i <= d.num_reqs)
      PROVE  g.seq_lens[i] = 0 /\ g.kv[i] = d.kv[i] /\ g.ssm[i] = d.ssm[i]
  <2>1. KvAfter(p)[i] = d.kv[i] /\ SsmAfter(p)[i] = d.ssm[i]
    BY <1>1, <1>7 DEF KvAfter, SsmAfter
  <2> QED
    BY <1>1, <1>2, <1>3, <1>4, <1>7, <2>1
<1>8. Agree(g, t, d, 0)
  <2>1. 0 .. 0 - 1 = {}
    OBVIOUS
  <2> QED
    BY <1>1, <1>2, <1>3, <1>4, <1>6, <1>7, <2>1 DEF Agree
<1> QED
  BY <1>8 DEF g, m, f, p

\* One more iteration is one more stock step.
LEMMA AgreeBody ==
  ASSUME BurstConstants, NEW d, NEW n, Fits(d, n), NEW t, StockTrace(t, d, n),
         NEW k \in Nat, k + 1 < n, NEW g, Agree(g, t, d, k),
         NEW width \in Int, d.num_reqs <= width
  PROVE  Agree(Body(g, width), t, d, k + 1)
<1> DEFINE h == Body(g, width)
           s == t[k + 1]
           u == t[k + 1 + 1]
<1>0. /\ IsDevice(g) /\ g.num_reqs = d.num_reqs /\ g.rows = d.num_reqs /\ g.step = k
      /\ d.num_reqs \in Int /\ n \in Nat /\ n <= Columns /\ Columns \in Nat
  BY DEF Agree, Fits, BurstConstants
<1>1. /\ IsDevice(h) /\ h.num_reqs = g.num_reqs /\ h.rows = g.rows
      /\ h.step = k + 1 /\ h.column = g.column /\ h.computed = g.computed
      /\ h.last = g.last
      /\ \A i \in Batch : ~ (i <= g.num_reqs) =>
           h.seq_lens[i] = g.seq_lens[i] /\ h.kv[i] = g.kv[i] /\ h.ssm[i] = g.ssm[i]
  BY <1>0, BodyRest
<1>2. /\ u = StockStep(s) /\ IsDevice(s) /\ s.num_reqs = d.num_reqs
  <2>1. k + 1 + 1 \in 1 .. n /\ (k + 1 + 1) - 1 = k + 1 /\ k + 1 \in 0 .. n
    BY <1>0
  <2>2. IsDevice(d)
    BY DEF Fits
  <2>3. \A j \in 0 .. n : IsDevice(t[j]) /\ t[j].num_reqs = d.num_reqs
    BY <1>0, <2>2, StockTraceRest
  <2>4. \A j \in 1 .. n : t[j] = StockStep(t[j - 1])
    BY DEF StockTrace
  <2> QED
    BY <2>1, <2>3, <2>4
<1>3. ASSUME NEW i \in Batch, i <= d.num_reqs
      PROVE  /\ SameRow(h, u, i, d.computed[i], k + 1)
             /\ DOMAIN h.accum[i] = 0 .. Columns - 1
             /\ \A j \in 0 .. (k + 1) - 1 : h.accum[i][j] = t[j + 1].last[i]
  <2> DEFINE c   == d.computed[i]
             col == c \div BlockSize
             kv  == Written(g.kv[i], c + k + 1, g.tok[i])
             ssm == Recurred(g.ssm[i], col, g.tok[i])
  <2>1. /\ c \in Nat /\ (c % BlockSize) + n <= BlockSize /\ c + n <= MaxModelLen - 1
        /\ BlockSize \in Nat \ {0} /\ MaxModelLen \in Nat
    BY <1>3, FitsRow DEF BurstConstants
  <2>2. /\ g.positions[i] = c + k /\ g.seq_lens[i] = c + k + 1 /\ g.column[i] = col
        /\ g.kv[i] = s.kv[i] /\ g.ssm[i] = s.ssm[i] /\ g.tok[i] = s.last[i]
        /\ s.computed[i] = c + k + 1
        /\ DOMAIN g.accum[i] = 0 .. Columns - 1
        /\ \A j \in 0 .. k - 1 : g.accum[i][j] = t[j + 1].last[i]
    BY <1>3 DEF Agree, SameRow
  <2>3. (c % BlockSize) \in Nat
    BY <2>1
  <2>4. (c + k) \div BlockSize = col /\ (c + k + 1) \div BlockSize = col
    <3>1. (c % BlockSize) + k < BlockSize /\ (c % BlockSize) + (k + 1) < BlockSize
      BY <1>0, <2>1, <2>3
    <3>2. (c + k) \div BlockSize = col
      BY <2>1, <3>1, SameColumn
    <3>3. (c + (k + 1)) \div BlockSize = col
      <4>1. k + 1 \in Nat
        OBVIOUS
      <4> QED
        BY <2>1, <3>1, <4>1, SameColumn
    <3>4. c + (k + 1) = c + k + 1
      BY <2>1
    <3> QED
      BY <3>2, <3>3, <3>4
  <2>5. /\ Least(g.positions[i] + 1, MaxModelLen - 1) = c + k + 1
        /\ Least(g.seq_lens[i] + 1, MaxModelLen) = c + k + 2
    <3>1. c \in Nat /\ c + n <= MaxModelLen - 1 /\ MaxModelLen \in Nat /\ n \in Nat
      BY <1>0, <2>1
    <3>2. g.positions[i] = c + k /\ g.seq_lens[i] = c + k + 1
      BY <2>2
    <3> HIDE DEF c
    <3> QED
      BY <3>1, <3>2 DEF Least
  <2>6. /\ h.positions[i] = c + k + 1 /\ h.seq_lens[i] = c + k + 2
        /\ h.kv[i] = kv /\ h.ssm[i] = ssm
        /\ h.tok[i] = TokenOf(kv, c + k + 2, ssm, col)
        /\ h.accum[i] = [g.accum[i] EXCEPT ![k] = g.tok[i]]
    BY <1>0, <1>3, <2>2, <2>5, BodyRow
  <2>7. PreCopied(s.ssm[i], c + k + 1) = s.ssm[i]
    <3>1. (c + k + 1) - 1 = c + k
      BY <2>1
    <3> QED
      BY <2>4, <3>1 DEF PreCopied
  <2>8. /\ u.computed[i] = c + k + 2 /\ u.kv[i] = kv /\ u.ssm[i] = ssm
        /\ u.last[i] = TokenOf(kv, c + k + 2, ssm, col)
    <3>1. c + k + 1 \in Nat /\ c + k + 1 + 1 = c + k + 2
      BY <2>1
    <3> QED
      BY <1>2, <1>3, <2>2, <2>4, <2>7, <3>1, StockStepRow
  <2>9. SameRow(h, u, i, c, k + 1)
    <3>1. c + (k + 1) = c + k + 1 /\ c + (k + 1) + 1 = c + k + 2
      BY <2>1
    <3> QED
      BY <1>1, <2>2, <2>6, <2>8, <3>1 DEF SameRow
  <2>10. ASSUME NEW j \in 0 .. (k + 1) - 1
         PROVE  h.accum[i][j] = t[j + 1].last[i]
    <3>1. j \in 0 .. Columns - 1
      BY <1>0
    <3>2. CASE j = k
      BY <2>2, <2>6, <3>1, <3>2
    <3>3. CASE j # k
      <4>1. j \in 0 .. k - 1
        BY <3>3
      <4> QED
        BY <2>2, <2>6, <3>1, <3>3, <4>1
    <3> QED
      BY <3>2, <3>3
  <2> QED
    BY <2>2, <2>6, <2>9, <2>10
<1>4. Agree(h, t, d, k + 1)
  BY <1>0, <1>1, <1>3 DEF Agree
<1> QED
  BY <1>4

\* Storing the last token once more changes no column before it.
LEMMA AgreeStored ==
  ASSUME BurstConstants, NEW d, NEW n, Fits(d, n), NEW t, NEW k \in Nat, k < n,
         NEW g, Agree(g, t, d, k), NEW a, a \in {AccumTail(g), HostTail(g, k)}
  PROVE  /\ Agree(a, t, d, k)
         /\ \A i \in Batch : i <= d.num_reqs => a.accum[i][k] = t[k + 1].last[i]
<1>0. /\ IsDevice(g) /\ g.num_reqs = d.num_reqs /\ g.step = k
      /\ n \in Nat /\ n <= Columns /\ Columns \in Nat
  BY DEF Agree, Fits, BurstConstants
<1>1. /\ IsDevice(a) /\ a.num_reqs = g.num_reqs /\ a.rows = g.rows
      /\ a.computed = g.computed /\ a.last = g.last /\ a.positions = g.positions
      /\ a.seq_lens = g.seq_lens /\ a.column = g.column /\ a.kv = g.kv /\ a.ssm = g.ssm
      /\ a.tok = g.tok /\ a.step = g.step
      /\ \A i \in Batch : i <= g.num_reqs =>
           a.accum[i] = [g.accum[i] EXCEPT ![k] = g.tok[i]]
  <2>1. CASE a = AccumTail(g)
    BY <1>0, <2>1, AccumTailFields
  <2>2. CASE a = HostTail(g, k)
    BY <1>0, <2>2, HostTailFields
  <2> QED
    BY <2>1, <2>2
<1>2. ASSUME NEW i \in Batch, i <= d.num_reqs
      PROVE  /\ SameRow(a, t[k + 1], i, d.computed[i], k)
             /\ DOMAIN a.accum[i] = 0 .. Columns - 1
             /\ \A j \in 0 .. k : a.accum[i][j] = t[j + 1].last[i]
  <2>1. /\ SameRow(g, t[k + 1], i, d.computed[i], k)
        /\ DOMAIN g.accum[i] = 0 .. Columns - 1
        /\ \A j \in 0 .. k - 1 : g.accum[i][j] = t[j + 1].last[i]
    BY <1>2 DEF Agree
  <2>2. SameRow(a, t[k + 1], i, d.computed[i], k)
    BY <1>1, <2>1 DEF SameRow
  <2>3. a.accum[i] = [g.accum[i] EXCEPT ![k] = g.tok[i]]
    BY <1>0, <1>1, <1>2
  <2>4. g.tok[i] = t[k + 1].last[i]
    BY <2>1 DEF SameRow
  <2>5. ASSUME NEW j \in 0 .. k
        PROVE  a.accum[i][j] = t[j + 1].last[i]
    <3>1. j \in 0 .. Columns - 1
      BY <1>0
    <3>2. CASE j = k
      BY <2>1, <2>3, <2>4, <3>1, <3>2
    <3>3. CASE j # k
      <4>1. j \in 0 .. k - 1
        BY <3>3
      <4> QED
        BY <2>1, <2>3, <3>1, <3>3, <4>1
    <3> QED
      BY <3>2, <3>3
  <2> QED
    BY <2>1, <2>2, <2>3, <2>5
<1>3. Agree(a, t, d, k)
  <2>1. 0 .. k - 1 \subseteq 0 .. k
    OBVIOUS
  <2> QED
    BY <1>0, <1>1, <1>2, <2>1 DEF Agree
<1> QED
  BY <1>2, <1>3

------------------------------------------------------------------------------
(* Any way of cutting a burst into graphs is a trace of kernels.           *)

Stored(x) == {AccumTail(x), HostTail(x, x.step)}

\* The prologue, then m kernels, iterations and stores in any order: a graph, its
\* continuations, or the host's calls one by one.
KernelTrace(g, d, m) ==
  /\ \E width \in Int : /\ d.num_reqs <= width
                        /\ g[0] = Sample(Primed(Forward(PrepareInputs(d))), width)
  /\ \A q \in 1 .. m :
       \/ \E width \in Int : d.num_reqs <= width /\ g[q] = Body(g[q - 1], width)
       \/ g[q] \in Stored(g[q - 1])

\* A state of a trace: the counter says which stock step it agrees with.
OnTrace(x, t, d, n) ==
  /\ IsDevice(x) /\ x.num_reqs = d.num_reqs /\ x.rows = d.num_reqs /\ x.step \in Nat
  /\ x.step < n => Agree(x, t, d, x.step)

\* The counter stays at a store.
LEMMA StoredRest ==
  ASSUME NEW x, IsDevice(x), NEW y \in Stored(x)
  PROVE  IsDevice(y) /\ y.num_reqs = x.num_reqs /\ y.rows = x.rows /\ y.step = x.step
<1>1. CASE y = AccumTail(x)
  BY <1>1, AccumTailFields
<1>2. CASE y = HostTail(x, x.step)
  BY <1>2, HostTailFields
<1> QED
  BY <1>1, <1>2 DEF Stored

\* Every state of a trace does, if the counter has not passed the tokens asked for.
LEMMA TraceAgrees ==
  ASSUME BurstConstants, NEW d, NEW n, Fits(d, n), NEW t, StockTrace(t, d, n),
         NEW m \in Nat, NEW g, KernelTrace(g, d, m)
  PROVE  \A q \in 0 .. m : OnTrace(g[q], t, d, n)
<1> DEFINE bad == {q \in 0 .. m : ~ OnTrace(g[q], t, d, n)}
<1>0. n \in Nat /\ 0 < n /\ d.num_reqs \in Int
  BY DEF Fits, BurstConstants
<1>1. OnTrace(g[0], t, d, n)
  <2>1. PICK width \in Int : /\ d.num_reqs <= width
                             /\ g[0] = Sample(Primed(Forward(PrepareInputs(d))), width)
    BY DEF KernelTrace
  <2>2. Agree(g[0], t, d, 0)
    BY <2>1, AgreeFirst
  <2> QED
    BY <2>2 DEF OnTrace, Agree
<1>2. CASE bad = {}
  BY <1>2
<1>3. CASE bad # {}
  <2>1. PICK q \in bad : \A j \in bad : q <= j
    <3>1. bad \subseteq Nat
      OBVIOUS
    <3> HIDE DEF bad
    <3> QED BY <1>3, <3>1, LeastNatural
  <2>2. q # 0
    BY <1>1
  <2>3. q - 1 \in 0 .. m /\ q - 1 \notin bad /\ q \in 1 .. m
    BY <2>1, <2>2
  <2> DEFINE x == g[q - 1]
             y == g[q]
  <2>4. OnTrace(x, t, d, n)
    BY <2>3
  <2>5. \/ \E width \in Int : d.num_reqs <= width /\ y = Body(x, width)
        \/ y \in Stored(x)
    BY <2>3 DEF KernelTrace
  <2>6. ~ OnTrace(y, t, d, n)
    BY <2>1
  <2> HIDE DEF x, y
  <2>7. CASE \E width \in Int : d.num_reqs <= width /\ y = Body(x, width)
    <3>1. PICK width \in Int : d.num_reqs <= width /\ y = Body(x, width)
      BY <2>7
    <3>2. /\ IsDevice(y) /\ y.num_reqs = x.num_reqs /\ y.rows = x.rows
          /\ y.step = x.step + 1
      BY <2>4, <3>1, BodyRest DEF OnTrace
    <3>3. ASSUME y.step < n
          PROVE  Agree(y, t, d, y.step)
      <4>1. x.step \in Nat /\ x.step + 1 < n /\ Agree(x, t, d, x.step)
        BY <1>0, <2>4, <3>2, <3>3 DEF OnTrace
      <4> QED
        BY <3>1, <3>2, <4>1, AgreeBody
    <3> QED
      BY <2>4, <2>6, <3>2, <3>3 DEF OnTrace
  <2>8. CASE y \in Stored(x)
    <3>1. /\ IsDevice(y) /\ y.num_reqs = x.num_reqs /\ y.rows = x.rows
          /\ y.step = x.step
      BY <2>4, <2>8, StoredRest DEF OnTrace
    <3>2. ASSUME y.step < n
          PROVE  Agree(y, t, d, y.step)
      <4>1. x.step \in Nat /\ x.step < n /\ Agree(x, t, d, x.step)
        BY <2>4, <3>1, <3>2 DEF OnTrace
      <4>2. y \in {AccumTail(x), HostTail(x, x.step)}
        BY <2>8 DEF Stored
      <4>3. Agree(y, t, d, x.step)
        BY <4>1, <4>2, AgreeStored
      <4> QED
        BY <3>1, <4>3
    <3> QED
      BY <2>4, <2>6, <3>1, <3>2 DEF OnTrace
  <2> QED
    BY <2>5, <2>7, <2>8
<1> QED
  BY <1>2, <1>3

\* A burst of n tokens, however it is cut into graphs (nstep_decode.py:
\* _burst_all, _burst_continue, _run_burst, _run_burst_rust): if its last kernel
\* is a store and its counter stands at n - 1, the output is the tokens of n stock
\* steps, the device is left with the keys, recurrent states, counts and last
\* tokens they would leave, and a padded row has no length and lost nothing.
THEOREM BurstIsStockSteps ==
  ASSUME BurstConstants, NEW d, NEW n, Fits(d, n), NEW t, StockTrace(t, d, n),
         NEW m \in Nat \ {0}, NEW g, KernelTrace(g, d, m),
         g[m] \in Stored(g[m - 1]), g[m].step = n - 1
  PROVE  LET r == [device |-> g[m], total |-> n]
             e == Emitted(r)
         IN  /\ \A i \in 1 .. d.num_reqs : \A j \in 1 .. n :
                  BurstOutput(r)[i][j] = t[j].last[i]
             /\ \A i \in Batch : i <= d.num_reqs =>
                  /\ e.computed[i] = t[n].computed[i] /\ e.last[i] = t[n].last[i]
                  /\ e.kv[i] = t[n].kv[i] /\ e.ssm[i] = t[n].ssm[i]
             /\ \A i \in Batch : ~ (i <= d.num_reqs) =>
                  e.seq_lens[i] = 0 /\ e.kv[i] = d.kv[i] /\ e.ssm[i] = d.ssm[i]
<1> DEFINE x == g[m - 1]
           y == g[m]
           r == [device |-> y, total |-> n]
           e == Emitted(r)
<1>0. /\ n \in Nat /\ 0 < n /\ n <= Columns /\ d.num_reqs \in 1 .. Padded
      /\ Padded \in Nat
  BY DEF Fits, BurstConstants
<1>1. OnTrace(x, t, d, n)
  <2>1. m - 1 \in 0 .. m
    OBVIOUS
  <2> QED
    BY <2>1, TraceAgrees
<1>2. y.step = n - 1 /\ y \in Stored(x)
  OBVIOUS
<1> HIDE DEF x, y
<1>3. x.step = n - 1 /\ n - 1 \in Nat /\ Agree(x, t, d, n - 1)
  <2>1. y.step = x.step
    BY <1>1, <1>2, StoredRest DEF OnTrace
  <2> QED
    BY <1>0, <1>1, <1>2, <2>1 DEF OnTrace
<1>4. /\ Agree(y, t, d, n - 1)
      /\ \A i \in Batch : i <= d.num_reqs => y.accum[i][n - 1] = t[(n - 1) + 1].last[i]
  <2>1. y \in {AccumTail(x), HostTail(x, n - 1)}
    BY <1>2, <1>3 DEF Stored
  <2>2. n - 1 < n
    BY <1>0
  <2> QED
    BY <1>3, <2>1, <2>2, AgreeStored
<1>5. r.device = y /\ r.total = n
  OBVIOUS
<1> HIDE DEF r
<1>6. ASSUME NEW i \in 1 .. d.num_reqs, NEW j \in 1 .. n
      PROVE  BurstOutput(r)[i][j] = t[j].last[i]
  <2>1. i \in Batch /\ i <= d.num_reqs /\ y.num_reqs = d.num_reqs
    BY <1>0, <1>4 DEF Batch, Agree
  <2>2. BurstOutput(r)[i][j] = y.accum[i][j - 1]
    BY <1>5, <2>1 DEF BurstOutput
  <2>3. y.accum[i][j - 1] = t[(j - 1) + 1].last[i]
    <3>1. CASE j = n
      BY <1>4, <2>1, <3>1
    <3>2. CASE j # n
      <4>1. j - 1 \in 0 .. (n - 1) - 1
        BY <1>0, <3>2
      <4>2. \A l \in 0 .. (n - 1) - 1 : y.accum[i][l] = t[l + 1].last[i]
        BY <1>4, <2>1 DEF Agree
      <4> QED
        BY <4>1, <4>2
    <3> QED
      BY <3>1, <3>2
  <2>4. (j - 1) + 1 = j
    OBVIOUS
  <2> QED
    BY <2>2, <2>3, <2>4
<1>7. /\ IsDevice(y) /\ y.num_reqs = d.num_reqs /\ y.computed = d.computed
      /\ \A i \in Batch : i <= d.num_reqs =>
           SameRow(y, t[(n - 1) + 1], i, d.computed[i], n - 1)
      /\ \A i \in Batch : ~ (i <= d.num_reqs) =>
           y.seq_lens[i] = 0 /\ y.kv[i] = d.kv[i] /\ y.ssm[i] = d.ssm[i]
  BY <1>4 DEF Agree
<1>8. e = PostUpdate(y, BurstOutput(r), n, - (n - 1))
  BY <1>5 DEF Emitted
<1>9. /\ e.kv = y.kv /\ e.ssm = y.ssm /\ e.seq_lens = y.seq_lens
      /\ \A i \in Batch : i <= y.num_reqs =>
           /\ e.computed[i] = y.computed[i] + 1 - (- (n - 1))
           /\ e.last[i] = BurstOutput(r)[i][n]
  BY <1>7, <1>8, PostUpdateFields
<1> HIDE DEF e
<1>10. ASSUME NEW i \in Batch, i <= d.num_reqs
       PROVE  /\ e.computed[i] = t[n].computed[i] /\ e.last[i] = t[n].last[i]
              /\ e.kv[i] = t[n].kv[i] /\ e.ssm[i] = t[n].ssm[i]
  <2>1. (n - 1) + 1 = n
    BY <1>0
  <2>2. SameRow(y, t[n], i, d.computed[i], n - 1)
    BY <1>7, <1>10, <2>1
  <2>3. i \in 1 .. d.num_reqs /\ n \in 1 .. n
    BY <1>0, <1>10 DEF Batch
  <2>4. e.last[i] = t[n].last[i]
    BY <1>6, <1>7, <1>9, <1>10, <2>3
  <2>5. d.computed[i] \in Nat
    BY <1>10, FitsRow
  <2>6. e.computed[i] = d.computed[i] + 1 - (- (n - 1))
    BY <1>7, <1>9, <1>10
  <2>7. t[n].computed[i] = d.computed[i] + (n - 1) + 1
    BY <2>2 DEF SameRow
  <2>8. e.computed[i] = t[n].computed[i]
    BY <1>0, <2>5, <2>6, <2>7
  <2> QED
    BY <1>9, <2>2, <2>4, <2>8 DEF SameRow
<1> QED
  BY <1>6, <1>7, <1>9, <1>10 DEF e, r, y

------------------------------------------------------------------------------
(* The ladder of graphs.                                                   *)

\* A ladder has these, and is nested.
IsLadder(l) ==
  /\ DOMAIN l = {"mode", "n", "fold", "unroll", "sample1", "rust_steps", "graphs",
                 "pro_graphs", "unroll_graphs", "continue_graphs"}
  /\ Nested(l)

\* Demoting a rung takes everything that stands on it.
LEMMA DemoteKeeps ==
  ASSUME NEW l, IsLadder(l), NEW rung \in {"fold", "unroll"}
  PROVE  IsLadder(Demote(l, rung)) /\ (rung = "unroll" => Demote(l, rung).pro_graphs = l.pro_graphs)
         /\ (rung = "fold" => ~ Demote(l, rung).fold)
<1>1. CASE rung = "unroll"
  BY <1>1 DEF IsLadder, Nested, Demote
<1>2. CASE rung = "fold"
  BY <1>2 DEF IsLadder, Nested, Demote
<1> QED BY <1>1, <1>2

\* However the captures turn out, from whatever was asked for, a graph that is
\* launched within or after another is there only with it (nstep_decode.py:
\* _capture_burst_graphs, demote): the runner's continuation with the unrolled
\* burst it continues, the unrolled burst with its prologue, that with the body.
THEOREM LadderIsNested ==
  ASSUME NEW l, IsLadder(l), NEW size, NEW ok
  PROVE  /\ IsLadder(CaptureSize(l, size, ok))
         /\ IsLadder(CaptureDone(l))
<1> DEFINE body  == [l EXCEPT !.graphs = @ \cup {size}]
           pro   == CaptureFold(body, size, ok)
           whole == CaptureUnroll(pro, size, ok)
           last  == CaptureContinue(whole, size, ok)
<1>1. IsLadder(body) /\ size \in body.graphs
  BY DEF IsLadder, Nested
<1>2. IsLadder(pro) /\ (pro.fold => size \in pro.pro_graphs)
  <2> HIDE DEF body
  <2>1. CASE ~ body.fold
    BY <1>1, <2>1 DEF CaptureFold
  <2>2. CASE body.fold /\ "pro" \in ok
    BY <1>1, <2>2 DEF CaptureFold, IsLadder, Nested
  <2>3. CASE body.fold /\ "pro" \notin ok
    BY <1>1, <2>3, DemoteKeeps DEF CaptureFold
  <2> QED BY <2>1, <2>2, <2>3
<1>3. IsLadder(whole)
  <2> HIDE DEF body, pro
  <2>1. CASE ~ (pro.unroll /\ pro.fold /\ pro.n > 1)
    BY <1>2, <2>1 DEF CaptureUnroll
  <2>2. CASE pro.unroll /\ pro.fold /\ pro.n > 1 /\ "unroll" \in ok
    BY <1>2, <2>2 DEF CaptureUnroll, IsLadder, Nested
  <2>3. CASE pro.unroll /\ pro.fold /\ pro.n > 1 /\ "unroll" \notin ok
    BY <1>2, <2>3, DemoteKeeps DEF CaptureUnroll
  <2> QED BY <2>1, <2>2, <2>3
<1>4. IsLadder(last)
  <2> HIDE DEF body, pro, whole
  <2> QED BY <1>3 DEF CaptureContinue, IsLadder, Nested
<1>5. IsLadder(CaptureSize(l, size, ok))
  <2>1. CASE "body" \notin ok
    BY <2>1 DEF CaptureSize
  <2>2. CASE "body" \in ok
    <3>1. CaptureSize(l, size, ok) = last
      BY <2>2 DEF CaptureSize
    <3> HIDE DEF last
    <3> QED BY <1>4, <3>1
  <2> QED BY <2>1, <2>2
<1>6. IsLadder(CaptureDone(l))
  <2> DEFINE m == Demote(l, "fold")
  <2>1. IsLadder(m)
    BY DemoteKeeps
  <2> HIDE DEF m
  <2>2. IsLadder([m EXCEPT !.mode = "eager"])
    BY <2>1 DEF IsLadder, Nested
  <2> USE DEF m
  <2> QED BY <2>2 DEF CaptureDone
<1> QED BY <1>5, <1>6

------------------------------------------------------------------------------
(* The launches of one step.                                               *)

\* The quotient is the most that fits.
LEMMA QuotientFits ==
  ASSUME NEW x \in Nat, NEW n \in Nat \ {0}, n <= x, NEW k \in Nat, k <= x \div n
  PROVE  n * k <= x /\ 1 <= x \div n
<1>1. x \div n \in Nat /\ n * (x \div n) <= x /\ x < n * (x \div n) + n
  BY SMT
<1>2. n * k <= n * (x \div n)
  BY <1>1
<1>3. CASE x \div n = 0
  BY <1>1, <1>3
<1> QED
  BY <1>1, <1>2, <1>3

\* A step of several bursts (rust_sched.py: burst_steps) stays in the block the
\* first one starts in and under the request's limit, so it passes the gate the
\* single burst passed.
THEOREM LaunchesPassTheGate ==
  ASSUME BurstConstants, NEW c \in Nat, NEW n \in Nat \ {0}, NEW lim \in Int, NEW ceiling \in Nat,
         (c % BlockSize) + n <= BlockSize, c + n <= lim
  PROVE  LET k == BurstSteps(c, n, lim, ceiling)
         IN  k >= 1 /\ (c % BlockSize) + n * k <= BlockSize /\ c + n * k <= lim
<1> DEFINE r == c % BlockSize
           k == BurstSteps(c, n, lim, ceiling)
           a == (BlockSize - r) \div n
           b == (lim - c) \div n
<1>1. r \in Nat /\ BlockSize - r \in Nat /\ n <= BlockSize - r /\ lim - c \in Nat /\ n <= lim - c
  BY DEF BurstConstants
<1>2. CASE ceiling < 2 \/ lim < 0
  BY <1>1, <1>2 DEF BurstSteps, BurstConstants
<1>3. CASE ~ (ceiling < 2 \/ lim < 0)
  <2>1. k = LET fit == Least(ceiling, Least(a, b)) IN IF fit < 1 THEN 1 ELSE fit
    BY <1>3 DEF BurstSteps
  <2>2. a \in Nat /\ b \in Nat /\ 1 <= a /\ 1 <= b
    <3>1. 0 \in Nat /\ 0 <= a /\ 0 <= b /\ a \in Int /\ b \in Int
      BY <1>1
    <3> HIDE DEF r
    <3> QED
      BY <1>1, <3>1, QuotientFits
  <2> HIDE DEF a, b, k
  <2>3. k \in Nat /\ k >= 1 /\ k <= a /\ k <= b
    BY <1>3, <2>1, <2>2 DEF Least
  <2> HIDE DEF r
  <2>4. n * k <= BlockSize - r
    BY <1>1, <2>3, QuotientFits DEF a
  <2>5. n * k <= lim - c
    BY <1>1, <2>3, QuotientFits DEF b
  <2>6. n * k \in Nat
    BY <2>3
  <2> QED
    BY <1>1, <2>3, <2>4, <2>5, <2>6 DEF k, r, BurstConstants
<1> QED
  BY <1>2, <1>3

------------------------------------------------------------------------------
(* The fast path.                                                            *)

\* What Updated writes, and what it leaves alone.
LEMMA UpdatedFields ==
  ASSUME NEW s, NEW so, IsWorker(s), Legal(s, so)
  PROVE  LET u == Updated(s, so)
         IN  /\ DOMAIN u = DOMAIN s
             /\ u.row = RowsAfter(s, so)
             /\ u.key = s.key /\ u.rows = s.rows /\ u.tables = s.tables /\ u.width = s.width
  BY DEF Updated, IsWorker

\* A table is written for a scheduled request only, and is again a sequence.
LEMMA UpdatedTable ==
  ASSUME NEW s, NEW so, IsWorker(s), Legal(s, so)
  PROVE  LET u == Updated(s, so)
         IN  /\ u.table \in [Rows -> Seq(Blocks)]
             /\ u.row \in [Req -> Rows \cup {NoRow}]
             /\ so.arrived = {} /\ ~ HasNewBlocks(so) => u.table = s.table
<1> DEFINE row     == RowsAfter(s, so)
           of(w)   == CHOOSE r \in Scheduled(so) : row[r] = w
           idle(w) == \A r \in Scheduled(so) : row[r] # w
           at(w)   == IF idle(w) THEN s.table[w]
                      ELSE IF of(w) \in so.arrived THEN so.new[of(w)]
                      ELSE s.table[w] \o so.new[of(w)]
<1>1. Updated(s, so).table = [w \in Rows |-> at(w)]
  BY DEF Updated, IsWorker
<1>2. ASSUME NEW w \in Rows, ~ idle(w)
      PROVE  of(w) \in Scheduled(so) /\ of(w) \in Req
  <2>1. \E r \in Scheduled(so) : row[r] = w
    BY <1>2
  <2> QED BY <2>1 DEF Legal
<1>3. ASSUME NEW w \in Rows
      PROVE  at(w) \in Seq(Blocks)
  <2>1. s.table[w] \in Seq(Blocks)
    BY DEF IsWorker
  <2>2. CASE idle(w)
    BY <2>1, <2>2
  <2>3. CASE ~ idle(w)
    <3>1. so.new[of(w)] \in Seq(Blocks)
      BY <1>2, <2>3 DEF Legal
    <3>2. s.table[w] \o so.new[of(w)] \in Seq(Blocks)
      BY <2>1, <3>1
    <3> HIDE DEF of
    <3> QED BY <2>3, <3>1, <3>2
  <2> QED BY <2>2, <2>3
<1>4. Updated(s, so).row \in [Req -> Rows \cup {NoRow}]
  <2>1. Updated(s, so).row = RowsAfter(s, so)
    BY UpdatedFields
  <2>2. ASSUME NEW r \in so.arrived
        PROVE  so.at[r] \in Rows
    BY DEF Legal
  <2> QED BY <2>1, <2>2 DEF RowsAfter, IsWorker
<1>5. ASSUME so.arrived = {}, ~ HasNewBlocks(so), NEW w \in Rows
      PROVE  at(w) = s.table[w]
  <2>1. CASE idle(w)
    BY <2>1
  <2>2. CASE ~ idle(w)
    <3>1. so.new[of(w)] = << >>
      BY <1>2, <1>5, <2>2 DEF HasNewBlocks
    <3>2. s.table[w] \in Seq(Blocks)
      BY DEF IsWorker
    <3>3. s.table[w] \o << >> = s.table[w]
      BY <3>2
    <3> HIDE DEF of
    <3> QED BY <2>2, <3>1, <3>3, <1>5
  <2> QED BY <2>1, <2>2
<1>6. s.table = [w \in Rows |-> s.table[w]]
  BY DEF IsWorker
<1> HIDE DEF at
<1> QED BY <1>1, <1>3, <1>4, <1>5, <1>6

\* Before the seams, the cache is as fresh as it was, if the batch is the cached
\* one or empty and no table was written.
LEMMA FreshKept ==
  ASSUME NEW s, NEW so, IsWorker(s), Legal(s, so), Fresh(s),
         so.arrived = {}, ~ HasNewBlocks(so)
  PROVE  Fresh(Updated(s, so))
<1> DEFINE u == Updated(s, so)
<1>1. u.key = s.key /\ u.rows = s.rows /\ u.tables = s.tables /\ u.row = RowsAfter(s, so)
  BY UpdatedFields
<1>2. u.table = s.table
  BY UpdatedTable
<1>3. \A r \in Req : u.row[r] # NoRow => u.row[r] = s.row[r]
  BY <1>1 DEF RowsAfter
<1>4. ASSUME s.key # NoKey, NEW i \in DOMAIN s.key, u.row[s.key[i]] # NoRow
      PROVE  s.rows[i] = u.row[s.key[i]] /\ s.tables[i] = u.table[s.rows[i]]
  <2>1. s.key[i] \in Req
    BY <1>4 DEF Fresh
  <2>2. s.row[s.key[i]] = u.row[s.key[i]]
    BY <1>3, <1>4, <2>1
  <2> QED BY <2>2, <1>2, <1>4 DEF Fresh
<1> QED BY <1>1, <1>4 DEF Fresh

\* A batch built by stock is fresh.
LEMMA RecachedIsFresh ==
  ASSUME NEW u, NEW so, IsWorker(u), Scheduled(so) \subseteq Req,
         \A r \in Scheduled(so) : u.row[r] \in Rows
  PROVE  LET v == Recached(u, so)
         IN  Fresh(v) /\ IsWorker(v)
<1> DEFINE v  == Recached(u, so)
<1>1. /\ v.row = u.row /\ v.table = u.table /\ IsWorker(v)
      /\ v.key # NoKey => v.key = so.order
  BY DEF Recached, IsWorker, DecodeKey
<1>2. v.rows = RowsOf(u, so.order) /\ v.tables = Gathered(u, v.rows)
  BY DEF Recached, IsWorker, StockInputs, Inputs
<1>3. ASSUME NEW i \in DOMAIN so.order
      PROVE  so.order[i] \in Req /\ u.row[so.order[i]] \in Rows
  BY DEF Scheduled
<1>4. v.rows = [i \in DOMAIN so.order |-> u.row[so.order[i]]]
  BY <1>2 DEF RowsOf
<1>5. v.tables = [i \in DOMAIN so.order |-> u.table[v.rows[i]]]
  BY <1>2, <1>4 DEF Gathered
<1>6. v.rows \in [DOMAIN so.order -> Rows]
  BY <1>3, <1>4
<1>7. \A i \in DOMAIN so.order : u.table[v.rows[i]] \in Seq(Blocks)
  BY <1>6 DEF IsWorker
<1>8. v.tables \in [DOMAIN so.order -> Seq(Blocks)]
  BY <1>5, <1>7
<1> HIDE DEF v
<1>9. Fresh(v)
  <2> SUFFICES ASSUME v.key # NoKey
               PROVE  Fresh(v)
    BY DEF Fresh
  <2>1. v.key = so.order
    BY <1>1
  <2>2. ASSUME NEW i \in DOMAIN v.key
        PROVE  v.rows[i] = v.row[v.key[i]] /\ v.tables[i] = v.table[v.rows[i]]
    <3>1. i \in DOMAIN so.order /\ v.key[i] = so.order[i]
      BY <2>1
    <3>2. v.rows[i] = u.row[so.order[i]] /\ v.tables[i] = u.table[v.rows[i]]
      BY <1>4, <1>5, <3>1, Zenon
    <3> QED BY <1>1, <3>1, <3>2, Zenon
  <2>3. v.rows \in [DOMAIN v.key -> Rows] /\ v.tables \in [DOMAIN v.key -> Seq(Blocks)]
    BY <1>6, <1>8, <2>1, Zenon
  <2>4. \A i \in DOMAIN v.key : v.key[i] \in Req
    BY <1>3, <2>1
  <2> QED BY <2>2, <2>3, <2>4, Zenon DEF Fresh
<1> USE DEF v
<1> QED BY <1>1, <1>9

\* Advancing the counts leaves rows, tables and cache alone.
LEMMA AdvancedKeeps ==
  ASSUME NEW u, NEW so, IsWorker(u), Fresh(u)
  PROVE  IsWorker(Advanced(u, so)) /\ Fresh(Advanced(u, so))
BY DEF Advanced, IsWorker, Fresh

\* An eligible step is one of the cached requests, which all have their rows; the
\* cached rows are theirs.
LEMMA EligibleBatch ==
  ASSUME NEW s, NEW so, IsWorker(s), Legal(s, so), Fresh(s),
         Eligible(Updated(s, so), so)
  PROVE  LET u == Updated(s, so)
         IN  /\ so.arrived = {} /\ so.order = s.key /\ so.width = s.width
             /\ s.key # NoKey /\ u.row = s.row
             /\ s.rows = RowsOf(u, so.order)
             /\ s.tables = Gathered(s, s.rows)
<1> DEFINE u == Updated(s, so)
<1>1. /\ u.key = s.key /\ u.width = s.width /\ u.row = RowsAfter(s, so)
  BY UpdatedFields
<1>2. s.key # NoKey /\ so.width = s.width /\ DecodeKey(so) = s.key
  BY <1>1 DEF Eligible
<1>3. so.order = s.key /\ so.arrived = {} /\ so.finished \cup so.preempted = {}
  BY <1>2 DEF DecodeKey
<1>4. RowsAfter(s, so) = s.row
  BY <1>3 DEF RowsAfter, IsWorker
<1>5. \A i \in DOMAIN s.key : s.key[i] \in Req /\ s.row[s.key[i]] \in Rows
  BY <1>3, <1>4 DEF Legal, Scheduled
<1>6. \A i \in DOMAIN s.key : s.row[s.key[i]] # NoRow
  BY <1>5 DEF IsWorker
<1>7. \A i \in DOMAIN s.key : s.rows[i] = s.row[s.key[i]] /\ s.tables[i] = s.table[s.rows[i]]
  BY <1>2, <1>6 DEF Fresh
<1>8. s.rows \in [DOMAIN s.key -> Rows] /\ s.tables \in [DOMAIN s.key -> Seq(Blocks)]
  BY <1>2 DEF Fresh
<1>9. s.rows = [i \in DOMAIN s.key |-> s.row[s.key[i]]]
  BY <1>7, <1>8
<1>10. s.tables = [i \in DOMAIN s.rows |-> s.table[s.rows[i]]]
  BY <1>7, <1>8
<1> HIDE DEF u
<1>11. s.rows = RowsOf(u, so.order)
  BY <1>1, <1>3, <1>4, <1>9 DEF RowsOf
<1> USE DEF u
<1> QED BY <1>1, <1>2, <1>3, <1>4, <1>10, <1>11 DEF Gathered

------------------------------------------------------------------------------
\* _fast_inputs, _fast_attn: what the graph of a fast step reads, the tables in the
\* cache included, is what stock would have built for the step.
THEOREM FastInputsAreStock ==
  ASSUME NEW s, NEW so, IsWorker(s), Legal(s, so), Fresh(s),
         Eligible(Updated(s, so), so)
  PROVE  LET u == Updated(s, so)
         IN  FastInputs(u, so) = StockInputs(u, so)
<1> DEFINE u == Updated(s, so)
<1>1. /\ so.arrived = {} /\ so.order = s.key /\ so.width = s.width
      /\ s.rows = RowsOf(u, so.order) /\ s.tables = Gathered(s, s.rows)
  BY EligibleBatch
<1>2. u.key = s.key /\ u.rows = s.rows /\ u.tables = s.tables /\ u.width = s.width
  BY UpdatedFields
<1>3. FastTables(u, so) = Gathered(u, s.rows)
  <2>1. CASE HasNewBlocks(so)
    BY <1>2, <2>1 DEF FastTables
  <2>2. CASE ~ HasNewBlocks(so)
    <3>1. u.table = s.table
      BY <1>1, <2>2, UpdatedTable
    <3> QED BY <1>1, <1>2, <2>2, <3>1 DEF FastTables, Gathered
  <2> QED BY <2>1, <2>2
<1> HIDE DEF u
<1> USE DEF FastInputs, StockInputs
<1>4. FastInputs(u, so) = StockInputs(u, so)
  BY <1>1, <1>2, <1>3
<1> USE DEF u
<1> QED BY <1>4

\* Whichever seams a step takes, and whichever of them raises, it reads what stock
\* would have built, and leaves a cache the next step can say the same of.
THEOREM StepReadsStockInputs ==
  ASSUME NEW s, NEW so, NEW raises, IsWorker(s), Legal(s, so), Fresh(s)
  PROVE  LET step == Step(s, so, raises)
         IN  /\ step.inputs = StockInputs(Updated(s, so), so)
             /\ IsWorker(step.state) /\ Fresh(step.state)
<1> DEFINE u    == Updated(s, so)
           step == Step(s, so, raises)
           fast == Eligible(u, so) /\ raises # "inputs"
           kept == [u EXCEPT !.tables = FastTables(u, so)]
           left == IF ~ fast THEN Recached(u, so)
                   ELSE IF raises = "attn" THEN Reset(u) ELSE kept
<1>1. IsWorker(u)
  BY UpdatedFields, UpdatedTable DEF IsWorker
<1>2. /\ u.row = RowsAfter(s, so)
      /\ \A r \in Scheduled(so) : u.row[r] \in Rows
  BY UpdatedFields DEF Legal
<1>3. fast => FastInputs(u, so) = StockInputs(u, so)
  BY FastInputsAreStock
<1>4. CASE so.order = << >>
  <2>1. so.arrived = {} /\ ~ HasNewBlocks(so)
    BY <1>4 DEF Legal, Scheduled, HasNewBlocks
  <2>2. Fresh(u)
    BY <2>1, FreshKept
  <2>3. step = [path |-> "none", inputs |-> StockInputs(u, so), state |-> u]
    BY <1>4 DEF Step
  <2> HIDE DEF u, step
  <2>4. step.inputs = StockInputs(u, so) /\ step.state = u
    BY <2>3
  <2> USE DEF u, step
  <2> QED BY <1>1, <2>2, <2>4
<1>5. CASE so.order # << >>
  <2>1. step = [path   |-> IF fast THEN "fast" ELSE "stock",
                inputs |-> IF fast THEN FastInputs(u, so) ELSE StockInputs(u, so),
                state  |-> Advanced(left, so)]
    BY <1>5 DEF Step
  <2>2. IsWorker(left) /\ Fresh(left)
    <3>1. CASE ~ fast
      <4>1. left = Recached(u, so)
        BY <3>1
      <4> QED BY <1>1, <1>2, <4>1, RecachedIsFresh DEF Legal
    <3>2. CASE fast /\ raises = "attn"
      <4>1. left = Reset(u)
        BY <3>2
      <4> QED BY <1>1, <4>1 DEF Reset, IsWorker, Fresh
    <3>3. CASE fast /\ raises # "attn"
      <4>1. left = kept
        BY <3>3
      <4>2. IsWorker(kept) /\ kept.row = u.row /\ kept.table = u.table
            /\ kept.key = u.key /\ kept.rows = u.rows /\ kept.tables = FastTables(u, so)
        BY <1>1 DEF IsWorker
      <4>3. u.key = s.key /\ u.rows = s.rows /\ u.tables = s.tables /\ u.row = s.row
            /\ s.key # NoKey /\ so.arrived = {} /\ s.tables = Gathered(s, s.rows)
        BY <3>3, UpdatedFields, EligibleBatch
      <4>4. s.rows \in [DOMAIN s.key -> Rows] /\ \A i \in DOMAIN s.key : s.key[i] \in Req
        BY <4>3 DEF Fresh
      <4>5. FastTables(u, so) = [i \in DOMAIN s.key |-> u.table[s.rows[i]]]
        <5>1. CASE HasNewBlocks(so)
          BY <4>3, <4>4, <5>1 DEF FastTables, Gathered
        <5>2. CASE ~ HasNewBlocks(so)
          <6>1. u.table = s.table
            BY <4>3, <5>2, UpdatedTable
          <6> QED BY <4>3, <4>4, <5>2, <6>1 DEF FastTables, Gathered
        <5> QED BY <5>1, <5>2
      <4>6. \A i \in DOMAIN s.key : u.table[s.rows[i]] \in Seq(Blocks)
        BY <1>1, <4>4 DEF IsWorker
      <4>7. \A i \in DOMAIN s.key : s.row[s.key[i]] # NoRow => s.rows[i] = s.row[s.key[i]]
        BY <4>3 DEF Fresh
      <4> HIDE DEF u, kept
      <4>8. Fresh(kept)
        BY <4>2, <4>3, <4>4, <4>5, <4>6, <4>7 DEF Fresh
      <4> USE DEF u, kept
      <4> QED BY <4>1, <4>2, <4>8
    <3> QED BY <3>1, <3>2, <3>3
  <2> HIDE DEF u, step, left, fast
  <2>3. step.inputs = StockInputs(u, so)
    BY <1>3, <2>1
  <2>4. step.state = Advanced(left, so)
    BY <2>1
  <2>5. IsWorker(step.state) /\ Fresh(step.state)
    BY <2>2, <2>4, AdvancedKeeps
  <2> USE DEF u, step
  <2> QED BY <2>3, <2>5
<1> QED BY <1>4, <1>5

------------------------------------------------------------------------------
(* The decision.                                                             *)

\* A sequence of a tokens, one of b, and the two together.
Adjacent(a, b, first, rest, whole) ==
  /\ a \in Nat /\ b \in Nat
  /\ first \in Seq(Int) /\ Len(first) = a
  /\ rest \in Seq(Int) /\ Len(rest) = b
  /\ whole \in Seq(Int) /\ Len(whole) = a + b
  /\ \A i \in 1 .. a : first[i] = whole[i]
  /\ \A i \in 1 .. b : rest[i] = whole[a + i]

\* The parts SubSeq cuts are such.
LEMMA Parts ==
  ASSUME NEW s \in Seq(Int), NEW a \in Nat, NEW b \in Nat, a + b <= Len(s)
  PROVE  Adjacent(a, b, SubSeq(s, 1, a), SubSeq(s, a + 1, a + b), SubSeq(s, 1, a + b))
<1>0. \A i \in 1 .. a + b : s[i] \in Int
  OBVIOUS
<1>1. /\ SubSeq(s, 1, a) \in Seq(Int)
      /\ Len(SubSeq(s, 1, a)) = IF 1 <= a THEN a - 1 + 1 ELSE 0
      /\ \A i \in 1 .. a - 1 + 1 : SubSeq(s, 1, a)[i] = s[1 + i - 1]
  BY SubSeqProperties
<1>2. /\ SubSeq(s, a + 1, a + b) \in Seq(Int)
      /\ Len(SubSeq(s, a + 1, a + b)) = IF a + 1 <= a + b THEN a + b - (a + 1) + 1 ELSE 0
      /\ \A i \in 1 .. a + b - (a + 1) + 1 : SubSeq(s, a + 1, a + b)[i] = s[a + 1 + i - 1]
  <2> DEFINE m == a + 1
             n == a + b
  <2>1. m \in Int /\ n \in Int /\ \A i \in m .. n : s[i] \in Int
    BY <1>0
  <2> HIDE DEF m, n
  <2>2. /\ SubSeq(s, m, n) \in Seq(Int)
        /\ Len(SubSeq(s, m, n)) = IF m <= n THEN n - m + 1 ELSE 0
        /\ \A i \in 1 .. n - m + 1 : SubSeq(s, m, n)[i] = s[m + i - 1]
    BY <2>1, SubSeqProperties
  <2> QED BY <2>2 DEF m, n
<1>3. /\ SubSeq(s, 1, a + b) \in Seq(Int)
      /\ Len(SubSeq(s, 1, a + b)) = IF 1 <= a + b THEN a + b - 1 + 1 ELSE 0
      /\ \A i \in 1 .. a + b - 1 + 1 : SubSeq(s, 1, a + b)[i] = s[1 + i - 1]
  BY SubSeqProperties
<1>4. /\ Len(SubSeq(s, 1, a)) = a
      /\ Len(SubSeq(s, a + 1, a + b)) = b
      /\ Len(SubSeq(s, 1, a + b)) = a + b
  BY <1>1, <1>2, <1>3
<1>5. ASSUME NEW i \in 1 .. a
      PROVE  SubSeq(s, 1, a)[i] = SubSeq(s, 1, a + b)[i]
  <2>1. i \in 1 .. a - 1 + 1 /\ i \in 1 .. a + b - 1 + 1
    OBVIOUS
  <2> QED
    BY <2>1, <1>1, <1>3
<1>6. ASSUME NEW i \in 1 .. b
      PROVE  SubSeq(s, a + 1, a + b)[i] = SubSeq(s, 1, a + b)[a + i]
  <2>1. i \in 1 .. a + b - (a + 1) + 1 /\ a + i \in 1 .. a + b - 1 + 1
    OBVIOUS
  <2>2. a + 1 + i - 1 = a + i /\ 1 + (a + i) - 1 = a + i
    OBVIOUS
  <2>3. SubSeq(s, a + 1, a + b)[i] = s[a + i]
    BY <2>1, <2>2, <1>2
  <2>4. SubSeq(s, 1, a + b)[a + i] = s[a + i]
    BY <2>1, <2>2, <1>3
  <2> QED
    BY <2>3, <2>4
<1> QED
  BY <1>1, <1>2, <1>3, <1>4, <1>5, <1>6 DEF Adjacent

\* The least of a set of naturals.
LeastOf(at) == CHOOSE j \in at : \A h \in at : j <= h

\* It is in the set and below it, and no other element is.
LEMMA LeastOfIsLeast ==
  ASSUME NEW at, at \subseteq Nat, at # {}
  PROVE  /\ LeastOf(at) \in at
         /\ \A h \in at : LeastOf(at) <= h
         /\ \A j \in at : (\A h \in at : j <= h) => j = LeastOf(at)
<1>1. \E j \in at : \A h \in at : j <= h
  BY LeastNatural
<1>2. LeastOf(at) \in at /\ \A h \in at : LeastOf(at) <= h
  BY <1>1 DEF LeastOf
<1>3. ASSUME NEW j \in at, \A h \in at : j <= h
      PROVE  j = LeastOf(at)
  <2>1. j <= LeastOf(at) /\ LeastOf(at) <= j /\ j \in Nat /\ LeastOf(at) \in Nat
    BY <1>2, <1>3
  <2> QED
    BY <2>1
<1> QED
  BY <1>2, <1>3

\* A stopped request's status and reason do not depend on the count, and the
\* status is never that it goes on.
LEMMA StopIsAStop ==
  ASSUME NEW p, NEW token
  PROVE  \E status, reason :
           /\ status \in {"stopped", "length"}
           /\ \A k : CheckStop(p, token, k) = Verdict(k, status, reason)
<1>1. CASE token = p.eos
  <2>1. \A k : CheckStop(p, token, k) = Verdict(k, "stopped", NoReason)
    BY <1>1 DEF CheckStop
  <2> QED BY <2>1
<1>2. CASE token # p.eos /\ token \in p.stops
  <2>1. \A k : CheckStop(p, token, k) = Verdict(k, "stopped", token)
    BY <1>2 DEF CheckStop
  <2> QED BY <2>1
<1>3. CASE token # p.eos /\ token \notin p.stops
  <2>1. \A k : CheckStop(p, token, k) = Verdict(k, "length", NoReason)
    BY <1>3 DEF CheckStop
  <2> QED BY <2>1
<1> QED
  BY <1>1, <1>2, <1>3

\* A verdict counted from the start of the step.
Shifted(verdict, a) == [verdict EXCEPT !.accepted = a + @]

\* Only the count of it changes.
LEMMA ShiftedVerdict ==
  ASSUME NEW k, NEW a, NEW status, NEW reason
  PROVE  Shifted(Verdict(k, status, reason), a) = Verdict(a + k, status, reason)
  BY DEF Verdict, Shifted

\* The decision for two parts, from those for each: the first if it is a stop,
\* and if it is not the second, counted from the start.
Joined(first, rest, a) == IF first.status = "running" THEN Shifted(rest, a) ELSE first

\* A decision is a verdict.
LEMMA IsAVerdict ==
  ASSUME NEW p, NEW tokens, NEW had, NEW len, NEW max
  PROVE  \E k, status, reason :
           ApplyTokens(p, tokens, had, len, max) = Verdict(k, status, reason)
<1> DEFINE at    == Endings(p, tokens, had, len, max)
           token == tokens[LeastOf(at)]
<1>1. ApplyTokens(p, tokens, had, len, max) =
        IF at = {} THEN Verdict(Len(tokens), "running", NoReason)
                   ELSE CheckStop(p, token, LeastOf(at))
  BY DEF ApplyTokens, LeastOf
<1> HIDE DEF at, token
<1>2. PICK status, reason : \A k : CheckStop(p, token, k) = Verdict(k, status, reason)
  BY StopIsAStop
<1> QED
  BY <1>1, <1>2

\* What is decided for the whole is what is decided for its parts, joined.
LEMMA DecisionSplits ==
  ASSUME NEW p, NEW a, NEW b, NEW first, NEW rest, NEW whole,
         Adjacent(a, b, first, rest, whole),
         NEW had \in Nat, NEW len \in Nat, NEW max
  PROVE  ApplyTokens(p, whole, had, len, max) =
           Joined(ApplyTokens(p, first, had, len, max),
                  ApplyTokens(p, rest, had + a, len + a, max), a)
<1> DEFINE atFirst == Endings(p, first, had, len, max)
           atRest  == Endings(p, rest, had + a, len + a, max)
           atWhole == Endings(p, whole, had, len, max)
           First == ApplyTokens(p, first, had, len, max)
           Rest  == ApplyTokens(p, rest, had + a, len + a, max)
           Uncut == ApplyTokens(p, whole, had, len, max)
<1>0. /\ a \in Nat /\ b \in Nat
      /\ first \in Seq(Int) /\ Len(first) = a
      /\ rest \in Seq(Int) /\ Len(rest) = b
      /\ whole \in Seq(Int) /\ Len(whole) = a + b
      /\ \A i \in 1 .. a : first[i] = whole[i]
      /\ \A i \in 1 .. b : rest[i] = whole[a + i]
  BY DEF Adjacent
<1>1. /\ atFirst \subseteq 1 .. a /\ atRest \subseteq 1 .. b /\ atWhole \subseteq 1 .. a + b
      /\ \A i \in 1 .. a : i \in atFirst <=> i \in atWhole
      /\ \A i \in 1 .. b : i \in atRest <=> a + i \in atWhole
  <2>1. DOMAIN first = 1 .. a /\ DOMAIN rest = 1 .. b /\ DOMAIN whole = 1 .. a + b
    BY <1>0
  <2>2. ASSUME NEW i \in 1 .. a
        PROVE  i \in atFirst <=> i \in atWhole
    <3>1. i \in 1 .. a + b /\ first[i] = whole[i]
      BY <1>0
    <3> QED
      BY <2>1, <3>1 DEF Endings
  <2>3. ASSUME NEW i \in 1 .. b
        PROVE  i \in atRest <=> a + i \in atWhole
    <3>1. a + i \in 1 .. a + b /\ rest[i] = whole[a + i]
      BY <1>0
    <3>2. had + a + i = had + (a + i) /\ len + a + i = len + (a + i)
      BY <1>0
    <3> QED
      BY <2>1, <3>1, <3>2 DEF Endings
  <2> QED
    BY <2>1, <2>2, <2>3 DEF Endings
<1>2. /\ First = IF atFirst = {} THEN Verdict(a, "running", NoReason)
                 ELSE CheckStop(p, first[LeastOf(atFirst)], LeastOf(atFirst))
      /\ Rest = IF atRest = {} THEN Verdict(b, "running", NoReason)
                ELSE CheckStop(p, rest[LeastOf(atRest)], LeastOf(atRest))
      /\ Uncut = IF atWhole = {} THEN Verdict(a + b, "running", NoReason)
                 ELSE CheckStop(p, whole[LeastOf(atWhole)], LeastOf(atWhole))
  <2>1. First = IF atFirst = {} THEN Verdict(Len(first), "running", NoReason)
                ELSE CheckStop(p, first[LeastOf(atFirst)], LeastOf(atFirst))
    BY DEF ApplyTokens, LeastOf
  <2>2. Rest = IF atRest = {} THEN Verdict(Len(rest), "running", NoReason)
                ELSE CheckStop(p, rest[LeastOf(atRest)], LeastOf(atRest))
    BY DEF ApplyTokens, LeastOf
  <2>3. Uncut = IF atWhole = {} THEN Verdict(Len(whole), "running", NoReason)
                ELSE CheckStop(p, whole[LeastOf(atWhole)], LeastOf(atWhole))
    BY DEF ApplyTokens, LeastOf
  <2> HIDE DEF First, Rest, Uncut, atFirst, atRest, atWhole
  <2> QED
    BY <1>0, <2>1, <2>2, <2>3, Zenon
<1> HIDE DEF atFirst, atRest, atWhole
<1>3. CASE atFirst # {}
  <2>1. LeastOf(atFirst) \in atFirst /\ \A h \in atFirst : LeastOf(atFirst) <= h
    BY <1>1, <1>3, LeastOfIsLeast, 1 .. a \subseteq Nat
  <2>2. LeastOf(atFirst) \in atWhole /\ LeastOf(atFirst) \in 1 .. a
    BY <1>1, <2>1
  <2>3. ASSUME NEW h \in atWhole
        PROVE  LeastOf(atFirst) <= h
    <3>1. CASE h \in 1 .. a
      BY <1>1, <2>1, <3>1
    <3>2. CASE h \notin 1 .. a
      BY <1>0, <1>1, <2>2, <3>2
    <3> QED BY <3>1, <3>2
  <2>4. LeastOf(atWhole) = LeastOf(atFirst)
    BY <1>1, <2>2, <2>3, LeastOfIsLeast, 1 .. a + b \subseteq Nat
  <2>5. First.status # "running"
    <3>1. PICK status, reason :
            /\ status \in {"stopped", "length"}
            /\ \A k : CheckStop(p, first[LeastOf(atFirst)], k) = Verdict(k, status, reason)
      BY StopIsAStop
    <3> HIDE DEF First
    <3>2. First = Verdict(LeastOf(atFirst), status, reason)
      BY <1>2, <1>3, <3>1
    <3> QED
      BY <3>1, <3>2 DEF Verdict
  <2>6. Uncut = First
    BY <1>0, <1>2, <1>3, <2>2, <2>4
  <2> QED
    BY <2>5, <2>6 DEF Joined
<1>4. CASE atFirst = {} /\ atRest # {}
  <2>1. First.status = "running"
    BY <1>2, <1>4 DEF Verdict
  <2>2. LeastOf(atRest) \in atRest /\ \A h \in atRest : LeastOf(atRest) <= h
    BY <1>1, <1>4, LeastOfIsLeast, 1 .. b \subseteq Nat
  <2>3. LeastOf(atRest) \in 1 .. b /\ a + LeastOf(atRest) \in atWhole
    BY <1>1, <2>2
  <2>4. ASSUME NEW h \in atWhole
        PROVE  a + LeastOf(atRest) <= h
    <3>1. h \in 1 .. a + b /\ h \notin 1 .. a
      BY <1>1, <1>4
    <3>2. h - a \in 1 .. b /\ a + (h - a) = h
      BY <1>0, <3>1
    <3>3. h - a \in atRest
      BY <1>1, <3>2
    <3> QED BY <1>0, <2>2, <2>3, <3>1, <3>2, <3>3
  <2>5. LeastOf(atWhole) = a + LeastOf(atRest)
    BY <1>1, <2>3, <2>4, LeastOfIsLeast, 1 .. a + b \subseteq Nat
  <2>6. rest[LeastOf(atRest)] = whole[a + LeastOf(atRest)]
    BY <1>0, <2>3
  <2>7. /\ Rest = CheckStop(p, rest[LeastOf(atRest)], LeastOf(atRest))
        /\ Uncut = CheckStop(p, rest[LeastOf(atRest)], a + LeastOf(atRest))
    BY <1>2, <1>4, <2>3, <2>5, <2>6
  <2>8. PICK status, reason :
          /\ status \in {"stopped", "length"}
          /\ \A k : CheckStop(p, rest[LeastOf(atRest)], k) = Verdict(k, status, reason)
    BY StopIsAStop
  <2> HIDE DEF First, Rest, Uncut
  <2>9. /\ Rest = Verdict(LeastOf(atRest), status, reason)
        /\ Uncut = Verdict(a + LeastOf(atRest), status, reason)
    BY <2>7, <2>8
  <2>10. Uncut = Shifted(Rest, a)
    BY <2>9, ShiftedVerdict
  <2> QED
    BY <2>1, <2>10 DEF First, Rest, Uncut, Joined
<1>5. CASE atFirst = {} /\ atRest = {}
  <2>1. ASSUME NEW h \in atWhole
        PROVE  FALSE
    <3>1. h \in 1 .. a + b /\ h \notin 1 .. a
      BY <1>1, <1>5
    <3>2. h - a \in 1 .. b /\ a + (h - a) = h
      BY <1>0, <3>1
    <3> QED BY <1>1, <1>5, <3>2
  <2>2. Uncut = Verdict(a + b, "running", NoReason) /\ Rest = Verdict(b, "running", NoReason)
    BY <1>2, <1>5, <2>1
  <2>3. First.status = "running"
    BY <1>2, <1>5 DEF Verdict
  <2> HIDE DEF First, Rest, Uncut
  <2>4. Uncut = Shifted(Rest, a)
    BY <2>2, ShiftedVerdict
  <2> QED
    BY <2>3, <2>4 DEF First, Rest, Uncut, Joined
<1> QED
  BY <1>3, <1>4, <1>5

\* The totals Runner::commit starts from are a step of no launches.
THEOREM NothingIsNoLaunch ==
  ASSUME NEW rows, NEW width \in Nat, NEW offered, NEW conditions,
         NEW outputs, NEW lengths, NEW max
  PROVE  AsOneStep(NothingYet(rows), rows, 0, offered, width,
                   conditions, outputs, lengths, max)
<1>1. ASSUME NEW r \in rows
      PROVE  ApplyTokens(conditions[r], SubSeq(offered[r], 1, 0 * width),
                         outputs[r], lengths[r], max) = Verdict(0, "running", NoReason)
  <2>1. SubSeq(offered[r], 1, 0 * width) = << >>
    BY SubSeqEmpty
  <2>2. Endings(conditions[r], << >>, outputs[r], lengths[r], max) = {}
    BY DEF Endings
  <2> QED
    BY <2>1, <2>2 DEF ApplyTokens
<1>2. NothingYet(rows).out = [r \in rows |-> Verdict(0, "running", NoReason)]
  BY DEF NothingYet
<1>3. NothingYet(rows).live = {r \in rows : NothingYet(rows).out[r].status = "running"}
  BY DEF NothingYet, Verdict
<1> QED
  BY <1>1, <1>2, <1>3 DEF AsOneStep

\* One more launch committed on top of n decided as one step is n + 1 decided
\* as one step: the rows that stopped keep their verdict, the others go on
\* from the counters the launches before have reached (merge_step_verdicts).
THEOREM OneMoreLaunch ==
  ASSUME NEW rows, NEW n \in Nat, NEW width \in Nat, NEW offered, NEW conditions,
         NEW outputs, NEW lengths, NEW max,
         \A r \in rows : /\ offered[r] \in Seq(Int)
                         /\ (n + 1) * width <= Len(offered[r])
                         /\ outputs[r] \in Nat /\ lengths[r] \in Nat,
         NEW s,
         AsOneStep(s, rows, n, offered, width, conditions, outputs, lengths, max)
  PROVE  AsOneStep(CommitLaunch(s, n, offered, width, conditions, outputs, lengths, max),
                   rows, n + 1, offered, width, conditions, outputs, lengths, max)
<1> DEFINE m == n * width
           Done(r) == ApplyTokens(conditions[r], SubSeq(offered[r], 1, m),
                                  outputs[r], lengths[r], max)
           More(r) == ApplyTokens(conditions[r], SubSeq(offered[r], m + 1, m + width),
                                  outputs[r] + m, lengths[r] + m, max)
           Both(r) == ApplyTokens(conditions[r], SubSeq(offered[r], 1, m + width),
                                  outputs[r], lengths[r], max)
           next == CommitLaunch(s, n, offered, width, conditions, outputs, lengths, max)
<1>1. m \in Nat /\ (n + 1) * width = m + width
  OBVIOUS
<1>2. /\ s.out = [r \in rows |-> Done(r)]
      /\ s.live = {r \in rows : s.out[r].status = "running"}
  BY DEF AsOneStep
<1>3. /\ next.live = {r \in s.live : More(r).status = "running"}
      /\ next.out = [r \in rows |-> IF r \in s.live
                                    THEN Shifted(More(r), m)
                                    ELSE s.out[r]]
  BY <1>1, <1>2 DEF CommitLaunch, MergeStepVerdicts, LaunchTokens, Shifted
<1>4. ASSUME NEW r \in rows
      PROVE  Both(r) = IF Done(r).status = "running"
                       THEN Shifted(More(r), m) ELSE Done(r)
  <2>1. offered[r] \in Seq(Int) /\ m + width <= Len(offered[r])
        /\ outputs[r] \in Nat /\ lengths[r] \in Nat
    BY <1>1
  <2> DEFINE first == SubSeq(offered[r], 1, m)
             rest  == SubSeq(offered[r], m + 1, m + width)
             whole == SubSeq(offered[r], 1, m + width)
  <2> HIDE DEF m
  <2>2. Adjacent(m, width, first, rest, whole)
    BY <1>1, <2>1, Parts
  <2> DEFINE p   == conditions[r]
             had == outputs[r]
             len == lengths[r]
  <2>3. had \in Nat /\ len \in Nat
    BY <2>1
  <2> HIDE DEF first, rest, whole, p, had, len
  <2>4. ApplyTokens(p, whole, had, len, max) =
          Joined(ApplyTokens(p, first, had, len, max),
                 ApplyTokens(p, rest, had + m, len + m, max), m)
    BY <2>2, <2>3, DecisionSplits
  <2> QED
    BY <2>4 DEF first, rest, whole, p, had, len, Joined
<1>5. \A r \in rows : r \in s.live <=> Done(r).status = "running"
  BY <1>2
<1> HIDE DEF m, Done, More, Both, next
<1>6. next.out = [r \in rows |-> Both(r)]
  BY <1>2, <1>3, <1>4, <1>5
<1>7. ASSUME NEW r \in rows
      PROVE  Shifted(More(r), m).status = More(r).status
  <2>1. PICK k, status, reason : More(r) = Verdict(k, status, reason)
    BY IsAVerdict, SMTT(30) DEF More
  <2> QED
    BY <2>1 DEF Verdict, Shifted
<1>8. next.live = {r \in rows : next.out[r].status = "running"}
  BY <1>2, <1>3, <1>5, <1>7
<1> QED
  BY <1>1, <1>6, <1>8 DEF AsOneStep, Both, next

\* The commits of a runner step, one launch after the other, decide after each
\* launch what one step of all the tokens so far would have: Runner::commit.
THEOREM LaunchByLaunchIsOneStep ==
  ASSUME NEW rows, NEW launches \in Nat, NEW width \in Nat, NEW offered, NEW conditions,
         NEW outputs, NEW lengths, NEW max,
         \A r \in rows : /\ offered[r] \in Seq(Int)
                         /\ \A n \in 1 .. launches : n * width <= Len(offered[r])
                         /\ outputs[r] \in Nat /\ lengths[r] \in Nat,
         NEW after, after[0] = NothingYet(rows),
         \A n \in 0 .. launches - 1 :
            after[n + 1] = CommitLaunch(after[n], n, offered, width,
                                        conditions, outputs, lengths, max)
  PROVE  \A n \in 0 .. launches :
            AsOneStep(after[n], rows, n, offered, width, conditions, outputs, lengths, max)
<1> DEFINE Right(n) == AsOneStep(after[n], rows, n, offered, width,
                                 conditions, outputs, lengths, max)
           wrong == {n \in 0 .. launches : ~ Right(n)}
<1>1. Right(0)
  BY NothingIsNoLaunch
<1>2. ASSUME NEW n \in 0 .. launches - 1, Right(n)
      PROVE  Right(n + 1)
  <2>1. n \in Nat /\ n + 1 \in 1 .. launches
    OBVIOUS
  <2>2. \A r \in rows : /\ offered[r] \in Seq(Int)
                        /\ (n + 1) * width <= Len(offered[r])
                        /\ outputs[r] \in Nat /\ lengths[r] \in Nat
    BY <2>1
  <2>3. AsOneStep(CommitLaunch(after[n], n, offered, width, conditions, outputs, lengths, max),
                  rows, n + 1, offered, width, conditions, outputs, lengths, max)
    BY <1>2, <2>1, <2>2, OneMoreLaunch
  <2> QED
    BY <2>3
<1> HIDE DEF Right
<1>3. SUFFICES ASSUME wrong # {}
               PROVE  FALSE
  BY DEF Right
<1>4. PICK n \in wrong : \A k \in wrong : n <= k
  BY <1>3, LeastNatural, wrong \subseteq Nat
<1>5. n # 0 /\ n - 1 \in 0 .. launches - 1 /\ n - 1 \notin wrong
  BY <1>1, <1>4
<1>6. Right(n - 1 + 1)
  BY <1>2, <1>5
<1> QED
  BY <1>4, <1>6

------------------------------------------------------------------------------
(* Division by the block size.                                             *)

\* The quotient of a length by the block size.
LEMMA DivBounds ==
  ASSUME NEW n \in Nat, NEW b \in Nat \ {0}
  PROVE  /\ n \div b \in Nat
         /\ (n \div b) * b <= n
         /\ n < (n \div b) * b + b
  BY SMT

\* It is the only number with that remainder.
LEMMA OneQuotient ==
  ASSUME NEW n \in Nat, NEW b \in Nat \ {0}, NEW q \in Nat, NEW h \in Nat,
         q * b <= n, n < q * b + b, h * b <= n, n < h * b + b
  PROVE  q = h
<1>1. CASE q < h
  <2>1. (q + 1) * b <= h * b
    BY <1>1
  <2> QED BY <1>1, <2>1
<1>2. CASE h < q
  <2>1. (h + 1) * b <= q * b
    BY <1>2
  <2> QED BY <1>2, <2>1
<1> QED BY <1>1, <1>2

\* Multiples of the block size grow with the number of blocks.
LEMMA Multiples ==
  ASSUME NEW i \in Nat, NEW h \in Nat, NEW b \in Nat \ {0}, i <= h
  PROVE  i * b \in Nat /\ i * b <= h * b /\ (h + 1) * b = h * b + b
  OBVIOUS

\* Less than what is at most l is at most l.
LEMMA Between ==
  ASSUME NEW x \in Nat, NEW y \in Nat, NEW l \in Nat, x <= y, y <= l
  PROVE  x \in 0 .. l
  OBVIOUS

------------------------------------------------------------------------------
(* Parts of a text.                                                        *)

\* What Prefix returns.
LEMMA PrefixFacts ==
  ASSUME NEW S, NEW t \in Seq(S), NEW n \in 0 .. Len(t)
  PROVE  /\ Prefix(t, n) \in Seq(S)
         /\ Len(Prefix(t, n)) = n
         /\ \A j \in 1 .. n : Prefix(t, n)[j] = t[j]
<1>1. \A j \in 1 .. n : t[j] \in S
  BY ElementOfSeq
<1> QED
  BY <1>1, SubSeqProperties DEF Prefix

\* What From returns.
LEMMA FromFacts ==
  ASSUME NEW S, NEW t \in Seq(S), NEW n \in 1 .. Len(t) + 1
  PROVE  /\ From(t, n) \in Seq(S)
         /\ Len(From(t, n)) = Len(t) + 1 - n
         /\ \A j \in 1 .. Len(t) + 1 - n : From(t, n)[j] = t[n + j - 1]
<1>1. \A j \in n .. Len(t) : t[j] \in S
  BY ElementOfSeq
<1>2. Len(t) \in Nat
  BY LenProperties
<1> QED
  BY <1>1, <1>2, SubSeqProperties DEF From

\* A token at the end changes no prefix.
LEMMA PrefixOfMore ==
  ASSUME NEW S, NEW t \in Seq(S), NEW e \in S, NEW n \in 0 .. Len(t)
  PROVE  Prefix(Append(t, e), n) = Prefix(t, n)
<1> DEFINE u == Append(t, e)
<1>1. /\ u \in Seq(S) /\ Len(u) = Len(t) + 1
      /\ \A i \in 1 .. Len(t) : u[i] = t[i]
  BY AppendProperties
<1>2. n \in 0 .. Len(u) /\ Len(t) \in Nat
  BY <1>1, LenProperties
<1> HIDE DEF u
<1>3. /\ Prefix(u, n) \in Seq(S) /\ Len(Prefix(u, n)) = n
      /\ \A j \in 1 .. n : Prefix(u, n)[j] = u[j]
  BY <1>1, <1>2, PrefixFacts
<1>4. /\ Prefix(t, n) \in Seq(S) /\ Len(Prefix(t, n)) = n
      /\ \A j \in 1 .. n : Prefix(t, n)[j] = t[j]
  BY PrefixFacts
<1>5. \A j \in 1 .. n : Prefix(u, n)[j] = Prefix(t, n)[j]
  <2> TAKE j \in 1 .. n
  <2>1. j \in 1 .. Len(t)
    BY <1>2
  <2> QED
    BY <1>1, <1>3, <1>4, <2>1
<1>6. Prefix(u, n) = Prefix(t, n)
  BY <1>3, <1>4, <1>5, SeqEqual
<1> QED
  BY <1>6 DEF u

\* It is the last of what comes after.
LEMMA FromOfMore ==
  ASSUME NEW S, NEW t \in Seq(S), NEW e \in S, NEW n \in 1 .. Len(t) + 1
  PROVE  From(Append(t, e), n) = Append(From(t, n), e)
<1> DEFINE u == Append(t, e)
           a == From(u, n)
           f == From(t, n)
           c == Append(f, e)
<1>0. Len(t) \in Nat
  BY LenProperties
<1>1. /\ u \in Seq(S) /\ Len(u) = Len(t) + 1
      /\ \A i \in 1 .. Len(t) : u[i] = t[i]
      /\ u[Len(t) + 1] = e
  BY AppendProperties
<1>2. n \in 1 .. Len(u) + 1
  BY <1>0, <1>1
<1> HIDE DEF u
<1>3. /\ a \in Seq(S) /\ Len(a) = Len(u) + 1 - n
      /\ \A j \in 1 .. Len(u) + 1 - n : a[j] = u[n + j - 1]
  BY <1>1, <1>2, FromFacts
<1>4. /\ f \in Seq(S) /\ Len(f) = Len(t) + 1 - n
      /\ \A j \in 1 .. Len(t) + 1 - n : f[j] = t[n + j - 1]
  BY FromFacts
<1> HIDE DEF a, f
<1>b. f \in Seq(S) /\ Len(f) \in Nat
  BY <1>4, LenProperties
<1>5. /\ c \in Seq(S) /\ Len(c) = Len(f) + 1
      /\ \A i \in 1 .. Len(f) : c[i] = f[i]
      /\ c[Len(f) + 1] = e
  BY <1>b, AppendProperties
<1> HIDE DEF c
<1>6. ASSUME NEW i \in 1 .. Len(a)
      PROVE  a[i] = c[i]
  <2>0. i \in 1 .. Len(u) + 1 - n /\ a[i] = u[n + i - 1]
    BY <1>3
  <2>1. CASE i <= Len(f)
    <3>1. i \in 1 .. Len(t) + 1 - n /\ n + i - 1 \in 1 .. Len(t) /\ i \in 1 .. Len(f)
      BY <1>0, <1>4, <2>0, <2>1
    <3> QED
      BY <1>1, <1>4, <1>5, <2>0, <3>1
  <2>2. CASE i = Len(f) + 1
    <3>1. n + i - 1 = Len(t) + 1
      BY <1>0, <1>4, <2>0, <2>2
    <3> QED
      BY <1>1, <1>5, <2>0, <2>2, <3>1
  <2> QED
    BY <1>0, <1>1, <1>3, <1>4, <2>1, <2>2
<1>7. Len(a) = Len(c)
  BY <1>0, <1>1, <1>3, <1>4, <1>5
<1>8. a = c
  BY <1>3, <1>5, <1>6, <1>7, SeqEqual
<1> QED
  BY <1>8 DEF a, c, f, u

\* A text is its part up to n and the part after it.
LEMMA TwoParts ==
  ASSUME NEW S, NEW t \in Seq(S), NEW n \in 0 .. Len(t)
  PROVE  Prefix(t, n) \o From(t, n + 1) = t
<1>1. Len(t) \in Nat
  BY LenProperties
<1>2. SubSeq(t, 1, n) \o SubSeq(t, n + 1, Len(t)) = SubSeq(t, 1, Len(t))
  <2>1. /\ 1 \in 1 .. Len(t) + 1 /\ n \in 1 - 1 .. Len(t) /\ Len(t) \in n .. Len(t)
    BY <1>1
  <2> QED
    BY <2>1, ConcatAdjacentSubSeq
<1> QED
  BY <1>2, SubSeqFull DEF Prefix, From

------------------------------------------------------------------------------
(* Hashes that cover a text.                                               *)

\* The hashes of a whole text cover it.
LEMMA ChainCovers ==
  ASSUME StoreConstants, NEW t \in Seq(Tokens)
  PROVE  /\ Chain(t) \in Hashes
         /\ Covers(Chain(t), From(t, Len(Chain(t)) * HashBlockSize + 1), t)
<1> DEFINE B == HashBlockSize
           q == Len(t) \div B
<1>0. B \in Nat \ {0} /\ Len(t) \in Nat
  BY LenProperties DEF StoreConstants
<1>1. q \in Nat /\ q * B <= Len(t) /\ Len(t) < q * B + B /\ q * B \in Nat
  BY <1>0, DivBounds
<1> HIDE DEF q
<1>2. \A i \in 1 .. q : i * B \in 0 .. Len(t)
  BY <1>0, <1>1, Multiples
<1>3. \A i \in 1 .. q : Prefix(t, i * B) \in Seq(Tokens)
  BY <1>2, PrefixFacts
<1>4. Chain(t) = [i \in 1 .. q |-> Prefix(t, i * B)]
  BY DEF Chain, q
<1>5. Chain(t) \in Hashes
  <2> DEFINE e(i) == Prefix(t, i * B)
  <2>1. \A i \in 1 .. q : e(i) \in Seq(Tokens)
    BY <1>3
  <2> HIDE DEF e
  <2>2. [i \in 1 .. q |-> e(i)] \in Seq(Seq(Tokens))
    BY <1>1, <2>1, IsASeq
  <2> QED
    BY <1>4, <2>2 DEF e, Hashes
<1>6. Len(Chain(t)) = q
  BY <1>1, <1>4, <1>5, LenProperties DEF Hashes
<1>7. q * B + 1 \in 1 .. Len(t) + 1
  BY <1>0, <1>1
<1>8. Len(From(t, q * B + 1)) = Len(t) - q * B
  <2> DEFINE n == q * B + 1
  <2>1. n \in 1 .. Len(t) + 1 /\ Len(t) + 1 - n = Len(t) - q * B
    BY <1>0, <1>1, <1>7
  <2> HIDE DEF n
  <2>2. Len(From(t, n)) = Len(t) + 1 - n
    BY <2>1, FromFacts
  <2> QED
    BY <2>1, <2>2 DEF n
<1> QED
  BY <1>0, <1>1, <1>4, <1>5, <1>6, <1>8 DEF Covers

\* Nothing else does.
LEMMA CoversIsChain ==
  ASSUME StoreConstants, NEW t \in Seq(Tokens), NEW h \in Hashes, NEW tail \in Seq(Tokens),
         Covers(h, tail, t)
  PROVE  h = Chain(t)
<1> DEFINE B == HashBlockSize
           q == Len(t) \div B
<1>0. B \in Nat \ {0} /\ Len(t) \in Nat /\ Len(h) \in Nat /\ Len(tail) \in Nat
  BY LenProperties DEF StoreConstants, Hashes
<1>1. q \in Nat /\ q * B <= Len(t) /\ Len(t) < q * B + B
  BY <1>0, DivBounds
<1> HIDE DEF q
<1>2. Len(h) * B \in Nat /\ Len(h) * B <= Len(t) /\ Len(t) < Len(h) * B + B
  BY <1>0, Multiples DEF Covers
<1>3. q = Len(h)
  BY <1>0, <1>1, <1>2, OneQuotient
<1>4. Chain(t) \in Hashes /\ Chain(t) = [i \in 1 .. q |-> Prefix(t, i * B)]
  BY ChainCovers DEF Chain, q
<1>5. Len(Chain(t)) = q
  BY <1>1, <1>4, LenProperties DEF Hashes
<1>6. \A i \in 1 .. Len(h) : h[i] = Chain(t)[i]
  BY <1>3, <1>4 DEF Covers
<1> QED
  BY <1>3, <1>4, <1>5, <1>6, SeqEqual DEF Hashes

\* One token more, the step of TokenStore::append.
LEMMA PushCovers ==
  ASSUME StoreConstants, NEW st, NEW t \in Seq(Tokens), NEW token \in Tokens,
         st \in [out : Seq(Tokens), pending : Seq(Tokens), hashes : Hashes],
         Covers(st.hashes, st.pending, t)
  PROVE  /\ PushToken(st, token) \in [out : Seq(Tokens), pending : Seq(Tokens), hashes : Hashes]
         /\ PushToken(st, token).out = Append(st.out, token)
         /\ Covers(PushToken(st, token).hashes, PushToken(st, token).pending, Append(t, token))
<1> DEFINE B == HashBlockSize
           h == Len(st.hashes)
           tail == Append(st.pending, token)
           u == Append(t, token)
<1>0. /\ B \in Nat \ {0} /\ Len(t) \in Nat /\ h \in Nat /\ Len(st.pending) \in Nat
      /\ h * B \in Nat /\ (h + 1) * B = h * B + B
  BY LenProperties, Multiples DEF StoreConstants, Hashes
<1>1. /\ u \in Seq(Tokens) /\ Len(u) = Len(t) + 1
      /\ tail \in Seq(Tokens) /\ Len(tail) = Len(st.pending) + 1
      /\ Append(st.out, token) \in Seq(Tokens)
  <2>1. st.pending \in Seq(Tokens) /\ st.out \in Seq(Tokens)
    OBVIOUS
  <2>2. u \in Seq(Tokens) /\ Len(u) = Len(t) + 1
    BY AppendProperties
  <2>3. tail \in Seq(Tokens) /\ Len(tail) = Len(st.pending) + 1
    BY <2>1, AppendProperties
  <2>4. Append(st.out, token) \in Seq(Tokens)
    BY <2>1, AppendProperties
  <2> QED
    BY <2>2, <2>3, <2>4
<1>a. /\ PushToken(st, token) =
           [out     |-> Append(st.out, token),
            pending |-> IF Len(tail) = B THEN << >> ELSE tail,
            hashes  |-> IF Len(tail) = B THEN Append(st.hashes, HashTokens(st.hashes, tail))
                        ELSE st.hashes]
      /\ st.hashes \in Hashes /\ st.pending \in Seq(Tokens)
      /\ tail = Append(st.pending, token) /\ u = Append(t, token) /\ h = Len(st.hashes)
  BY DEF PushToken
<1>2. /\ Len(st.pending) < B
      /\ h * B + Len(st.pending) = Len(t)
      /\ \A i \in 1 .. h : st.hashes[i] = Prefix(t, i * B)
      /\ st.pending = From(t, h * B + 1)
  BY DEF Covers
<1> HIDE DEF h, tail, u
<1>3. h * B + 1 \in 1 .. Len(t) + 1
  BY <1>0, <1>2
<1>4. tail = From(u, h * B + 1)
  BY <1>a, <1>2, <1>3, FromOfMore
<1>5. \A i \in 1 .. h : st.hashes[i] = Prefix(u, i * B)
  <2> TAKE i \in 1 .. h
  <2>0. i \in Nat /\ i <= h
    BY <1>0
  <2>2. i * B \in Nat /\ i * B <= h * B
    BY <1>0, <2>0, Multiples
  <2>3. h * B <= Len(t)
    BY <1>0, <1>2
  <2>1. i * B \in 0 .. Len(t)
    BY <1>0, <2>2, <2>3, Between
  <2> QED
    BY <1>a, <1>2, <2>1, PrefixOfMore
<1>6. CASE Len(tail) # B
  <2>1. PushToken(st, token) =
          [out |-> Append(st.out, token), pending |-> tail, hashes |-> st.hashes]
    BY <1>a, <1>6
  <2>2. Len(tail) < B /\ h * B + Len(tail) = Len(u)
    BY <1>0, <1>1, <1>2, <1>6
  <2>3. Covers(st.hashes, tail, u)
    BY <1>a, <1>4, <1>5, <2>2 DEF Covers
  <2> QED
    BY <1>a, <1>1, <2>1, <2>3
<1>7. CASE Len(tail) = B
  <2> DEFINE new == HashTokens(st.hashes, tail)
             more == Append(st.hashes, new)
  <2>1. Len(u) = (h + 1) * B
    BY <1>0, <1>1, <1>2, <1>7
  <2>2. new = u
    <3>1. CASE st.hashes = << >>
      <4>1. h = 0
        BY <1>a, <3>1, EmptySeq
      <4>2. tail = SubSeq(u, 1, Len(u))
        BY <1>0, <1>4, <4>1 DEF From
      <4> QED
        BY <1>1, <3>1, <4>2, SubSeqFull DEF HashTokens
    <3>2. CASE st.hashes # << >>
      <4>1. h \in 1 .. h
        BY <1>a, <3>2, <1>0, EmptySeq DEF Hashes
      <4>2. st.hashes[h] = Prefix(u, h * B)
        BY <1>5, <4>1
      <4>3. h * B \in 0 .. Len(u)
        BY <1>0, <2>1
      <4>4. new = Prefix(u, h * B) \o From(u, h * B + 1)
        BY <1>a, <1>4, <3>2, <4>2 DEF HashTokens
      <4> HIDE DEF new
      <4> QED
        BY <1>1, <4>3, <4>4, TwoParts
    <3> QED BY <3>1, <3>2
  <2>3. new \in Seq(Tokens)
    BY <1>1, <2>2
  <2> HIDE DEF new
  <2>4. /\ more \in Hashes /\ Len(more) = h + 1
        /\ \A i \in 1 .. h : more[i] = st.hashes[i]
        /\ more[h + 1] = new
    BY <1>a, <2>3, AppendProperties DEF Hashes
  <2>5. PushToken(st, token) = [out |-> Append(st.out, token), pending |-> << >>, hashes |-> more]
    BY <1>a, <1>7 DEF new
  <2> HIDE DEF more
  <2>6. \A i \in 1 .. h + 1 : more[i] = Prefix(u, i * B)
    <3>1. Prefix(u, (h + 1) * B) = u
      BY <1>1, <2>1, SubSeqFull DEF Prefix
    <3>2. ASSUME NEW i \in 1 .. h + 1
          PROVE  more[i] = Prefix(u, i * B)
      <4>1. CASE i = h + 1
        BY <2>2, <2>4, <3>1, <4>1
      <4>2. CASE i # h + 1
        BY <1>0, <1>5, <2>4, <4>2
      <4> QED BY <4>1, <4>2
    <3> QED BY <3>2
  <2>7. From(u, (h + 1) * B + 1) = << >>
    BY <1>0, <1>1, <2>1, SubSeqEmpty DEF From
  <2>8. << >> \in Seq(Tokens) /\ Len(<< >>) = 0
    BY EmptySeq
  <2>9. Covers(more, << >>, u)
    BY <1>0, <2>1, <2>4, <2>6, <2>7, <2>8 DEF Covers
  <2>10. more \in Hashes /\ << >> \in Seq(Tokens) /\ Append(st.out, token) \in Seq(Tokens)
    BY <1>1, <2>4, <2>8
  <2>11. PushToken(st, token) \in [out : Seq(Tokens), pending : Seq(Tokens), hashes : Hashes]
    BY <2>5, <2>10
  <2>12. /\ PushToken(st, token).out = Append(st.out, token)
         /\ PushToken(st, token).pending = << >>
         /\ PushToken(st, token).hashes = more
    BY <2>5
  <2> QED
    BY <1>a, <2>9, <2>11, <2>12
<1> QED
  BY <1>6, <1>7

------------------------------------------------------------------------------
(* A call for one request.                                                 *)

\* It changes nothing of the others and no slot but his, at.
OnlyHis(s, z, r, at) ==
  /\ \A q \in Requests \ {r} :
       /\ z.text[q] = s.text[q] /\ z.list[q] = s.list[q] /\ z.chain[q] = s.chain[q]
       /\ z.count[q] = s.count[q] /\ z.slot[q] = s.slot[q]
       /\ q \in z.facade <=> q \in s.facade
       /\ q \in z.gone <=> q \in s.gone
  /\ \A k \in Slots \ {at} :
       /\ z.pushed[k] = s.pushed[k] /\ z.hashes[k] = s.hashes[k]
       /\ z.out[k] = s.out[k] /\ z.pending[k] = s.pending[k]
  /\ \A q \in Requests \ {r} : s.slot[q] = at => at = NoSlot
  /\ s.slot[r] \in {at, NoSlot} /\ z.slot[r] \in {at, NoSlot}
  /\ at # NoSlot /\ z.slot[r] = NoSlot => z.hashes[at] = << >>

\* Then only his own lists have to be looked at.
LEMMA OthersAreWhole ==
  ASSUME StoreConstants, NEW s, NEW z, IsState(s), IsState(z), Sound(s),
         NEW r \in Requests, NEW at \in Slots \cup {NoSlot},
         OnlyHis(s, z, r, at),
         r \in z.gone \/ Whole(z, r)
  PROVE  Sound(z)
<1>1. ASSUME NEW q \in Requests \ z.gone, q # r
      PROVE  Whole(z, q)
  <2>1. Whole(s, q)
    BY <1>1 DEF Sound, OnlyHis
  <2>2. /\ z.text[q] = s.text[q] /\ z.list[q] = s.list[q] /\ z.chain[q] = s.chain[q]
        /\ z.count[q] = s.count[q] /\ z.slot[q] = s.slot[q]
        /\ q \in z.facade <=> q \in s.facade
    BY <1>1 DEF OnlyHis
  <2>3. s.slot[q] # NoSlot => s.slot[q] \in Slots \ {at}
    BY <1>1 DEF OnlyHis, IsState
  <2>4. s.slot[q] # NoSlot =>
          /\ z.pushed[s.slot[q]] = s.pushed[s.slot[q]] /\ z.hashes[s.slot[q]] = s.hashes[s.slot[q]]
          /\ z.out[s.slot[q]] = s.out[s.slot[q]] /\ z.pending[s.slot[q]] = s.pending[s.slot[q]]
    BY <2>3 DEF OnlyHis
  <2>5. CASE q \in s.facade
    BY <2>1, <2>2, <2>4, <2>5 DEF Whole, StoreIsWhole
  <2>6. CASE q \notin s.facade
    BY <2>1, <2>2, <2>4, <2>6 DEF Whole, StockIsWhole, Hashed
  <2> QED BY <2>5, <2>6
<1>2. SlotsAreOwn(z)
  <2>1. ASSUME NEW q1 \in Requests, NEW q2 \in Requests, z.slot[q1] = z.slot[q2], z.slot[q1] # NoSlot
        PROVE  q1 = q2
    BY <2>1 DEF OnlyHis, Sound, SlotsAreOwn
  <2>2. ASSUME NEW k \in Slots \ Interned(z)
        PROVE  z.hashes[k] = << >>
    <3>1. \A q \in Requests : z.slot[q] # k
      BY <2>2 DEF Interned, StoreConstants
    <3>2. CASE k = at
      BY <3>1, <3>2 DEF OnlyHis, StoreConstants
    <3>3. CASE k # at
      <4>1. \A q \in Requests : s.slot[q] # k
        BY <3>1, <3>3 DEF OnlyHis, StoreConstants
      <4>2. s.hashes[k] = << >>
        BY <4>1 DEF Sound, SlotsAreOwn, Interned
      <4> QED
        BY <3>3, <4>2 DEF OnlyHis
    <3> QED BY <3>2, <3>3
  <2> QED BY <2>1, <2>2 DEF SlotsAreOwn
<1> QED
  BY <1>1, <1>2 DEF Sound

\* Nobody else has his slot.
LEMMA SlotIsHis ==
  ASSUME NEW s, Sound(s), NEW r \in Requests, NEW q \in Requests \ {r}, s.slot[r] # NoSlot
  PROVE  s.slot[q] # s.slot[r]
  BY DEF Sound, SlotsAreOwn

------------------------------------------------------------------------------
(* The calls.                                                              *)

\* A store-owned request is not pushed again: its frozen list is as long as
\* the mirror remembers (RustMirror.slot).
THEOREM OwnedIsNotPushedAgain ==
  ASSUME StoreConstants, NEW s, IsState(s), Sound(s),
         NEW r \in s.facade \ s.gone, NEW k \in Slots
  PROVE  /\ SlotOf(s, r, k).hashes = s.hashes
         /\ SlotOf(s, r, k).pushed = s.pushed
         /\ SlotOf(s, r, k).slot = s.slot
<1>1. r \in Requests /\ StoreIsWhole(s, r)
  BY DEF IsState, Sound, Whole
<1>2. s.slot[r] # NoSlot /\ s.slot[r] \in Slots /\ s.pushed[s.slot[r]] = Len(s.chain[r])
      /\ Len(s.chain[r]) \in Nat
  BY <1>1, LenProperties DEF StoreIsWhole, IsState, Hashes
<1> QED
  BY <1>1, <1>2 DEF IsState, SlotOf

\* After RustMirror.slot the crate has the chain that Python has.
THEOREM SlotOfIsSound ==
  ASSUME StoreConstants, NEW s, IsState(s), Sound(s),
         NEW r \in Requests \ s.gone, NEW k \in Slots,
         s.slot[r] = NoSlot => k \notin Interned(s)
  PROVE  /\ IsState(SlotOf(s, r, k)) /\ Sound(SlotOf(s, r, k))
         /\ SlotOf(s, r, k).slot[r] # NoSlot
         /\ SlotOf(s, r, k).pushed[SlotOf(s, r, k).slot[r]] = Len(SlotOf(s, r, k).chain[r])
<1>1. CASE r \in s.facade
  <2> DEFINE at == s.slot[r]
             z == SlotOf(s, r, k)
  <2>1. StoreIsWhole(s, r) /\ at \in Slots /\ at # NoSlot
    BY <1>1 DEF Sound, Whole, StoreIsWhole, IsState
  <2>a. /\ z.text = s.text /\ z.list = s.list /\ z.chain = s.chain /\ z.facade = s.facade
        /\ z.count = s.count /\ z.off = s.off /\ z.gone = s.gone
        /\ z.out = s.out /\ z.pending = s.pending
    BY DEF SlotOf, IsState
  <2>b. z.hashes = s.hashes /\ z.pushed = s.pushed /\ z.slot = s.slot
    BY <1>1, OwnedIsNotPushedAgain
  <2>2. /\ z.hashes = s.hashes /\ z.pushed = s.pushed /\ z.slot = s.slot
        /\ z.text = s.text /\ z.list = s.list /\ z.chain = s.chain /\ z.facade = s.facade
        /\ z.count = s.count /\ z.off = s.off /\ z.gone = s.gone
        /\ z.out = s.out /\ z.pending = s.pending
    BY <2>a, <2>b
  <2>3. IsState(z)
    BY <2>2 DEF IsState, SlotOf
  <2> HIDE DEF z
  <2>4. OnlyHis(s, z, r, at)
    BY <2>1, <2>2, SlotIsHis DEF OnlyHis
  <2>5. Whole(z, r) /\ z.slot[r] # NoSlot /\ z.pushed[z.slot[r]] = Len(z.chain[r])
    BY <1>1, <2>1, <2>2 DEF Whole, StoreIsWhole
  <2>6. Sound(z)
    BY <2>1, <2>3, <2>4, <2>5, OthersAreWhole
  <2> QED
    BY <2>3, <2>5, <2>6 DEF z
<1>2. CASE r \notin s.facade
  <2> DEFINE at == IF s.slot[r] = NoSlot THEN k ELSE s.slot[r]
             have == IF s.slot[r] = NoSlot THEN Len(s.hashes[at]) ELSE s.pushed[at]
             C == s.chain[r]
             z == SlotOf(s, r, k)
  <2>1. StockIsWhole(s, r)
    BY <1>2 DEF Sound, Whole
  <2>2. at \in Slots /\ at # NoSlot /\ C \in Hashes /\ Len(C) \in Nat /\ s.hashes[at] \in Hashes
    BY LenProperties DEF IsState, StoreConstants, Hashes
  <2>3. have = Len(s.hashes[at]) /\ have \in 0 .. Len(C) /\ s.hashes[at] = Prefix(C, have)
    <3>1. CASE s.slot[r] = NoSlot
      <4>1. s.hashes[at] = << >>
        BY <3>1 DEF Sound, SlotsAreOwn
      <4>2. Len(s.hashes[at]) = 0 /\ Prefix(C, 0) = << >>
        BY <4>1, EmptySeq, SubSeqEmpty DEF Prefix
      <4> QED
        BY <2>2, <3>1, <4>1, <4>2
    <3>2. CASE s.slot[r] # NoSlot
      <4>1. Len(s.hashes[at]) \in Nat
        BY <2>2, LenProperties DEF Hashes
      <4> QED
        BY <2>1, <2>2, <3>2, <4>1 DEF StockIsWhole
    <3> QED BY <3>1, <3>2
  <2>4. Prefix(C, have) \o From(C, have + 1) = C /\ Prefix(C, Len(C)) = C
    BY <2>2, <2>3, TwoParts, SubSeqFull DEF Hashes, Prefix
  <2>5. z = [s EXCEPT !.slot[r] = at,
                      !.hashes[at] = IF Len(C) > have THEN @ \o From(C, have + 1) ELSE @,
                      !.pushed[at] = IF Len(C) > have THEN Len(C) ELSE have]
    BY DEF SlotOf
  <2> HIDE DEF at, have, C, z
  <2>6. /\ z.slot = [s.slot EXCEPT ![r] = at]
        /\ z.hashes = [s.hashes EXCEPT ![at] = C]
        /\ z.pushed = [s.pushed EXCEPT ![at] = Len(C)]
        /\ z.text = s.text /\ z.list = s.list /\ z.chain = s.chain /\ z.facade = s.facade
        /\ z.count = s.count /\ z.off = s.off /\ z.gone = s.gone
        /\ z.out = s.out /\ z.pending = s.pending
    <3>1. CASE Len(C) > have
      BY <2>2, <2>3, <2>4, <2>5, <3>1 DEF IsState
    <3>2. CASE ~ (Len(C) > have)
      <4>1. have = Len(C) /\ s.hashes[at] = C
        BY <2>2, <2>3, <2>4, <3>2
      <4> QED
        BY <2>2, <2>5, <3>2, <4>1 DEF IsState
    <3> QED BY <3>1, <3>2
  <2>7. IsState(z)
    <3>1. z.slot \in [Requests -> Slots \cup {NoSlot}] /\ z.hashes \in [Slots -> Hashes]
          /\ z.pushed \in [Slots -> Nat]
      BY <2>2, <2>6 DEF IsState
    <3> QED
      BY <2>5, <2>6, <3>1 DEF IsState
  <2>8. OnlyHis(s, z, r, at)
    <3>1. \A q \in Requests \ {r} : s.slot[q] # at
      BY SlotIsHis DEF at, Interned, StoreConstants
    <3>2. s.slot[r] \in {at, NoSlot} /\ z.slot[r] = at
      BY <2>6 DEF at, IsState
    <3> QED
      BY <2>2, <2>6, <3>1, <3>2 DEF OnlyHis, IsState
  <2>9. z.slot[r] = at /\ z.pushed[at] = Len(C) /\ z.hashes[at] = C /\ z.chain[r] = C
    BY <2>2, <2>6 DEF IsState, C
  <2>10. Whole(z, r)
    BY <1>2, <2>1, <2>2, <2>4, <2>6, <2>9 DEF Whole, StockIsWhole, Hashed
  <2>11. Sound(z)
    BY <2>2, <2>7, <2>8, <2>10, OthersAreWhole
  <2> QED
    BY <2>2, <2>7, <2>9, <2>11 DEF z
<1> QED BY <1>1, <1>2

\* store_take_over: the seed of a sound request always fits, so only the
\* latch refuses it, and the store starts with the tail.
THEOREM TakeOverIsSound ==
  ASSUME StoreConstants, NEW s, IsState(s), Sound(s),
         NEW r \in Requests \ s.gone, s.slot[r] # NoSlot, s.pushed[s.slot[r]] = Len(s.chain[r])
  PROVE  /\ IsState(TakeOver(s, r)) /\ Sound(TakeOver(s, r))
         /\ r \in TakeOver(s, r).facade \cup s.off
<1>1. CASE r \in s.facade \/ r \in s.off
  BY <1>1 DEF TakeOver
<1>2. CASE r \notin s.facade /\ r \notin s.off
  <2> DEFINE at == s.slot[r]
             tail == From(s.list[r], Hashed(s, r) + 1)
             z == TakeOver(s, r)
  <2>1. StockIsWhole(s, r)
    BY <1>2 DEF Sound, Whole
  <2>2. /\ at \in Slots /\ s.list[r] \in Seq(Tokens) /\ Len(s.list[r]) \in Nat
        /\ s.chain[r] \in Hashes /\ Len(s.chain[r]) \in Nat
    BY LenProperties DEF IsState, Hashes
  <2>3. HashBlockSize \in Nat \ {0} /\ Hashed(s, r) \in Nat
    BY <2>2, Multiples DEF StoreConstants, Hashed
  <2>4. Covers(s.chain[r], tail, s.list[r])
    BY <2>1 DEF StockIsWhole
  <2>5. tail \in Seq(Tokens) /\ Len(tail) \in Nat /\ Hashed(s, r) + Len(tail) = Len(s.list[r])
    <3>1. tail = SubSeq(s.list[r], Hashed(s, r) + 1, Len(s.list[r]))
      BY DEF From
    <3>2. \A i \in Hashed(s, r) + 1 .. Len(s.list[r]) : s.list[r][i] \in Tokens
      BY <2>2, <2>3, ElementOfSeq
    <3> HIDE DEF tail
    <3>a. Hashed(s, r) + 1 \in Int /\ Len(s.list[r]) \in Int
      BY <2>2, <2>3
    <3>3. tail \in Seq(Tokens)
      BY <3>1, <3>2, <3>a, SubSeqProperties
    <3> QED
      BY <2>4, <3>3, LenProperties DEF Covers, Hashed
  <2>6. SeedFits(s, r)
    BY <2>2, <2>3, <2>4, <2>5 DEF SeedFits, Covers
  <2>7. s.hashes[at] = s.chain[r]
    BY <2>1, <2>2, SubSeqFull DEF StockIsWhole, Prefix, Hashes
  <2> HIDE DEF at, tail
  <2>8. /\ z.facade = s.facade \cup {r}
        /\ z.count = [s.count EXCEPT ![r] = Len(s.list[r])]
        /\ z.out = [s.out EXCEPT ![at] = << >>]
        /\ z.pending = [s.pending EXCEPT ![at] = tail]
        /\ z.text = s.text /\ z.list = s.list /\ z.chain = s.chain /\ z.off = s.off
        /\ z.slot = s.slot /\ z.gone = s.gone /\ z.pushed = s.pushed /\ z.hashes = s.hashes
    BY <1>2, <2>6 DEF TakeOver, IsState, at, tail
  <2>9. IsState(z)
    <3>1. /\ z.count \in [Requests -> Nat] /\ z.out \in [Slots -> Seq(Tokens)]
          /\ z.pending \in [Slots -> Seq(Tokens)]
      BY <2>2, <2>5, <2>8, EmptySeq DEF IsState
    <3>2. z = [s EXCEPT !.facade = @ \cup {r}, !.count[r] = Len(s.list[r]),
                        !.out[at] = << >>, !.pending[at] = tail]
      BY <1>2, <2>6 DEF TakeOver, at, tail
    <3> HIDE DEF z
    <3> QED
      BY <2>8, <3>1, <3>2 DEF IsState
  <2> HIDE DEF z
  <2>10. OnlyHis(s, z, r, at)
    <3>1. \A q \in Requests \ {r} : s.slot[q] # at
      BY SlotIsHis DEF at
    <3> QED
      BY <2>2, <2>8, <3>1 DEF OnlyHis, IsState, at
  <2>11. /\ z.count[r] = Len(s.list[r]) /\ z.out[at] = << >> /\ z.pending[at] = tail
         /\ z.slot[r] = at /\ at # NoSlot
    BY <2>2, <2>8 DEF IsState, at
  <2>12. s.list[r] \o << >> = s.list[r] /\ s.list[r] = s.text[r]
    BY <2>1, <2>2, ConcatEmptySeq DEF StockIsWhole
  <2>13. StoreIsWhole(z, r)
    BY <2>4, <2>7, <2>8, <2>11, <2>12 DEF StoreIsWhole, at
  <2>14. Sound(z)
    BY <2>2, <2>8, <2>9, <2>10, <2>13, OthersAreWhole DEF Whole
  <2> QED
    BY <2>8, <2>9, <2>14 DEF z
<1> QED BY <1>1, <1>2

\* TokenStore::append of an accepted token, and the facade's bump.
THEOREM PackTokenIsSound ==
  ASSUME StoreConstants, NEW s, IsState(s), Sound(s),
         NEW r \in s.facade \ s.gone, NEW token \in Tokens
  PROVE  IsState(PackToken(s, r, token)) /\ Sound(PackToken(s, r, token))
<1> DEFINE at == s.slot[r]
           old == StoreOf(s, at)
           new == PushToken(old, token)
           z == PackToken(s, r, token)
<1>1. r \in Requests /\ StoreIsWhole(s, r)
  BY DEF IsState, Sound, Whole
<1>2. /\ at \in Slots /\ at # NoSlot
      /\ s.text[r] \in Seq(Tokens) /\ Len(s.text[r]) \in Nat /\ s.list[r] \in Seq(Tokens)
      /\ s.out[at] \in Seq(Tokens) /\ s.count[r] \in Nat
  BY <1>1, LenProperties DEF IsState, StoreIsWhole
<1>3. /\ old \in [out : Seq(Tokens), pending : Seq(Tokens), hashes : Hashes]
      /\ Covers(old.hashes, old.pending, s.text[r]) /\ old.out = s.out[at]
  BY <1>1, <1>2 DEF StoreOf, IsState, StoreIsWhole
<1> HIDE DEF old
<1>4. /\ new \in [out : Seq(Tokens), pending : Seq(Tokens), hashes : Hashes]
      /\ new.out = Append(s.out[at], token)
      /\ Covers(new.hashes, new.pending, Append(s.text[r], token))
  <2>1. /\ PushToken(old, token) \in [out : Seq(Tokens), pending : Seq(Tokens), hashes : Hashes]
        /\ PushToken(old, token).out = Append(old.out, token)
        /\ Covers(PushToken(old, token).hashes, PushToken(old, token).pending,
                  Append(s.text[r], token))
    BY <1>2, <1>3, PushCovers, Zenon
  <2> QED
    BY <1>3, <2>1, Zenon
<1> HIDE DEF new
<1>5. Append(s.text[r], token) \in Seq(Tokens) /\ Len(Append(s.text[r], token)) = Len(s.text[r]) + 1
  BY <1>2, AppendProperties
<1>6. s.list[r] \o Append(s.out[at], token) = Append(s.text[r], token)
  <2>1. Append(s.out[at], token) = s.out[at] \o <<token>>
    BY <1>2, AppendIsConcat
  <2>2. Append(s.text[r], token) = s.text[r] \o <<token>>
    BY <1>2, AppendIsConcat
  <2>3. <<token>> \in Seq(Tokens)
    OBVIOUS
  <2>4. s.list[r] \o (s.out[at] \o <<token>>) = (s.list[r] \o s.out[at]) \o <<token>>
    <3> DEFINE a == s.list[r]
               b == s.out[at]
               c == <<token>>
    <3>1. a \in Seq(Tokens) /\ b \in Seq(Tokens) /\ c \in Seq(Tokens)
      BY <1>2, <2>3
    <3> HIDE DEF a, b, c
    <3>2. a \o (b \o c) = (a \o b) \o c
      BY <3>1, ConcatAssociative
    <3> QED BY <3>2 DEF a, b, c
  <2> QED
    BY <1>1, <2>1, <2>2, <2>4 DEF StoreIsWhole
<1>7. z = [s EXCEPT !.text[r] = Append(@, token), !.count[r] = @ + 1,
                    !.out[at] = new.out, !.pending[at] = new.pending, !.hashes[at] = new.hashes]
  BY DEF PackToken, new, old
<1> HIDE DEF at, z
<1>8. /\ z.text = [s.text EXCEPT ![r] = Append(@, token)]
      /\ z.count = [s.count EXCEPT ![r] = @ + 1]
      /\ z.out = [s.out EXCEPT ![at] = new.out]
      /\ z.pending = [s.pending EXCEPT ![at] = new.pending]
      /\ z.hashes = [s.hashes EXCEPT ![at] = new.hashes]
      /\ z.list = s.list /\ z.chain = s.chain /\ z.off = s.off /\ z.facade = s.facade
      /\ z.slot = s.slot /\ z.gone = s.gone /\ z.pushed = s.pushed
  BY <1>7 DEF IsState
<1>9. IsState(z)
  <2>1. /\ z.text \in [Requests -> Seq(Tokens)] /\ z.count \in [Requests -> Nat]
        /\ z.out \in [Slots -> Seq(Tokens)] /\ z.pending \in [Slots -> Seq(Tokens)]
        /\ z.hashes \in [Slots -> Hashes]
    <3>1. /\ s.text \in [Requests -> Seq(Tokens)] /\ s.count \in [Requests -> Nat]
          /\ s.out \in [Slots -> Seq(Tokens)] /\ s.pending \in [Slots -> Seq(Tokens)]
          /\ s.hashes \in [Slots -> Hashes]
      BY DEF IsState
    <3>2. z.text \in [Requests -> Seq(Tokens)] /\ z.count \in [Requests -> Nat]
      BY <1>1, <1>2, <1>5, <1>8, <3>1
    <3>3. /\ new.out \in Seq(Tokens) /\ new.pending \in Seq(Tokens)
          /\ new.hashes \in Hashes
      BY <1>4
    <3> QED
      BY <1>2, <1>8, <3>1, <3>2, <3>3
  <2> QED
    BY <1>7, <1>8, <2>1 DEF IsState
<1>10. OnlyHis(s, z, r, at)
  <2>1. \A q \in Requests \ {r} : s.slot[q] # at
    BY <1>1, <1>2, SlotIsHis DEF at
  <2> QED
    BY <1>1, <1>2, <1>8, <2>1 DEF OnlyHis, IsState, at
<1>11. /\ z.text[r] = Append(s.text[r], token) /\ z.count[r] = s.count[r] + 1
       /\ z.out[at] = new.out /\ z.pending[at] = new.pending /\ z.hashes[at] = new.hashes
       /\ z.slot[r] = at
  BY <1>1, <1>2, <1>8 DEF IsState, at
<1>12. StoreIsWhole(z, r)
  <2>1. z.list[r] = s.list[r] /\ z.chain[r] = s.chain[r] /\ z.pushed[at] = s.pushed[at]
    BY <1>8
  <2>2. s.count[r] = Len(s.text[r]) /\ s.pushed[at] = Len(s.chain[r])
    BY <1>1 DEF StoreIsWhole, at
  <2>3. /\ z.list[r] \o z.out[at] = z.text[r]
        /\ Covers(z.hashes[at], z.pending[at], z.text[r])
    BY <1>4, <1>6, <1>11, <2>1
  <2>4. z.count[r] = Len(z.text[r]) /\ z.pushed[at] = Len(z.chain[r])
    BY <1>5, <1>11, <2>1, <2>2
  <2> QED
    BY <1>2, <1>11, <2>3, <2>4 DEF StoreIsWhole
<1>13. Sound(z)
  BY <1>1, <1>2, <1>8, <1>9, <1>10, <1>12, OthersAreWhole DEF Whole
<1> QED
  BY <1>9, <1>13 DEF z

\* tok_materialize: what Python gets back is what it would have had, every
\* token and the hash of every complete block, and the mirror knows it.
THEOREM HandBackIsWhole ==
  ASSUME StoreConstants, NEW s, IsState(s), Sound(s), NEW r \in s.facade \ s.gone
  PROVE  /\ IsState(Materialize(s, r)) /\ Sound(Materialize(s, r))
         /\ Materialize(s, r).list[r] = s.text[r]
         /\ Materialize(s, r).chain[r] = Chain(s.text[r])
<1> DEFINE at == s.slot[r]
           z == Materialize(s, r)
<1>1. r \in Requests /\ StoreIsWhole(s, r)
  BY DEF IsState, Sound, Whole
<1>2. /\ at \in Slots /\ at # NoSlot
      /\ s.text[r] \in Seq(Tokens) /\ s.list[r] \o s.out[at] = s.text[r]
      /\ s.hashes[at] \in Hashes /\ s.pending[at] \in Seq(Tokens)
      /\ Len(s.hashes[at]) \in Nat
  BY <1>1, LenProperties DEF IsState, StoreIsWhole, Hashes
<1>3. Covers(s.hashes[at], s.pending[at], s.text[r])
  BY <1>1 DEF StoreIsWhole
<1>4. s.hashes[at] = Chain(s.text[r])
  BY <1>2, <1>3, CoversIsChain
<1>5. s.pending[at] = From(s.text[r], Len(s.hashes[at]) * HashBlockSize + 1)
  BY <1>3 DEF Covers
<1>6. z = [s EXCEPT !.facade = @ \ {r}, !.off = @ \cup {r}, !.list[r] = @ \o s.out[at],
                    !.chain[r] = s.hashes[at], !.pushed[at] = Len(s.hashes[at]),
                    !.out[at] = << >>, !.pending[at] = << >>]
  BY DEF Materialize
<1> HIDE DEF at, z
<1>7. /\ z.facade = s.facade \ {r} /\ z.off = s.off \cup {r}
      /\ z.list = [s.list EXCEPT ![r] = @ \o s.out[at]]
      /\ z.chain = [s.chain EXCEPT ![r] = s.hashes[at]]
      /\ z.pushed = [s.pushed EXCEPT ![at] = Len(s.hashes[at])]
      /\ z.out = [s.out EXCEPT ![at] = << >>]
      /\ z.pending = [s.pending EXCEPT ![at] = << >>]
      /\ z.text = s.text /\ z.count = s.count /\ z.slot = s.slot
      /\ z.gone = s.gone /\ z.hashes = s.hashes
  BY <1>6 DEF IsState
<1>8. IsState(z)
  <2>1. /\ z.list \in [Requests -> Seq(Tokens)] /\ z.chain \in [Requests -> Hashes]
        /\ z.pushed \in [Slots -> Nat] /\ z.out \in [Slots -> Seq(Tokens)]
        /\ z.pending \in [Slots -> Seq(Tokens)]
    BY <1>1, <1>2, <1>7, EmptySeq DEF IsState
  <2>2. z.facade \in SUBSET Requests /\ z.off \in SUBSET Requests
    BY <1>1, <1>7 DEF IsState
  <2> QED
    BY <1>6, <1>7, <2>1, <2>2 DEF IsState
<1>9. OnlyHis(s, z, r, at)
  <2>1. \A q \in Requests \ {r} : s.slot[q] # at
    BY <1>1, <1>2, SlotIsHis DEF at
  <2> QED
    BY <1>1, <1>2, <1>7, <2>1 DEF OnlyHis, IsState, at
<1>10. /\ z.list[r] = s.text[r] /\ z.chain[r] = s.hashes[at]
       /\ z.pushed[at] = Len(s.hashes[at]) /\ z.slot[r] = at /\ r \notin z.facade
  BY <1>1, <1>2, <1>7 DEF IsState, at
<1>11. s.hashes[at] = Prefix(s.hashes[at], Len(s.hashes[at]))
  BY <1>2, SubSeqFull DEF Prefix, Hashes
<1>12. StockIsWhole(z, r)
  BY <1>2, <1>3, <1>5, <1>7, <1>10, <1>11 DEF StockIsWhole, Hashed
<1>13. Sound(z)
  BY <1>1, <1>2, <1>8, <1>9, <1>10, <1>12, OthersAreWhole DEF Whole
<1> QED
  BY <1>4, <1>8, <1>10, <1>13 DEF z

\* The hashes of a text are kept when it grows.
LEMMA ChainGrows ==
  ASSUME StoreConstants, NEW t \in Seq(Tokens), NEW token \in Tokens
  PROVE  Chain(t) \o From(Chain(Append(t, token)), Len(Chain(t)) + 1) = Chain(Append(t, token))
<1> DEFINE B == HashBlockSize
           u == Append(t, token)
           C == Chain(t)
           D == Chain(u)
<1>1. u \in Seq(Tokens) /\ Len(u) = Len(t) + 1 /\ Len(t) \in Nat /\ B \in Nat \ {0}
  BY AppendProperties, LenProperties DEF StoreConstants
<1>2. /\ C \in Hashes /\ D \in Hashes /\ Len(C) \in Nat /\ Len(D) \in Nat
      /\ Covers(C, From(t, Len(C) * B + 1), t) /\ Covers(D, From(u, Len(D) * B + 1), u)
  BY <1>1, ChainCovers, LenProperties DEF Hashes
<1>3. \A n \in 0 .. Len(t) : Prefix(u, n) = Prefix(t, n)
  BY PrefixOfMore
<1>a. /\ Len(C) = Len(t) \div B /\ C = [i \in 1 .. Len(C) |-> Prefix(t, i * B)]
      /\ Len(D) = Len(u) \div B /\ D = [i \in 1 .. Len(D) |-> Prefix(u, i * B)]
  <2>1. Len(t) \div B \in Nat /\ Len(u) \div B \in Nat
    BY <1>1, DivBounds
  <2>2. DOMAIN C = 1 .. Len(C) /\ DOMAIN D = 1 .. Len(D)
    BY <1>2, LenProperties DEF Hashes
  <2>3. Len(C) = Len(t) \div B /\ Len(D) = Len(u) \div B
    BY <1>2, <2>1, <2>2 DEF Chain
  <2> QED
    BY <2>3 DEF Chain
<1>4. /\ Len(C) * B \in Nat /\ Len(C) * B <= Len(t)
      /\ Len(D) * B \in Nat /\ Len(u) < Len(D) * B + B
  BY <1>1, <1>2, <1>a, DivBounds, Multiples
<1> HIDE DEF u, C, D
<1>5. Len(C) <= Len(D)
  <2>1. CASE Len(C) > Len(D)
    <3>1. (Len(D) + 1) * B <= Len(C) * B /\ (Len(D) + 1) * B = Len(D) * B + B
      <4>1. Len(D) + 1 \in Nat /\ Len(D) + 1 <= Len(C)
        BY <1>2, <2>1
      <4> QED
        BY <1>1, <1>2, <4>1, Multiples
    <3> QED
      BY <1>1, <1>4, <3>1
  <2> QED BY <1>2, <2>1
<1>6. C = Prefix(D, Len(C))
  <2>0. Len(C) \in 0 .. Len(D)
    BY <1>2, <1>5
  <2>1. /\ Prefix(D, Len(C)) \in Seq(Seq(Tokens)) /\ Len(Prefix(D, Len(C))) = Len(C)
        /\ \A j \in 1 .. Len(C) : Prefix(D, Len(C))[j] = D[j]
    BY <1>2, <2>0, PrefixFacts DEF Hashes
  <2>2. ASSUME NEW i \in 1 .. Len(C)
        PROVE  C[i] = D[i]
    <3>1. i * B \in 0 .. Len(t)
      <4>1. i \in Nat /\ i <= Len(C)
        BY <1>2
      <4>2. i * B \in Nat /\ i * B <= Len(C) * B
        BY <1>1, <1>2, <4>1, Multiples
      <4> QED BY <1>1, <1>4, <4>2
    <3>2. i \in 1 .. Len(D)
      BY <1>2, <1>5
    <3>3. C[i] = Prefix(t, i * B) /\ D[i] = Prefix(u, i * B)
      BY <1>a, <3>2
    <3> QED
      BY <1>3, <3>1, <3>3
  <2> QED
    BY <1>2, <2>1, <2>2, SeqEqual DEF Hashes
<1>7. C \o From(D, Len(C) + 1) = D
  <2>1. Len(C) \in 0 .. Len(D)
    BY <1>2, <1>5
  <2>2. Prefix(D, Len(C)) \o From(D, Len(C) + 1) = D
    BY <1>2, <2>1, TwoParts DEF Hashes
  <2> QED BY <1>6, <2>2
<1> QED
  BY <1>7 DEF u, C, D

\* append_output_token_ids of a request that Python keeps.
THEOREM StockTokenIsSound ==
  ASSUME StoreConstants, NEW s, IsState(s), Sound(s),
         NEW r \in Requests \ (s.gone \cup s.facade), NEW token \in Tokens
  PROVE  IsState(StockToken(s, r, token)) /\ Sound(StockToken(s, r, token))
<1> DEFINE at == s.slot[r]
           C == s.chain[r]
           t == Append(s.list[r], token)
           z == StockToken(s, r, token)
<1>1. StockIsWhole(s, r)
  BY DEF Sound, Whole
<1>2. /\ s.text[r] \in Seq(Tokens) /\ s.list[r] = s.text[r] /\ C \in Hashes
      /\ at \in Slots \cup {NoSlot} /\ Len(C) \in Nat
  BY <1>1, LenProperties DEF StockIsWhole, IsState, Hashes
<1>3. C = Chain(s.text[r])
  <2> DEFINE tail == From(s.list[r], Hashed(s, r) + 1)
  <2>1. Covers(C, tail, s.text[r])
    BY <1>1 DEF StockIsWhole
  <2>2. Hashed(s, r) \in Nat /\ HashBlockSize \in Nat \ {0} /\ Len(s.list[r]) \in Nat
    BY <1>2, Multiples, LenProperties DEF Hashed, StoreConstants
  <2>3. \A i \in Hashed(s, r) + 1 .. Len(s.list[r]) : s.list[r][i] \in Tokens
    BY <1>2, <2>2, ElementOfSeq
  <2>4. tail = SubSeq(s.list[r], Hashed(s, r) + 1, Len(s.list[r]))
    BY DEF From
  <2>5. Hashed(s, r) + 1 \in Int /\ Len(s.list[r]) \in Int
    BY <2>2
  <2> HIDE DEF tail
  <2>6. tail \in Seq(Tokens)
    BY <2>3, <2>4, <2>5, SubSeqProperties
  <2> QED
    BY <1>2, <2>1, <2>6, CoversIsChain
<1>4. t \in Seq(Tokens) /\ Append(s.text[r], token) = t
  BY <1>2, AppendProperties
<1>5. C \o From(Chain(t), Len(C) + 1) = Chain(t)
  BY <1>2, <1>3, <1>4, ChainGrows
<1>6. Chain(t) \in Hashes /\ Covers(Chain(t), From(t, Len(Chain(t)) * HashBlockSize + 1), t)
  BY <1>4, ChainCovers
<1>7. z = [s EXCEPT !.text[r] = Append(@, token), !.list[r] = t,
                    !.chain[r] = @ \o From(Chain(t), Len(@) + 1)]
  BY DEF StockToken
<1> HIDE DEF at, t, z
<1>8. /\ z.text = [s.text EXCEPT ![r] = t] /\ z.list = [s.list EXCEPT ![r] = t]
      /\ z.chain = [s.chain EXCEPT ![r] = Chain(t)]
      /\ z.facade = s.facade /\ z.count = s.count /\ z.off = s.off /\ z.slot = s.slot
      /\ z.gone = s.gone /\ z.pushed = s.pushed /\ z.hashes = s.hashes
      /\ z.out = s.out /\ z.pending = s.pending
  BY <1>4, <1>5, <1>7 DEF IsState
<1>9. IsState(z)
  <2>1. /\ z.text \in [Requests -> Seq(Tokens)] /\ z.list \in [Requests -> Seq(Tokens)]
        /\ z.chain \in [Requests -> Hashes]
    BY <1>4, <1>6, <1>8 DEF IsState
  <2> QED
    BY <1>7, <1>8, <2>1 DEF IsState
<1>10. OnlyHis(s, z, r, at)
  <2>1. \A q \in Requests \ {r} : s.slot[q] = at => at = NoSlot
    BY SlotIsHis DEF at
  <2> QED
    BY <1>2, <1>8, <2>1 DEF OnlyHis, IsState, at, Sound, SlotsAreOwn
<1>11. z.text[r] = t /\ z.list[r] = t /\ z.chain[r] = Chain(t) /\ z.slot[r] = at
  BY <1>8 DEF IsState, at
<1>12. at # NoSlot => /\ s.pushed[at] = Len(s.hashes[at]) /\ s.pushed[at] <= Len(C)
                      /\ s.hashes[at] = Prefix(C, s.pushed[at])
                      /\ s.pushed[at] \in 0 .. Len(C)
  BY <1>1, <1>2 DEF StockIsWhole, at, IsState
<1>13. at # NoSlot => s.pushed[at] <= Len(Chain(t)) /\ s.hashes[at] = Prefix(Chain(t), s.pushed[at])
  <2> DEFINE D == Chain(t)
             n == s.pushed[at]
             rest == From(D, Len(C) + 1)
  <2> SUFFICES ASSUME at # NoSlot
               PROVE  n <= Len(D) /\ Prefix(D, n) = Prefix(C, n)
    BY <1>12
  <2>1. D \in Seq(Seq(Tokens)) /\ C \in Seq(Seq(Tokens)) /\ Len(D) \in Nat /\ n \in 0 .. Len(C)
    BY <1>2, <1>6, <1>12, LenProperties DEF Hashes
  <2>2. rest = SubSeq(D, Len(C) + 1, Len(D))
    BY DEF From
  <2>3. rest \in Seq(Seq(Tokens))
    <3>1. \A i \in Len(C) + 1 .. Len(D) : D[i] \in Seq(Tokens)
      BY <1>2, <2>1, ElementOfSeq
    <3>2. Len(C) + 1 \in Int /\ Len(D) \in Int
      BY <1>2, <2>1
    <3> HIDE DEF rest, D
    <3> QED BY <2>2, <3>1, <3>2, SubSeqProperties
  <2>4. D = C \o rest
    BY <1>5
  <2> HIDE DEF C, D, n, rest
  <2>5. /\ Len(D) = Len(C) + Len(rest) /\ Len(rest) \in Nat
        /\ \A i \in 1 .. Len(C) + Len(rest) :
             D[i] = IF i <= Len(C) THEN C[i] ELSE rest[i - Len(C)]
    BY <2>1, <2>3, <2>4, ConcatProperties, LenProperties
  <2>6. n \in 0 .. Len(D) /\ n <= Len(D) /\ Len(C) \in Nat
    BY <1>2, <2>1, <2>5
  <2>7. /\ Prefix(D, n) \in Seq(Seq(Tokens)) /\ Len(Prefix(D, n)) = n
        /\ \A j \in 1 .. n : Prefix(D, n)[j] = D[j]
    BY <2>1, <2>6, PrefixFacts
  <2>8. /\ Prefix(C, n) \in Seq(Seq(Tokens)) /\ Len(Prefix(C, n)) = n
        /\ \A j \in 1 .. n : Prefix(C, n)[j] = C[j]
    BY <2>1, PrefixFacts
  <2>9. \A j \in 1 .. n : Prefix(D, n)[j] = Prefix(C, n)[j]
    <3> TAKE j \in 1 .. n
    <3>1. j \in 1 .. Len(C) + Len(rest) /\ j <= Len(C)
      <4>1. Len(C) \in Nat /\ Len(rest) \in Nat /\ n \in 0 .. Len(C)
        BY <2>1, <2>5, <2>6
      <4> QED BY <4>1
    <3> QED
      BY <2>5, <2>7, <2>8, <3>1
  <2> QED
    BY <2>6, <2>7, <2>8, <2>9, SeqEqual
<1>14. StockIsWhole(z, r)
  BY <1>6, <1>8, <1>11, <1>12, <1>13 DEF StockIsWhole, Hashed
<1>15. Sound(z)
  BY <1>2, <1>8, <1>9, <1>10, <1>14, OthersAreWhole DEF Whole
<1> QED
  BY <1>9, <1>15 DEF z

\* RustMirror.drop: whoever gets the slot next finds nothing in it.
THEOREM DropIsSound ==
  ASSUME StoreConstants, NEW s, IsState(s), Sound(s), NEW r \in Requests, s.slot[r] # NoSlot
  PROVE  IsState(Drop(s, r)) /\ Sound(Drop(s, r))
<1> DEFINE at == s.slot[r]
           z == Drop(s, r)
<1>1. at \in Slots /\ at # NoSlot
  BY DEF IsState
<1>2. z = [s EXCEPT !.slot[r] = NoSlot, !.gone = @ \cup {r}, !.pushed[at] = 0,
                    !.hashes[at] = << >>, !.out[at] = << >>, !.pending[at] = << >>]
  BY DEF Drop
<1> HIDE DEF at, z
<1>3. /\ z.slot = [s.slot EXCEPT ![r] = NoSlot] /\ z.gone = s.gone \cup {r}
      /\ z.pushed = [s.pushed EXCEPT ![at] = 0]
      /\ z.hashes = [s.hashes EXCEPT ![at] = << >>]
      /\ z.out = [s.out EXCEPT ![at] = << >>]
      /\ z.pending = [s.pending EXCEPT ![at] = << >>]
      /\ z.text = s.text /\ z.list = s.list /\ z.chain = s.chain
      /\ z.facade = s.facade /\ z.count = s.count /\ z.off = s.off
  BY <1>2 DEF IsState
<1>4. IsState(z)
  <2>1. /\ z.slot \in [Requests -> Slots \cup {NoSlot}] /\ z.pushed \in [Slots -> Nat]
        /\ z.hashes \in [Slots -> Hashes] /\ z.out \in [Slots -> Seq(Tokens)]
        /\ z.pending \in [Slots -> Seq(Tokens)] /\ z.gone \in SUBSET Requests
    BY <1>1, <1>3, EmptySeq DEF IsState, Hashes
  <2> QED
    BY <1>2, <1>3, <2>1 DEF IsState
<1>5. OnlyHis(s, z, r, at)
  <2>1. \A q \in Requests \ {r} : s.slot[q] # at
    BY <1>1, SlotIsHis DEF at
  <2> QED
    BY <1>1, <1>3, <2>1 DEF OnlyHis, IsState, at
<1>6. Sound(z)
  BY <1>1, <1>3, <1>4, <1>5, OthersAreWhole
<1> QED
  BY <1>4, <1>6 DEF z

\* add_request.
THEOREM ArrivedIsSound ==
  ASSUME StoreConstants, NEW prompt \in [Requests -> Seq(Tokens)]
  PROVE  IsState(Arrived(prompt)) /\ Sound(Arrived(prompt))
<1> DEFINE z == Arrived(prompt)
<1>1. ASSUME NEW r \in Requests
      PROVE  /\ prompt[r] \in Seq(Tokens) /\ Len(prompt[r]) \in Nat
             /\ Chain(prompt[r]) \in Hashes
             /\ Covers(Chain(prompt[r]),
                       From(prompt[r], Len(Chain(prompt[r])) * HashBlockSize + 1), prompt[r])
  BY LenProperties, ChainCovers
<1>2. IsState(z)
  BY <1>1, EmptySeq DEF IsState, Arrived, Hashes
<1>3. \A r \in Requests : Whole(z, r)
  BY <1>1 DEF Whole, StockIsWhole, Hashed, Arrived
<1>4. SlotsAreOwn(z)
  BY DEF SlotsAreOwn, Arrived
<1> QED
  BY <1>2, <1>3, <1>4 DEF Sound
==============================================================================
