----------------------- MODULE RunnerHandshakeProofs -----------------------
(***************************************************************************)
(* Every stash reaches its own step, results are read back in the order of *)
(* the steps, and every request is given the tokens its steps computed: in *)
(* either commit mode, for every number of requests, slots, launches and   *)
(* steps.                                                                  *)
(***************************************************************************)
EXTENDS RunnerHandshake, SequenceTheorems, FiniteSetTheorems, TLAPS

------------------------------------------------------------------------------
(* Sequences.                                                                *)

\* The last element of a list without repetitions, and the others.
LEMMA LastOne ==
  ASSUME NEW T, NEW q \in Seq(T), q # <<>>, IsInjective(q)
  PROVE  /\ Front(q) \in Seq(T) /\ IsInjective(Front(q)) /\ Last(q) \in T
         /\ Last(q) \in Range(q) /\ Last(q) \notin Range(Front(q))
         /\ Range(Front(q)) \subseteq Range(q)
<1> DEFINE n == Len(q)
<1>1. n \in Nat /\ n # 0 /\ DOMAIN q = 1 .. n /\ \A i \in 1 .. n : q[i] \in T
  BY LenProperties, EmptySeq, ElementOfSeq
<1>2. /\ Front(q) \in Seq(T) /\ DOMAIN Front(q) = 1 .. n - 1
      /\ \A i \in 1 .. n - 1 : Front(q)[i] = q[i]
  <2>1. Front(q) = [i \in 1 .. n - 1 |-> q[i]]
    BY <1>1 DEF Front
  <2>2. n - 1 \in Nat /\ \A i \in 1 .. n - 1 : q[i] \in T
    BY <1>1
  <2> HIDE DEF n
  <2> QED BY <2>1, <2>2, IsASeq
<1>a. Last(q) = q[n]
  BY DEF Last
<1> HIDE DEF n
<1>3. Last(q) = q[n] /\ n \in 1 .. n /\ \A i \in 1 .. n - 1 : i \in 1 .. n /\ i # n
  BY <1>1, <1>a
<1>4. IsInjective(Front(q))
  BY <1>1, <1>2, <1>3 DEF IsInjective
<1>5. Last(q) \in T /\ Last(q) \in Range(q)
  BY <1>1, <1>3 DEF Range
<1>6. Last(q) \notin Range(Front(q))
  BY <1>1, <1>2, <1>3 DEF Range, IsInjective
<1>7. Range(Front(q)) \subseteq Range(q)
  BY <1>1, <1>2, <1>3 DEF Range
<1> QED BY <1>2, <1>4, <1>5, <1>6, <1>7

\* Two lists put together.
LEMMA Together ==
  ASSUME NEW T, NEW q \in Seq(T), NEW r \in Seq(T)
  PROVE  /\ q \o r \in Seq(T) /\ Range(q \o r) = Range(q) \cup Range(r)
         /\ IsInjective(q) /\ IsInjective(r) /\ Range(q) \cap Range(r) = {}
              => IsInjective(q \o r)
<1> DEFINE n == Len(q)
<1>1. /\ q \o r \in Seq(T) /\ DOMAIN (q \o r) = 1 .. n + Len(r)
      /\ n \in Nat /\ Len(r) \in Nat /\ DOMAIN q = 1 .. n /\ DOMAIN r = 1 .. Len(r)
      /\ \A i \in 1 .. n + Len(r) : (q \o r)[i] = IF i <= n THEN q[i] ELSE r[i - n]
  BY ConcatProperties, LenProperties
<1> HIDE DEF n
<1>2. \A i \in 1 .. n + Len(r) : i \in 1 .. n \/ (i > n /\ i - n \in 1 .. Len(r))
  BY <1>1
<1>3. \A i \in 1 .. n : i \in 1 .. n + Len(r) /\ (q \o r)[i] = q[i]
  BY <1>1
<1>4. \A i \in 1 .. Len(r) : i + n \in 1 .. n + Len(r) /\ (q \o r)[i + n] = r[i]
  BY <1>1
<1>5. \A i \in 1 .. n + Len(r) :
        (i \in 1 .. n /\ (q \o r)[i] = q[i]) \/ (i > n /\ i - n \in 1 .. Len(r) /\ (q \o r)[i] = r[i - n])
  BY <1>1, <1>2
<1>6. Range(q \o r) = Range(q) \cup Range(r)
  <2>1. ASSUME NEW y \in Range(q \o r) PROVE y \in Range(q) \cup Range(r)
    BY <1>1, <1>5 DEF Range
  <2>2. ASSUME NEW i \in 1 .. n PROVE q[i] \in Range(q \o r)
    BY <1>1, <1>3 DEF Range
  <2>3. ASSUME NEW i \in 1 .. Len(r) PROVE r[i] \in Range(q \o r)
    BY <1>1, <1>4 DEF Range
  <2>4. Range(q) = {q[i] : i \in 1 .. n} /\ Range(r) = {r[i] : i \in 1 .. Len(r)}
    BY <1>1 DEF Range
  <2> QED BY <2>1, <2>2, <2>3, <2>4
<1>7. ASSUME IsInjective(q), IsInjective(r), Range(q) \cap Range(r) = {}
      PROVE  IsInjective(q \o r)
  <2> SUFFICES ASSUME NEW i \in 1 .. n + Len(r), NEW j \in 1 .. n + Len(r),
                      (q \o r)[i] = (q \o r)[j]
               PROVE  i = j
    BY <1>1 DEF IsInjective
  <2>1. CASE i \in 1 .. n /\ j \in 1 .. n
    BY <1>1, <1>3, <1>7, <2>1 DEF IsInjective
  <2>2. CASE i > n /\ j > n
    <3>1. i - n \in 1 .. Len(r) /\ j - n \in 1 .. Len(r) /\ r[i - n] = r[j - n]
      BY <1>1, <2>2
    <3>2. i - n = j - n
      BY <1>1, <1>7, <3>1 DEF IsInjective
    <3> QED BY <1>1, <3>2
  <2>3. ASSUME NEW k \in 1 .. n, NEW l \in 1 .. n + Len(r), l > n,
               (q \o r)[k] = (q \o r)[l]
        PROVE  FALSE
    <3>1. q[k] \in Range(q) /\ (q \o r)[k] = q[k]
      BY <1>1, <1>3 DEF Range
    <3>2. l - n \in 1 .. Len(r) /\ (q \o r)[l] = r[l - n]
      BY <1>1, <2>3
    <3>3. r[l - n] \in Range(r)
      BY <1>1, <3>2 DEF Range
    <3> QED BY <1>7, <2>3, <3>1, <3>2, <3>3
  <2>4. (i \in 1 .. n \/ i > n) /\ (j \in 1 .. n \/ j > n)
    BY <1>2
  <2> QED BY <2>1, <2>2, <2>3, <2>4
<1> QED BY <1>1, <1>6, <1>7

\* A finite set as a list has each element once.
LEMMA AsList ==
  ASSUME NEW S, IsFiniteSet(S)
  PROVE  SetToSeq(S) \in Seq(S) /\ IsInjective(SetToSeq(S)) /\ Range(SetToSeq(S)) \subseteq S
<1> DEFINE n == Cardinality(S)
<1>1. n \in Nat /\ ExistsBijection(1 .. n, S)
  BY FS_CardinalityType
<1>2. \E f \in [1 .. n -> S] : IsInjective(f)
  BY <1>1 DEF ExistsBijection, Bijection, Injection
<1>3. SetToSeq(S) \in [1 .. n -> S] /\ IsInjective(SetToSeq(S))
  BY <1>2 DEF SetToSeq
<1> HIDE DEF n
<1>4. SetToSeq(S) \in Seq(S)
  BY <1>1, <1>3, SeqDef
<1> QED BY <1>3, <1>4 DEF Range

------------------------------------------------------------------------------
(* Lists of tokens.                                                          *)

Token == Nat \X Nat

\* The tokens that the first n launches of step k compute.
Given(k, n) == {<<k, i>> : i \in 1 .. n}

LEMMA TokensAre ==
  ASSUME NEW k \in Nat, NEW n \in Nat
  PROVE  /\ Tokens(k, n) \in Seq(Token) /\ Len(Tokens(k, n)) = n
         /\ DOMAIN Tokens(k, n) = 1 .. n
         /\ \A i \in 1 .. n : Tokens(k, n)[i] = <<k, i>>
         /\ Range(Tokens(k, n)) = Given(k, n)
<1>1. /\ DOMAIN Tokens(k, n) = 1 .. n /\ \A i \in 1 .. n : Tokens(k, n)[i] = <<k, i>>
      /\ Tokens(k, n) = [i \in 1 .. n |-> <<k, i>>]
  BY DEF Tokens
<1>2. \A i \in 1 .. n : <<k, i>> \in Token
  BY DEF Token
<1>3. Tokens(k, n) \in Seq(Token) /\ Len(Tokens(k, n)) = n
  BY <1>1, <1>2, IsASeq, LenProperties
<1>4. Range(Tokens(k, n)) = Given(k, n)
  BY <1>1 DEF Range, Given
<1> QED BY <1>1, <1>3, <1>4

\* The tokens of a later step go on in order.
LEMMA Continued ==
  ASSUME NEW q \in Seq(Token), NEW k \in Nat, NEW n \in Nat,
         InOrder(q), \A t \in Range(q) : t[1] < k
  PROVE  /\ q \o Tokens(k, n) \in Seq(Token) /\ InOrder(q \o Tokens(k, n))
         /\ Range(q \o Tokens(k, n)) = Range(q) \cup Given(k, n)
<1> DEFINE r == Tokens(k, n)
           m == Len(q)
<1>1. /\ r \in Seq(Token) /\ Len(r) = n /\ \A i \in 1 .. n : r[i] = <<k, i>>
      /\ Range(r) = Given(k, n)
  BY TokensAre
<1> HIDE DEF r
<1>2. q \o r \in Seq(Token) /\ Range(q \o r) = Range(q) \cup Given(k, n)
  BY <1>1, Together
<1>3. /\ DOMAIN (q \o r) = 1 .. m + n /\ m \in Nat /\ DOMAIN q = 1 .. m
      /\ \A i \in 1 .. m + n : (q \o r)[i] = IF i <= m THEN q[i] ELSE r[i - m]
  <2>1. m \in Nat /\ DOMAIN q = 1 .. m
    BY LenProperties
  <2>2. /\ q \o r \in Seq(Token) /\ Len(q \o r) = m + Len(r)
        /\ \A i \in 1 .. m + Len(r) : (q \o r)[i] = IF i <= m THEN q[i] ELSE r[i - m]
    BY <1>1, ConcatProperties
  <2>3. DOMAIN (q \o r) = 1 .. m + n
    BY <1>1, <2>2, LenProperties
  <2> HIDE DEF m
  <2> QED BY <1>1, <2>1, <2>2, <2>3
<1> HIDE DEF m
<1>4. InOrder(q \o r)
  <2> SUFFICES ASSUME NEW i \in 1 .. m + n, NEW j \in 1 .. m + n, i < j
               PROVE  Earlier((q \o r)[i], (q \o r)[j])
    BY <1>3 DEF InOrder
  <2>1. CASE j <= m
    <3>1. i \in 1 .. m /\ j \in 1 .. m /\ (q \o r)[i] = q[i] /\ (q \o r)[j] = q[j]
      BY <1>3, <2>1
    <3> QED BY <1>3, <3>1 DEF InOrder
  <2>2. CASE j > m
    <3>1. j - m \in 1 .. n /\ (q \o r)[j] = r[j - m]
      BY <1>3, <2>2
    <3>2. (q \o r)[j] = <<k, j - m>>
      BY <1>1, <3>1
    <3>3. CASE i <= m
      <4>1. i \in 1 .. m /\ (q \o r)[i] = q[i]
        BY <1>3, <3>3
      <4>2. q[i] \in Range(q)
        BY <1>3, <4>1 DEF Range
      <4> QED BY <3>2, <4>1, <4>2 DEF Earlier
    <3>4. CASE i > m
      <4>1. i - m \in 1 .. n /\ (q \o r)[i] = r[i - m]
        BY <1>3, <3>4
      <4>2. (q \o r)[i] = <<k, i - m>> /\ i - m < j - m
        BY <1>1, <1>3, <4>1
      <4> QED BY <3>2, <4>2 DEF Earlier
    <3> QED BY <1>3, <3>3, <3>4
  <2> QED BY <1>3, <2>1, <2>2
<1> QED BY <1>2, <1>4 DEF r

\* What a request has after step k, from what it had: all the tokens of the
\* steps, if it took all of the step's, and the first of them otherwise.
LEMMA TakesStep ==
  ASSUME NEW q \in Seq(Token), NEW had \in SUBSET Token, NEW k \in Nat, NEW n \in Nat,
         NEW m \in 0 .. n, AllOf(q, had), \A t \in had : t[1] < k
  PROVE  /\ q \o Tokens(k, m) \in Seq(Token)
         /\ m = n => AllOf(q \o Tokens(k, m), had \cup Given(k, n))
         /\ FirstOf(q \o Tokens(k, m), had \cup Given(k, n))
<1>1. m \in Nat /\ InOrder(q) /\ Range(q) = had
  BY DEF AllOf
<1>2. /\ q \o Tokens(k, m) \in Seq(Token) /\ InOrder(q \o Tokens(k, m))
      /\ Range(q \o Tokens(k, m)) = had \cup Given(k, m)
  BY <1>1, Continued
<1>3. Given(k, m) \subseteq Given(k, n)
  BY <1>1 DEF Given
<1>4. ASSUME NEW t \in had \cup Given(k, m), NEW s \in had \cup Given(k, n), Earlier(s, t)
      PROVE  s \in had \cup Given(k, m)
  <2>1. SUFFICES ASSUME s \in Given(k, n) PROVE s \in Given(k, m)
    OBVIOUS
  <2>2. PICK i \in 1 .. n : s = <<k, i>>
    BY <2>1 DEF Given
  <2>3. t \notin had
    <3>1. SUFFICES ASSUME t \in had PROVE FALSE
      OBVIOUS
    <3>2. t[1] < k /\ t[1] \in Nat /\ s[1] = k
      BY <2>2, <3>1 DEF Token
    <3> QED BY <1>4, <3>2 DEF Earlier
  <2>4. PICK j \in 1 .. m : t = <<k, j>>
    BY <1>4, <2>3 DEF Given
  <2>5. i < j
    BY <1>4, <2>2, <2>4 DEF Earlier
  <2>6. i \in 1 .. m
    BY <1>1, <2>5
  <2> QED BY <2>2, <2>6 DEF Given
<1>5. FirstOf(q \o Tokens(k, m), had \cup Given(k, n))
  <2>1. Range(q \o Tokens(k, m)) \subseteq had \cup Given(k, n)
    BY <1>2, <1>3
  <2> QED BY <1>2, <1>4, <2>1 DEF FirstOf
<1>6. m = n => AllOf(q \o Tokens(k, m), had \cup Given(k, n))
  BY <1>2 DEF AllOf
<1> QED BY <1>2, <1>5, <1>6

\* A step's tokens come after those of the steps before it.
LEMMA FirstStays ==
  ASSUME NEW q, NEW had \in SUBSET Token, NEW k \in Nat, NEW n \in Nat, FirstOf(q, had),
         \A t \in had : t[1] < k
  PROVE  FirstOf(q, had \cup Given(k, n))
<1>1. InOrder(q) /\ Range(q) \subseteq had
  BY DEF FirstOf
<1>2. ASSUME NEW t \in Range(q), NEW s \in Given(k, n), Earlier(s, t) PROVE FALSE
  <2>1. t[1] < k /\ t[1] \in Nat
    BY <1>1 DEF Token
  <2>2. s[1] = k
    BY DEF Given
  <2> QED BY <1>2, <2>1, <2>2 DEF Earlier
<1> QED BY <1>1, <1>2 DEF FirstOf

------------------------------------------------------------------------------
(* The inductive invariant.                                                  *)

EntryType == [slot: Ring, stash: StashType, took: 1 .. MaxLaunches]
StatusType == {"new", "waiting", "running", "finished"}

Types ==
  /\ updateMode \in CommitModes
  /\ steps \in Seq(StepType) /\ Scheduled <= MaxSteps
  /\ updated \in Nat /\ sampled \in Nat /\ seq \in Nat
  /\ updated <= sampled /\ sampled <= Scheduled /\ seq <= Scheduled
  /\ stash \in StashType \cup {None} /\ done \in DoneType \cup {None}
  /\ pending \in Seq(EntryType) /\ DOMAIN ring = Ring
  /\ live \in {"unarmed", "live", "refused"}
  /\ slotOf \in [Req -> Slots \cup {NoSlot}] /\ freeSlots \in Seq(Slots)
  /\ known \subseteq Req
  /\ status \in [Req -> StatusType]
  /\ store \in [Req -> Seq(Token)]

\* The registry: a slot belongs to one request that waits or runs, or is free.
Registry ==
  /\ \A r \in Req : slotOf[r] # NoSlot <=> status[r] \in {"waiting", "running"}
  /\ \A q, r \in Req : slotOf[q] = slotOf[r] /\ slotOf[q] # NoSlot => q = r
  /\ \A r \in Req : slotOf[r] \notin Range(freeSlots)
  /\ IsInjective(freeSlots)

\* decide() has seen the requests of the steps updated so far.
Seen == \A r \in known : status[r] = "running" /\ \E k \in 1 .. updated : r \in steps[k].batch

\* A request runs from its first step on, and is in every step until it ends.
Batches ==
  /\ \A k \in 1 .. Scheduled : \A r \in steps[k].batch : status[r] \in {"running", "finished"}
  /\ \A j, k \in 1 .. Scheduled : j < k =>
       \A r \in steps[j].batch : status[r] = "running" => r \in steps[k].batch
  /\ \A r \in Req : status[r] \in {"new", "waiting"} => store[r] = <<>>

\* Stashes are numbered in the order of their steps.
Stamped ==
  /\ \A k \in 1 .. Scheduled : steps[k].seq <= seq
  /\ \A j, k \in 1 .. Scheduled :
       j < k /\ steps[j].seq # 0 /\ steps[k].seq # 0 => steps[j].seq < steps[k].seq

\* A stash is of its step: the number, the rows, and the slots of those that
\* still run, though the others may have gone to other requests.
IsOf(s) ==
  /\ s.step <= Scheduled /\ s.seq = steps[s.step].seq /\ s.seq # 0
  /\ steps[s.step].budget > 0
  /\ DOMAIN s.slots = steps[s.step].batch /\ IsInjective(s.slots)
  /\ \A r \in DOMAIN s.slots : status[r] = "running" => slotOf[r] = s.slots[r]

Stashes == (stash # None => IsOf(stash)) /\ \A i \in DOMAIN pending : IsOf(pending[i].stash)

Modes == (pending # <<>> => updateMode) /\ (done # None => ~updateMode)

Inv == /\ Types /\ Registry /\ Seen /\ Batches /\ Stamped /\ Stashes /\ Modes
       /\ StashSurvives /\ RingIsOwned /\ DoneIsNext /\ TokensAsComputed

------------------------------------------------------------------------------
(* The records.                                                              *)

LEMMA StepFields ==
  /\ \A s \in StepType : /\ s.batch \subseteq Req /\ s.seq \in 0 .. MaxSteps
                         /\ s.budget \in 0 .. MaxLaunches /\ s.ran \in 0 .. MaxLaunches
  /\ \A b \in SUBSET Req : \A q \in 0 .. MaxSteps : \A n, m \in 0 .. MaxLaunches :
       [batch |-> b, seq |-> q, budget |-> n, ran |-> m] \in StepType
  /\ \A s \in StepType : \A n \in 0 .. MaxLaunches :
       LET t == [s EXCEPT !.ran = n]
       IN  t \in StepType /\ t.batch = s.batch /\ t.seq = s.seq /\ t.budget = s.budget
           /\ t.ran = n
BY DEF StepType

LEMMA StashFields ==
  /\ \A s \in StashType : /\ s.seq \in Nat /\ s.step \in 1 .. MaxSteps
                          /\ DOMAIN s.slots \subseteq Req
                          /\ \A r \in DOMAIN s.slots : s.slots[r] \in Slots
  /\ \A q \in Nat : \A k \in 1 .. MaxSteps : \A B \in SUBSET Req : \A f \in [B -> Slots] :
       [seq |-> q, step |-> k, slots |-> f] \in StashType
  /\ \A e \in EntryType : e.slot \in Ring /\ e.stash \in StashType /\ e.took \in 1 .. MaxLaunches
  /\ \A i \in Ring : \A s \in StashType : \A n \in 1 .. MaxLaunches :
       [slot |-> i, stash |-> s, took |-> n] \in EntryType
  /\ \A d \in DoneType : d.step \in 1 .. MaxSteps
  /\ \A k \in 1 .. MaxSteps : \A s \in StashType : [step |-> k, stash |-> s] \in DoneType
<1>1. \A s \in StashType : /\ s.seq \in Nat /\ s.step \in 1 .. MaxSteps
                           /\ DOMAIN s.slots \subseteq Req
                           /\ \A r \in DOMAIN s.slots : s.slots[r] \in Slots
  <2> SUFFICES ASSUME NEW s \in StashType
               PROVE  /\ s.seq \in Nat /\ s.step \in 1 .. MaxSteps
                      /\ DOMAIN s.slots \subseteq Req
                      /\ \A r \in DOMAIN s.slots : s.slots[r] \in Slots
    OBVIOUS
  <2>1. s.seq \in Nat /\ s.step \in 1 .. MaxSteps
        /\ s.slots \in UNION {[B -> Slots] : B \in SUBSET Req}
    BY DEF StashType
  <2>2. PICK B \in SUBSET Req : s.slots \in [B -> Slots]
    BY <2>1
  <2> QED BY <2>1, <2>2
<1>2. \A q \in Nat : \A k \in 1 .. MaxSteps : \A B \in SUBSET Req : \A f \in [B -> Slots] :
       [seq |-> q, step |-> k, slots |-> f] \in StashType
  BY DEF StashType
<1>3. /\ \A e \in EntryType : e.slot \in Ring /\ e.stash \in StashType /\ e.took \in 1 .. MaxLaunches
      /\ \A i \in Ring : \A s \in StashType : \A n \in 1 .. MaxLaunches :
           [slot |-> i, stash |-> s, took |-> n] \in EntryType
  BY DEF EntryType
<1>4. /\ \A d \in DoneType : d.step \in 1 .. MaxSteps
      /\ \A k \in 1 .. MaxSteps : \A s \in StashType : [step |-> k, stash |-> s] \in DoneType
  BY DEF DoneType
<1> QED BY <1>1, <1>2, <1>3, <1>4

LEMMA Elements ==
  ASSUME Types
  PROVE  /\ Scheduled \in Nat /\ DOMAIN steps = 1 .. Scheduled
         /\ \A k \in 1 .. Scheduled : steps[k] \in StepType
         /\ DOMAIN pending = 1 .. Len(pending) /\ Len(pending) \in Nat
         /\ \A i \in DOMAIN pending : pending[i] \in EntryType
<1>1. steps \in Seq(StepType) /\ pending \in Seq(EntryType)
  BY DEF Types
<1> QED BY <1>1, LenProperties, ElementOfSeq DEF Scheduled

------------------------------------------------------------------------------
(* What the steps keep.                                                      *)

\* Steps stay as they were scheduled.
KeptSteps ==
  /\ steps' \in Seq(StepType) /\ Scheduled <= Scheduled'
  /\ \A k \in 1 .. Scheduled : /\ steps'[k].batch = steps[k].batch
                               /\ steps'[k].seq = steps[k].seq
                               /\ steps'[k].budget = steps[k].budget

\* A request that has run runs on where it was, or has ended.
Settled ==
  \A r \in Req : status[r] \in {"running", "finished"} =>
    /\ status'[r] \in {"running", "finished"}
    /\ status'[r] = "running" => status[r] = "running" /\ slotOf'[r] = slotOf[r]

LEMMA StashStays ==
  ASSUME Types, Batches, KeptSteps, Settled, NEW s \in StashType, IsOf(s)
  PROVE  IsOf(s)'
<1>1. s.step \in 1 .. Scheduled /\ Scheduled \in Nat
  BY Elements, StashFields DEF IsOf
<1>2. /\ s.step <= Scheduled' /\ steps'[s.step].seq = steps[s.step].seq
      /\ steps'[s.step].budget = steps[s.step].budget
      /\ steps'[s.step].batch = steps[s.step].batch
  <2>1. Scheduled' \in Nat
    BY LenProperties DEF KeptSteps, Scheduled
  <2> QED BY <1>1, <2>1 DEF KeptSteps
<1>3. \A r \in DOMAIN s.slots : status'[r] = "running" => slotOf'[r] = s.slots[r]
  <2> SUFFICES ASSUME NEW r \in DOMAIN s.slots, status'[r] = "running"
               PROVE  slotOf'[r] = s.slots[r]
    OBVIOUS
  <2>1. r \in Req /\ status[r] \in {"running", "finished"}
    BY <1>1, StashFields DEF IsOf, Batches
  <2> QED BY <2>1 DEF Settled, IsOf
<1> QED BY <1>2, <1>3 DEF IsOf

LEMMA StashesStay ==
  ASSUME Types, Batches, Stashes, KeptSteps, Settled,
         stash' # None => stash' = stash,
         \A i \in DOMAIN pending' : \E j \in DOMAIN pending : pending'[i] = pending[j]
  PROVE  Stashes'
<1>1. ASSUME stash' # None PROVE IsOf(stash)'
  <2>1. stash' = stash /\ stash \in StashType /\ IsOf(stash)
    BY <1>1 DEF Types, Stashes
  <2>2. \A s \in StashType : IsOf(s) => IsOf(s)'
    BY StashStays
  <2>3. IsOf(stash) => (stash' = stash => IsOf(stash)')
    BY <2>1, <2>2 DEF IsOf
  <2> QED BY <2>1, <2>3
<1>2. ASSUME NEW i \in DOMAIN pending' PROVE IsOf(pending[i].stash)'
  <2>1. PICK j \in DOMAIN pending : pending'[i] = pending[j]
    OBVIOUS
  <2> DEFINE s == pending[j].stash
  <2>2. s \in StashType /\ IsOf(s)
    BY Elements, StashFields DEF Stashes
  <2>3. \A u \in StashType : IsOf(u) => IsOf(u)'
    BY StashStays
  <2> QED BY <2>1, <2>2, <2>3 DEF IsOf
<1> QED BY <1>1, <1>2 DEF Stashes

\* Stamps stay in order while the steps keep them.
LEMMA SameSteps ==
  ASSUME Types, Batches, Stamped, KeptSteps, Settled, Scheduled' = Scheduled, seq' = seq,
         \A r \in Req : status'[r] \in {"new", "waiting"} =>
           status[r] \in {"new", "waiting"} /\ store'[r] = store[r]
  PROVE  Batches' /\ Stamped'
<1>1. Stamped'
  BY Elements DEF Stamped, KeptSteps
<1>2. \A k \in 1 .. Scheduled : \A r \in steps[k].batch :
        r \in Req /\ status'[r] \in {"running", "finished"}
        /\ (status'[r] = "running" => status[r] = "running")
  BY Elements, StepFields DEF Batches, Settled
<1>3. Batches'
  <2>1. \A k \in 1 .. Scheduled : steps'[k].batch = steps[k].batch
    BY DEF KeptSteps
  <2>2. /\ \A k \in 1 .. Scheduled : \A r \in steps'[k].batch : status'[r] \in {"running", "finished"}
        /\ \A j, k \in 1 .. Scheduled : j < k =>
             \A r \in steps'[j].batch : status'[r] = "running" => r \in steps'[k].batch
    BY <1>2, <2>1 DEF Batches
  <2>3. \A r \in Req : status'[r] \in {"new", "waiting"} => store'[r] = <<>>
    BY DEF Batches
  <2> QED BY <2>2, <2>3 DEF Batches
<1> QED BY <1>1, <1>3

------------------------------------------------------------------------------
(* What the steps computed.                                                  *)

LEMMA AppliedIs ==
  ASSUME Types, DoneIsNext
  PROVE  Applied \in Nat /\ Applied <= sampled /\ Applied <= Scheduled /\ Scheduled \in Nat
<1>1. updated \in Nat /\ sampled \in Nat /\ updated <= sampled /\ sampled <= Scheduled
      /\ Scheduled \in Nat
  BY Elements DEF Types
<1>2. CASE done = None
  BY <1>1, <1>2 DEF Applied
<1>3. CASE done # None
  BY <1>1, <1>3 DEF Applied, DoneIsNext
<1> QED BY <1>2, <1>3

LEMMA ComputedIs ==
  ASSUME Types, DoneIsNext, NEW r \in Req
  PROVE  Computed(r) \in SUBSET Token /\ \A t \in Computed(r) : t[1] <= Applied /\ t[1] \in Nat
<1>1. Applied \in Nat /\ Applied <= Scheduled /\ Scheduled \in Nat
  BY AppliedIs
<1>2. \A k \in 1 .. Applied : k \in Nat /\ k <= Applied
  BY <1>1
<1>3. ASSUME NEW t \in Computed(r) PROVE t \in Token /\ t[1] <= Applied /\ t[1] \in Nat
  <2>1. PICK k \in 1 .. Applied : \E i \in 1 .. steps[k].ran : t = <<k, i>>
    BY DEF Computed
  <2>2. PICK i \in 1 .. steps[k].ran : t = <<k, i>>
    BY <2>1
  <2>3. i \in Nat /\ k \in Nat
    <3>1. k \in 1 .. Scheduled
      BY <1>1
    <3>2. steps[k].ran \in Nat
      BY <3>1, Elements, StepFields, HandshakeAssumption
    <3> QED BY <1>2, <3>2
  <2> QED BY <1>2, <2>2, <2>3 DEF Token
<1> QED BY <1>3

\* Nothing more is applied: the same tokens.
LEMMA SameComputed ==
  ASSUME Applied' = Applied, NEW r \in Req,
         \A k \in 1 .. Applied : steps'[k].batch = steps[k].batch /\ steps'[k].ran = steps[k].ran
  PROVE  Computed(r)' = Computed(r)
BY DEF Computed

\* One more step is applied: its tokens, if the request is in it.
LEMMA MoreComputed ==
  ASSUME Types, DoneIsNext, Applied' = Applied + 1, NEW r \in Req,
         \A k \in 1 .. Applied : steps'[k].batch = steps[k].batch /\ steps'[k].ran = steps[k].ran
  PROVE  Computed(r)' = Computed(r) \cup (IF r \in steps'[Applied + 1].batch
                                          THEN Given(Applied + 1, steps'[Applied + 1].ran) ELSE {})
<1> DEFINE n == Applied
           of(st, k) == {<<k, i>> : i \in 1 .. st[k].ran}
<1>1. n \in Nat
  BY AppliedIs
<1>2. /\ Computed(r) = UNION {of(steps, k) : k \in {j \in 1 .. n : r \in steps[j].batch}}
      /\ Computed(r)' = UNION {of(steps', k) : k \in {j \in 1 .. n + 1 : r \in steps'[j].batch}}
  BY DEF Computed
<1>3. \A k \in 1 .. n : of(steps', k) = of(steps, k)
  OBVIOUS
<1>4. of(steps', n + 1) = Given(n + 1, steps'[n + 1].ran)
  BY DEF Given
<1> HIDE DEF of
<1>a. \A k \in 1 .. n : steps'[k].batch = steps[k].batch
  OBVIOUS
<1> HIDE DEF n
<1>5. n + 1 \in 1 .. n + 1 /\ \A k \in 1 .. n + 1 : k \in 1 .. n \/ k = n + 1
  BY <1>1
<1>6. \A k \in 1 .. n : k \in 1 .. n + 1
  BY <1>1
<1>7. Computed(r)' \subseteq Computed(r) \cup (IF r \in steps'[n + 1].batch
                                              THEN of(steps', n + 1) ELSE {})
  BY <1>2, <1>3, <1>5, <1>a
<1>8. Computed(r) \subseteq Computed(r)'
  BY <1>2, <1>3, <1>6, <1>a
<1>9. r \in steps'[n + 1].batch => of(steps', n + 1) \subseteq Computed(r)'
  BY <1>2, <1>5
<1> QED BY <1>4, <1>7, <1>8, <1>9 DEF n

LEMMA NothingYet == \A q : q = <<>> => AllOf(q, {})
BY DEF AllOf, InOrder, Range

\* What a request has, whether or not it is over.
LEMMA WhatEachHas ==
  ASSUME Types, Batches, DoneIsNext, TokensAsComputed, NEW r \in Req
  PROVE  /\ FirstOf(store[r], Computed(r))
         /\ status[r] # "finished" => AllOf(store[r], Computed(r))
<1>1. status[r] \in StatusType
  BY DEF Types
<1>2. AllOf(store[r], Computed(r)) => FirstOf(store[r], Computed(r))
  BY DEF AllOf, FirstOf
<1>3. CASE status[r] \in {"new", "waiting"}
  <2>1. \A k \in 1 .. Applied : r \notin steps[k].batch
    <3> SUFFICES ASSUME NEW k \in 1 .. Applied, r \in steps[k].batch PROVE FALSE
      OBVIOUS
    <3>1. k \in 1 .. Scheduled
      BY AppliedIs
    <3> QED BY <1>3, <3>1 DEF Batches
  <2>2. Computed(r) = {}
    BY <2>1 DEF Computed
  <2>3. AllOf(store[r], {})
    BY <1>3, NothingYet DEF Batches
  <2> QED BY <1>2, <2>2, <2>3
<1>4. CASE status[r] = "running"
  BY <1>2, <1>4 DEF TokensAsComputed
<1>5. CASE status[r] = "finished"
  BY <1>5 DEF TokensAsComputed
<1> QED BY <1>1, <1>3, <1>4, <1>5 DEF StatusType

\* No token is given and no step applied.
LEMMA SameTokens ==
  ASSUME Types, Batches, DoneIsNext, TokensAsComputed, Applied' = Applied, store' = store,
         \A k \in 1 .. Applied : steps'[k].batch = steps[k].batch /\ steps'[k].ran = steps[k].ran,
         \A r \in Req : status'[r] = "running" => status[r] # "finished"
  PROVE  TokensAsComputed'
<1> SUFFICES ASSUME NEW r \in Req
             PROVE  /\ status'[r] = "running" => AllOf(store'[r], Computed(r)')
                    /\ status'[r] = "finished" => FirstOf(store'[r], Computed(r)')
  BY DEF TokensAsComputed
<1>1. Computed(r)' = Computed(r)
  BY SameComputed
<1> QED BY <1>1, WhatEachHas

------------------------------------------------------------------------------
(* Forgetting requests.                                                      *)

LEMMA Forgotten ==
  ASSUME Types, Registry, NEW gone, gone \subseteq {r \in Req : status[r] \in {"waiting", "running"}},
         Forget(gone)
  PROVE  /\ Registry'
         /\ slotOf' \in [Req -> Slots \cup {NoSlot}] /\ freeSlots' \in Seq(Slots)
         /\ status' \in [Req -> StatusType]
         /\ \A r \in Req : /\ r \in gone => status'[r] = "finished"
                           /\ r \notin gone => status'[r] = status[r] /\ slotOf'[r] = slotOf[r]
         /\ Settled
<1> DEFINE back == SetToSeq({slotOf[r] : r \in gone})
<1>0. /\ slotOf \in [Req -> Slots \cup {NoSlot}] /\ freeSlots \in Seq(Slots)
      /\ status \in [Req -> StatusType] /\ gone \subseteq Req
  BY DEF Types
<1>1. /\ slotOf' \in [Req -> Slots \cup {NoSlot}] /\ status' \in [Req -> StatusType]
      /\ \A r \in Req : /\ r \in gone => status'[r] = "finished" /\ slotOf'[r] = NoSlot
                        /\ r \notin gone => status'[r] = status[r] /\ slotOf'[r] = slotOf[r]
      /\ freeSlots' = freeSlots \o back
  BY <1>0 DEF Forget, StatusType
<1>2. /\ {slotOf[r] : r \in gone} \subseteq Slots /\ NoSlot \notin Slots
      /\ IsFiniteSet({slotOf[r] : r \in gone})
  <2>1. \A r \in gone : slotOf[r] # NoSlot /\ slotOf[r] \in Slots \cup {NoSlot}
    BY <1>0 DEF Registry
  <2>2. {slotOf[r] : r \in gone} \subseteq Slots
    BY <2>1
  <2> QED BY <2>2, HandshakeAssumption, FS_Subset
<1>3. /\ back \in Seq(Slots) /\ IsInjective(back) /\ Range(back) \subseteq {slotOf[r] : r \in gone}
  <2> DEFINE S == {slotOf[r] : r \in gone}
  <2>1. back \in Seq(S) /\ IsInjective(back) /\ Range(back) \subseteq S
    BY <1>2, AsList
  <2>2. Seq(S) \subseteq Seq(Slots)
    <3> HIDE DEF S, back
    <3>1. S \subseteq Slots
      BY <1>2 DEF S
    <3> SUFFICES ASSUME NEW q \in Seq(S) PROVE q \in Seq(Slots)
      OBVIOUS
    <3>2. Len(q) \in Nat /\ q = [i \in 1 .. Len(q) |-> q[i]] /\ \A i \in 1 .. Len(q) : q[i] \in S
      BY LenProperties, ElementOfSeq
    <3>3. \A i \in 1 .. Len(q) : q[i] \in Slots
      BY <3>1, <3>2
    <3>4. [i \in 1 .. Len(q) |-> q[i]] \in Seq(Slots)
      BY <3>2, <3>3, IsASeq
    <3> QED BY <3>2, <3>4
  <2> QED BY <2>1, <2>2
<1> HIDE DEF back
<1>4. \A r \in gone : slotOf[r] \notin Range(freeSlots)
  BY <1>0 DEF Registry
<1>5. /\ freeSlots' \in Seq(Slots) /\ IsInjective(freeSlots')
      /\ Range(freeSlots') = Range(freeSlots) \cup Range(back)
  <2>1. Range(freeSlots) \cap Range(back) = {}
    BY <1>3, <1>4
  <2>2. IsInjective(freeSlots)
    BY DEF Registry
  <2> QED BY <1>0, <1>1, <1>3, <2>1, <2>2, Together
<1>6. \A r \in Req : slotOf'[r] # NoSlot <=> status'[r] \in {"waiting", "running"}
  BY <1>0, <1>1 DEF Registry
<1>7. \A q, r \in Req : slotOf'[q] = slotOf'[r] /\ slotOf'[q] # NoSlot => q = r
  BY <1>0, <1>1 DEF Registry
<1>8. ASSUME NEW r \in Req PROVE slotOf'[r] \notin Range(freeSlots')
  <2>1. CASE r \in gone
    <3>1. Range(freeSlots') \subseteq Slots
      <4>1. \A q \in Seq(Slots) : Range(q) \subseteq Slots
        BY LenProperties, ElementOfSeq DEF Range
      <4> QED BY <1>5, <4>1
    <3> QED BY <1>1, <1>2, <2>1, <3>1
  <2>2. CASE r \notin gone
    <3>1. slotOf'[r] = slotOf[r] /\ slotOf[r] \notin Range(freeSlots)
      BY <1>1, <2>2 DEF Registry
    <3>2. slotOf[r] \notin {slotOf[q] : q \in gone}
      BY <1>0, <2>2 DEF Registry
    <3> QED BY <1>3, <1>5, <3>1, <3>2
  <2> QED BY <2>1, <2>2
<1>9. Settled
  BY <1>1 DEF Settled
<1> QED BY <1>1, <1>5, <1>6, <1>7, <1>8, <1>9 DEF Registry

------------------------------------------------------------------------------
(* The steps of the system: the input thread, aborts and arming.             *)

LEMMA Initially == Init => Inv
<1> SUFFICES ASSUME Init PROVE Inv
  OBVIOUS
<1>1. /\ updateMode \in CommitModes /\ steps = <<>> /\ sampled = 0 /\ updated = 0 /\ seq = 0
      /\ DOMAIN ring = Ring
      /\ stash = None /\ pending = <<>> /\ done = None /\ live = "unarmed"
      /\ slotOf = [r \in Req |-> NoSlot] /\ freeSlots = SetToSeq(Slots) /\ known = {}
      /\ status = [r \in Req |-> "new"] /\ store = [r \in Req |-> <<>>]
  BY DEF Init
<1>2. Scheduled = 0 /\ 0 <= MaxSteps /\ DOMAIN pending = {}
  BY <1>1, HandshakeAssumption DEF Scheduled
<1>3. freeSlots \in Seq(Slots) /\ IsInjective(freeSlots) /\ Range(freeSlots) \subseteq Slots
  BY <1>1, AsList, HandshakeAssumption
<1>4. Types
  <2>1. /\ steps \in Seq(StepType) /\ pending \in Seq(EntryType)
        /\ store \in [Req -> Seq(Token)] /\ status \in [Req -> StatusType]
        /\ slotOf \in [Req -> Slots \cup {NoSlot}]
    BY <1>1 DEF StatusType
  <2> QED BY <1>1, <1>2, <1>3, <2>1 DEF Types
<1>5. Registry
  BY <1>1, <1>3, HandshakeAssumption DEF Registry
<1>6. Seen /\ Batches /\ Stamped
  <2>1. 1 .. Scheduled = {}
    BY <1>2
  <2> QED BY <1>1, <2>1 DEF Seen, Batches, Stamped
<1>7. Stashes /\ Modes /\ RingIsOwned /\ DoneIsNext
  BY <1>1, <1>2 DEF Stashes, Modes, RingIsOwned, DoneIsNext
<1>8. StashSurvives
  BY <1>1, <1>2 DEF StashSurvives
<1>9. TokensAsComputed
  BY <1>1 DEF TokensAsComputed
<1> QED BY <1>4, <1>5, <1>6, <1>7, <1>8, <1>9 DEF Inv

LEMMA Stutters == Inv /\ UNCHANGED vars => Inv'
<1> SUFFICES ASSUME Inv, UNCHANGED vars PROVE Inv'
  OBVIOUS
<1>1. UNCHANGED <<updateMode, steps, sampled, updated, seq, stash, pending, done, live, ring,
                  slotOf, freeSlots, known, status, store>>
  BY DEF vars, runnerState, registry
<1>2. Types' /\ Registry' /\ Seen' /\ Batches' /\ Stamped'
  BY <1>1 DEF Inv, Types, Registry, Seen, Batches, Stamped, Scheduled
<1>3. Stashes' /\ Modes' /\ StashSurvives' /\ RingIsOwned' /\ DoneIsNext'
  BY <1>1 DEF Inv, Stashes, IsOf, Modes, StashSurvives, RingIsOwned, DoneIsNext, Scheduled
<1>4. TokensAsComputed'
  <2>1. Applied' = Applied
    BY <1>1 DEF Applied
  <2> QED BY <1>1, <2>1, SameTokens DEF Inv
<1> QED BY <1>2, <1>3, <1>4 DEF Inv

\* The steps, the launches and the stash stay: what goes with the requests.
LEMMA OnlyRequestsMove ==
  ASSUME Inv, Types', Registry', Seen', Settled,
         UNCHANGED <<updateMode, steps, sampled, updated, seq, stash, done, ring, store>>,
         pending' = pending \/ pending' = <<>>,
         \A r \in Req : status'[r] \in {"new", "waiting"} => status[r] \in {"new", "waiting"},
         \A r \in Req : status'[r] = "running" => status[r] = "running"
  PROVE  Inv'
<1>1. /\ Types /\ Batches /\ Stamped /\ Stashes /\ Modes /\ StashSurvives /\ RingIsOwned
      /\ DoneIsNext /\ TokensAsComputed
  BY DEF Inv
<1>2. KeptSteps /\ Scheduled' = Scheduled
  BY <1>1, Elements DEF KeptSteps, Scheduled, Types
<1>3. Batches' /\ Stamped'
  BY <1>1, <1>2, SameSteps
<1>4. pending' = <<>> => DOMAIN pending' = {}
  OBVIOUS
<1>5. Stashes'
  BY <1>1, <1>2, <1>4, StashesStay
<1>6. Modes' /\ StashSurvives' /\ DoneIsNext'
  BY <1>1, <1>2 DEF Modes, StashSurvives, DoneIsNext
<1>7. RingIsOwned'
  BY <1>1, <1>4 DEF RingIsOwned
<1>8. Applied' = Applied
  BY DEF Applied
<1>9. TokensAsComputed'
  BY <1>1, <1>8, SameTokens
<1> QED BY <1>3, <1>5, <1>6, <1>7, <1>9 DEF Inv

LEMMA ArmKeeps == Inv /\ Arm => Inv'
<1> SUFFICES ASSUME Inv, Arm PROVE Inv'
  OBVIOUS
<1>1. /\ UNCHANGED <<updateMode, steps, sampled, updated, seq, stash, done, ring, store,
                     slotOf, freeSlots, known, status>>
      /\ pending' = <<>> /\ live' = "live"
  BY DEF Arm, registry
<1>2. Types'
  <2>1. pending' \in Seq(EntryType)
    BY <1>1
  <2> QED BY <1>1, <2>1 DEF Inv, Types, Scheduled
<1>3. Registry' /\ Seen' /\ Settled
  BY <1>1 DEF Inv, Registry, Seen, Settled
<1> QED BY <1>1, <1>2, <1>3, OnlyRequestsMove

LEMMA ArriveKeeps ==
  ASSUME Inv, NEW r \in Req, Arrive(r)
  PROVE  Inv'
<1>0. Types /\ Registry /\ Seen
  BY DEF Inv
<1>1. /\ UNCHANGED <<updateMode, steps, sampled, updated, seq, stash, done, ring, store,
                     pending, live, known>>
      /\ status[r] = "new" /\ freeSlots # <<>>
      /\ slotOf' = [slotOf EXCEPT ![r] = Last(freeSlots)] /\ freeSlots' = Front(freeSlots)
      /\ status' = [status EXCEPT ![r] = "waiting"]
  BY DEF Arrive, runnerState
<1>2. /\ slotOf \in [Req -> Slots \cup {NoSlot}] /\ freeSlots \in Seq(Slots)
      /\ status \in [Req -> StatusType] /\ IsInjective(freeSlots)
  BY <1>0 DEF Types, Registry
<1>3. /\ Front(freeSlots) \in Seq(Slots) /\ IsInjective(Front(freeSlots))
      /\ Last(freeSlots) \in Slots /\ Last(freeSlots) \in Range(freeSlots)
      /\ Last(freeSlots) \notin Range(Front(freeSlots))
      /\ Range(Front(freeSlots)) \subseteq Range(freeSlots)
  BY <1>1, <1>2, LastOne
<1>4. /\ slotOf'[r] = Last(freeSlots) /\ status'[r] = "waiting"
      /\ \A q \in Req : q # r => slotOf'[q] = slotOf[q] /\ status'[q] = status[q]
  BY <1>1, <1>2
<1>5. Types'
  <2>1. /\ slotOf' \in [Req -> Slots \cup {NoSlot}] /\ status' \in [Req -> StatusType]
        /\ freeSlots' \in Seq(Slots)
    BY <1>1, <1>2, <1>3 DEF StatusType
  <2> QED BY <1>0, <1>1, <2>1 DEF Types, Scheduled
<1>6. Registry'
  <2>1. \A q \in Req : slotOf'[q] # NoSlot <=> status'[q] \in {"waiting", "running"}
    BY <1>0, <1>3, <1>4, HandshakeAssumption DEF Registry
  <2>2. \A q \in Req : slotOf[q] # Last(freeSlots)
    BY <1>0, <1>3 DEF Registry
  <2>3. \A p, q \in Req : slotOf'[p] = slotOf'[q] /\ slotOf'[p] # NoSlot => p = q
    BY <1>0, <1>4, <2>2 DEF Registry
  <2>4. \A q \in Req : slotOf'[q] \notin Range(freeSlots')
    BY <1>0, <1>1, <1>3, <1>4 DEF Registry
  <2> QED BY <1>1, <1>3, <2>1, <2>3, <2>4 DEF Registry
<1>7. Seen'
  BY <1>0, <1>1, <1>4 DEF Seen, Types
<1>8. Settled
  BY <1>1, <1>4 DEF Settled
<1>9. \A q \in Req : /\ status'[q] \in {"new", "waiting"} => status[q] \in {"new", "waiting"}
                     /\ status'[q] = "running" => status[q] = "running"
  BY <1>1, <1>4
<1> QED BY <1>1, <1>5, <1>6, <1>7, <1>8, <1>9, OnlyRequestsMove

LEMMA AbortKeeps ==
  ASSUME Inv, NEW r \in Req, Abort(r)
  PROVE  Inv'
<1>0. Types /\ Registry /\ Seen
  BY DEF Inv
<1>1. /\ UNCHANGED <<updateMode, steps, sampled, updated, seq, stash, done, ring, store,
                     pending, live>>
      /\ status[r] \in {"waiting", "running"} /\ Forget({r}) /\ known' = known \ {r}
  BY DEF Abort, runnerState
<1>2. /\ Registry' /\ Settled
      /\ slotOf' \in [Req -> Slots \cup {NoSlot}] /\ freeSlots' \in Seq(Slots)
      /\ status' \in [Req -> StatusType]
      /\ \A q \in Req : /\ q \in {r} => status'[q] = "finished"
                        /\ q \notin {r} => status'[q] = status[q] /\ slotOf'[q] = slotOf[q]
  BY <1>0, <1>1, Forgotten
<1>3. Types'
  BY <1>0, <1>1, <1>2 DEF Types, Scheduled
<1>4. Seen'
  BY <1>0, <1>1, <1>2 DEF Seen, Types
<1> QED BY <1>1, <1>2, <1>3, <1>4, OnlyRequestsMove

------------------------------------------------------------------------------
(* schedule().                                                               *)

LEMMA ScheduleKeeps == Inv /\ Schedule => Inv'
<1> SUFFICES ASSUME Inv, Schedule PROVE Inv'
  OBVIOUS
<1>0. /\ Types /\ Registry /\ Seen /\ Batches /\ Stamped /\ Stashes /\ Modes
      /\ StashSurvives /\ RingIsOwned /\ DoneIsNext /\ TokensAsComputed
  BY DEF Inv
<1>1. PICK admitted \in SUBSET {r \in Req : status[r] = "waiting"}, n \in 0 .. MaxLaunches,
           q \in {0, seq + 1} :
        LET batch == Running \cup admitted
            kept == [seq |-> seq + 1, step |-> Scheduled + 1, slots |-> [r \in batch |-> slotOf[r]]]
        IN /\ status' = [r \in Req |-> IF r \in admitted THEN "running" ELSE status[r]]
           /\ steps' = Append(steps, [batch |-> batch, seq |-> q, budget |-> n, ran |-> 0])
           /\ \/ q = 0 /\ seq' = seq /\ stash' = stash
              \/ q = seq + 1 /\ seq' = seq + 1 /\ stash = None /\ n > 0 /\ stash' = kept
              \/ q = seq + 1 /\ seq' = seq + 1 /\ stash = None /\ n = 0 /\ stash' = None
  <2>1. 1 \in 0 .. MaxLaunches /\ 0 \in 0 .. MaxLaunches
        /\ \A n \in 1 .. MaxLaunches : n \in 0 .. MaxLaunches /\ n > 0
    BY HandshakeAssumption
  <2> QED BY <2>1, Zenon DEF Schedule, MayStash
<1> DEFINE batch == Running \cup admitted
           k == Scheduled + 1
           new == [batch |-> batch, seq |-> q, budget |-> n, ran |-> 0]
           slots == [r \in batch |-> slotOf[r]]
           kept == [seq |-> seq + 1, step |-> k, slots |-> slots]
<1>2. /\ UNCHANGED <<updateMode, sampled, updated, pending, done, live, ring, slotOf,
                     freeSlots, known, store>>
      /\ Scheduled < MaxSteps
  BY DEF Schedule
<1>3. /\ Scheduled \in Nat /\ seq \in Nat /\ seq <= Scheduled /\ k \in 1 .. MaxSteps
      /\ q \in 0 .. MaxSteps /\ MaxSteps \in Nat /\ sampled \in Nat /\ sampled <= Scheduled
      /\ updated \in Nat /\ updated <= sampled
  BY <1>0, <1>2, Elements, HandshakeAssumption DEF Types
<1>4. /\ \A r \in batch : r \in Req /\ status[r] \in {"waiting", "running"} /\ status'[r] = "running"
      /\ \A r \in Req : r \notin batch => status'[r] = status[r] /\ status[r] # "running"
      /\ status' \in [Req -> StatusType]
  BY <1>0, <1>1 DEF Running, Types, StatusType
<1>5. new \in StepType
  <2>1. batch \in SUBSET Req /\ 0 \in 0 .. MaxLaunches
    BY <1>4, HandshakeAssumption
  <2> QED BY <1>1, <1>3, <2>1, StepFields
<1>6. slots \in [batch -> Slots] /\ kept \in StashType
  <2>1. \A r \in batch : slotOf[r] \in Slots
    BY <1>0, <1>4 DEF Registry, Types
  <2>2. slots \in [batch -> Slots] /\ batch \in SUBSET Req /\ seq + 1 \in Nat
    BY <1>3, <1>4, <2>1
  <2> HIDE DEF batch, slots, k
  <2> QED BY <1>3, <2>2, StashFields
<1>7. /\ steps' = Append(steps, new) /\ new.batch = batch /\ new.seq = q /\ new.budget = n
      /\ \/ q = 0 /\ seq' = seq /\ stash' = stash
         \/ q = seq + 1 /\ seq' = seq + 1 /\ stash = None /\ n > 0 /\ stash' = kept
         \/ q = seq + 1 /\ seq' = seq + 1 /\ stash = None /\ n = 0 /\ stash' = None
  BY <1>1
<1>8. /\ kept.seq = seq + 1 /\ kept.step = k /\ kept.slots = slots /\ DOMAIN slots = batch
      /\ kept # None /\ \A r \in batch : slots[r] = slotOf[r]
  BY <1>6, HandshakeAssumption
<1> HIDE DEF batch, new, kept, slots
<1>9. /\ steps' \in Seq(StepType) /\ Scheduled' = k /\ steps'[k] = new
      /\ \A j \in 1 .. Scheduled : steps'[j] = steps[j]
  <2>1. steps \in Seq(StepType)
    BY <1>0 DEF Types
  <2> QED BY <1>5, <1>7, <2>1, AppendProperties DEF Scheduled
<1>10. KeptSteps
  BY <1>3, <1>9 DEF KeptSteps
<1>11. Settled
  BY <1>2, <1>4 DEF Settled
<1>12. Types'
  <2>1. stash' \in StashType \cup {None} /\ seq' \in Nat /\ seq' <= Scheduled'
    <3>1. stash' = stash \/ stash' = kept \/ stash' = None
      BY <1>7
    <3>2. seq' = seq \/ seq' = seq + 1
      BY <1>7
    <3>3. stash' \in StashType \cup {None}
      BY <1>0, <1>6, <3>1 DEF Types
    <3> QED BY <1>3, <1>9, <3>2, <3>3
  <2>2. Scheduled' <= MaxSteps /\ sampled <= Scheduled'
    BY <1>2, <1>3, <1>9
  <2> QED BY <1>0, <1>2, <1>4, <1>9, <2>1, <2>2 DEF Types
<1>13. Registry'
  <2>1. \A r \in Req : status'[r] \in {"waiting", "running"} <=> status[r] \in {"waiting", "running"}
    BY <1>4
  <2> QED BY <1>0, <1>2, <2>1 DEF Registry
<1>14. Seen'
  <2>1. \A r \in known : r \in Req /\ status'[r] = "running"
    BY <1>0, <1>4 DEF Seen, Types
  <2>2. \A j \in 1 .. updated : steps'[j] = steps[j]
    BY <1>3, <1>9
  <2> QED BY <1>0, <1>2, <2>1, <2>2 DEF Seen
<1>15. Batches'
  <2>1. \A j \in 1 .. k : j \in 1 .. Scheduled \/ j = k
    BY <1>3
  <2>2. \A j \in 1 .. Scheduled : \A r \in steps[j].batch :
          r \in Req /\ status[r] \in {"running", "finished"}
    BY <1>0, Elements, StepFields DEF Batches
  <2>3. \A j \in 1 .. k : \A r \in steps'[j].batch : status'[r] \in {"running", "finished"}
    BY <1>4, <1>7, <1>9, <1>11, <2>1, <2>2 DEF Settled
  <2>4. ASSUME NEW i \in 1 .. k, NEW j \in 1 .. k, i < j, NEW r \in steps'[i].batch,
               status'[r] = "running"
        PROVE  r \in steps'[j].batch
    <3>1. i \in 1 .. Scheduled /\ steps'[i] = steps[i]
      BY <1>3, <1>9, <2>4
    <3>2. r \in Req /\ status[r] = "running"
      BY <1>11, <2>2, <2>4, <3>1 DEF Settled
    <3>3. CASE j = k
      BY <1>7, <1>9, <3>2, <3>3 DEF batch, Running
    <3>4. CASE j \in 1 .. Scheduled
      BY <1>0, <1>9, <2>4, <3>1, <3>2, <3>4 DEF Batches
    <3> QED BY <2>1, <3>3, <3>4
  <2>5. \A r \in Req : status'[r] \in {"new", "waiting"} => store'[r] = <<>>
    BY <1>0, <1>2, <1>4 DEF Batches
  <2> QED BY <1>9, <2>3, <2>4, <2>5 DEF Batches
<1>16. Stamped'
  <2>1. \A j \in 1 .. k : j \in 1 .. Scheduled \/ j = k
    BY <1>3
  <2>2. seq' >= seq /\ (q # 0 => seq' = seq + 1 /\ q = seq + 1)
    BY <1>3, <1>7
  <2>3. \A j \in 1 .. Scheduled : steps[j].seq \in Nat /\ steps[j].seq <= seq
    BY <1>0, <1>3, Elements, StepFields DEF Stamped
  <2>4. \A j \in 1 .. k : steps'[j].seq <= seq'
    <3>1. steps'[k].seq <= seq'
      BY <1>3, <1>7, <1>9, <2>2
    <3>2. seq' \in Nat
      BY <1>3, <1>7
    <3>3. ASSUME NEW j \in 1 .. Scheduled PROVE steps'[j].seq <= seq'
      BY <1>3, <1>9, <2>2, <2>3, <3>2
    <3> QED BY <2>1, <3>1, <3>3
  <2>5. ASSUME NEW i \in 1 .. k, NEW j \in 1 .. k, i < j, steps'[i].seq # 0, steps'[j].seq # 0
        PROVE  steps'[i].seq < steps'[j].seq
    <3>1. i \in 1 .. Scheduled /\ steps'[i] = steps[i]
      BY <1>3, <1>9, <2>5
    <3>2. CASE j = k
      <4>1. steps'[j].seq = seq + 1 /\ steps[i].seq <= seq
        BY <1>7, <1>9, <2>2, <2>3, <2>5, <3>1, <3>2
      <4> QED BY <1>3, <2>3, <3>1, <4>1
    <3>3. CASE j \in 1 .. Scheduled
      BY <1>0, <1>9, <2>5, <3>1, <3>3 DEF Stamped
    <3> QED BY <2>1, <3>2, <3>3
  <2> QED BY <1>9, <2>4, <2>5 DEF Stamped
<1>17. Stashes'
  <2>1. \A s \in StashType : IsOf(s) => IsOf(s)'
    BY <1>0, <1>10, <1>11, StashStays
  <2>2. ASSUME stash' # None PROVE IsOf(stash)'
    <3>1. CASE stash' = stash
      <4>1. stash \in StashType /\ IsOf(stash)
        BY <1>0, <2>2, <3>1 DEF Types, Stashes
      <4> QED BY <2>1, <3>1, <4>1 DEF IsOf
    <3>2. CASE q = seq + 1 /\ n > 0 /\ stash' = kept
      <4>1. /\ kept.step <= Scheduled' /\ kept.seq = steps'[kept.step].seq /\ kept.seq # 0
            /\ steps'[kept.step].budget > 0 /\ DOMAIN kept.slots = steps'[kept.step].batch
        BY <1>3, <1>7, <1>8, <1>9, <3>2
      <4>2. IsInjective(kept.slots)
        <5>1. \A r \in batch : r \in Req /\ slotOf[r] # NoSlot
          BY <1>0, <1>4 DEF Registry
        <5> QED BY <1>0, <1>8, <5>1 DEF Registry, IsInjective
      <4>3. \A r \in DOMAIN kept.slots : slotOf'[r] = kept.slots[r]
        BY <1>2, <1>8
      <4> QED BY <3>2, <4>1, <4>2, <4>3 DEF IsOf
    <3> QED BY <1>7, <2>2, <3>1, <3>2
  <2>3. ASSUME NEW i \in DOMAIN pending PROVE IsOf(pending[i].stash)'
    <3>1. pending[i].stash \in StashType /\ IsOf(pending[i].stash)
      BY <1>0, Elements, StashFields DEF Stashes
    <3> QED BY <1>2, <2>1, <3>1 DEF IsOf
  <2> QED BY <1>2, <2>2, <2>3 DEF Stashes
<1>18. StashSurvives'
  <2>1. \A j \in sampled + 1 .. k : j \in sampled + 1 .. Scheduled \/ j = k
    BY <1>3
  <2>2. \A j \in sampled + 1 .. Scheduled : j \in 1 .. Scheduled
    BY <1>3
  <2>3. ASSUME NEW j \in sampled + 1 .. k, steps'[j].seq # 0, steps'[j].budget > 0
        PROVE  stash' # None /\ stash'.seq = steps'[j].seq
    <3>1. CASE j = k
      <4>1. q # 0 /\ n > 0
        BY <1>7, <1>9, <2>3, <3>1
      <4>2. stash' = kept
        BY <1>3, <1>7, <4>1
      <4> QED BY <1>7, <1>8, <1>9, <3>1, <4>1, <4>2
    <3>2. CASE j \in sampled + 1 .. Scheduled
      <4>1. stash # None /\ stash.seq = steps[j].seq /\ steps'[j] = steps[j]
        BY <1>0, <1>9, <2>2, <2>3, <3>2 DEF StashSurvives
      <4> QED BY <1>7, <4>1
    <3> QED BY <2>1, <3>1, <3>2
  <2>4. ASSUME stash' # None PROVE stash'.step > sampled
    <3>1. CASE stash' = stash
      BY <1>0, <2>4, <3>1 DEF StashSurvives
    <3>2. CASE stash' = kept
      BY <1>3, <1>8, <3>2
    <3> QED BY <1>7, <2>4, <3>1, <3>2
  <2> QED BY <1>2, <1>9, <2>3, <2>4 DEF StashSurvives
<1>19. Modes' /\ RingIsOwned' /\ DoneIsNext'
  BY <1>0, <1>2 DEF Modes, RingIsOwned, DoneIsNext
<1>20. TokensAsComputed'
  <2>1. Applied' = Applied /\ \A j \in 1 .. Applied : j \in 1 .. Scheduled
    BY <1>0, <1>2, AppliedIs DEF Applied
  <2>2. \A r \in Req : status'[r] = "running" => status[r] # "finished"
    BY <1>4
  <2> QED BY <1>0, <1>2, <1>9, <2>1, <2>2, SameTokens
<1> QED BY <1>12, <1>13, <1>14, <1>15, <1>16, <1>17, <1>18, <1>19, <1>20 DEF Inv

------------------------------------------------------------------------------
(* The worker.                                                               *)

\* sample_tokens takes the stash of its own step, and of no other.
LEMMA OneSampled ==
  ASSUME Inv, TakeStash, NEW n \in 0 .. MaxLaunches, Ran(n)
  PROVE  /\ Sampling \in 1 .. Scheduled /\ sampled' = Sampling /\ Scheduled' = Scheduled
         /\ KeptSteps /\ steps'[Sampling].ran = n
         /\ \A k \in 1 .. sampled : steps'[k].batch = steps[k].batch /\ steps'[k].ran = steps[k].ran
         /\ stash' \in StashType \cup {None} /\ (stash' # None => stash' = stash)
         /\ StashSurvives'
         /\ Claimed => /\ stash \in StashType /\ IsOf(stash) /\ stash.step = Sampling
                       /\ steps[Sampling].budget \in 1 .. MaxLaunches
<1>0. Types /\ Stamped /\ Stashes /\ StashSurvives
  BY DEF Inv
<1>1. /\ Scheduled \in Nat /\ sampled \in Nat /\ sampled <= Scheduled /\ Sampling = sampled + 1
      /\ Sampling <= Scheduled /\ sampled' = Sampling /\ DOMAIN steps = 1 .. Scheduled
      /\ \A k \in 1 .. Scheduled : steps[k] \in StepType
  BY <1>0, Elements DEF Types, TakeStash, Sampling
<1>2. /\ Sampling \in 1 .. Scheduled /\ \A k \in 1 .. sampled : k \in 1 .. Scheduled /\ k # Sampling
  BY <1>1
<1> DEFINE new == [steps[Sampling] EXCEPT !.ran = n]
<1>3. /\ new \in StepType /\ new.batch = steps[Sampling].batch /\ new.seq = steps[Sampling].seq
      /\ new.budget = steps[Sampling].budget /\ new.ran = n
  BY <1>1, <1>2, StepFields
<1>4. steps' = [steps EXCEPT ![Sampling] = new]
  BY <1>1, <1>2 DEF Ran
<1> HIDE DEF new
<1>5. /\ steps' \in Seq(StepType) /\ Scheduled' = Scheduled /\ steps'[Sampling] = new
      /\ \A k \in 1 .. Scheduled : k # Sampling => steps'[k] = steps[k]
  <2>1. steps \in Seq(StepType)
    BY <1>0 DEF Types
  <2> QED BY <1>1, <1>2, <1>3, <1>4, <2>1, ExceptSeq DEF Scheduled
<1>6. \A k \in 1 .. Scheduled : /\ steps'[k].batch = steps[k].batch /\ steps'[k].seq = steps[k].seq
                                /\ steps'[k].budget = steps[k].budget
  BY <1>3, <1>5
<1>7. KeptSteps
  BY <1>1, <1>5, <1>6 DEF KeptSteps
<1>8. stash' = IF Claimed THEN None ELSE stash
  BY DEF TakeStash
<1>9. \A j, k \in 1 .. Scheduled :
        steps[j].seq # 0 /\ steps[j].seq = steps[k].seq => j = k
  <2> SUFFICES ASSUME NEW j \in 1 .. Scheduled, NEW k \in 1 .. Scheduled,
                      steps[j].seq # 0, steps[j].seq = steps[k].seq
               PROVE  j = k
    OBVIOUS
  <2>1. steps[j].seq \in Nat /\ ~(steps[j].seq < steps[k].seq) /\ ~(steps[k].seq < steps[j].seq)
    BY <1>1, StepFields, HandshakeAssumption
  <2>2. ~(j < k) /\ ~(k < j)
    BY <1>0, <2>1 DEF Stamped
  <2> QED BY <1>1, <2>2
<1>10. stash # None => /\ stash \in StashType /\ IsOf(stash) /\ stash.step \in 1 .. Scheduled
                       /\ stash.step > sampled /\ stash.seq = steps[stash.step].seq
                       /\ stash.seq # 0 /\ steps[stash.step].budget > 0
  <2> SUFFICES ASSUME stash # None
               PROVE  /\ stash \in StashType /\ IsOf(stash) /\ stash.step \in 1 .. Scheduled
                      /\ stash.step > sampled /\ stash.seq = steps[stash.step].seq
                      /\ stash.seq # 0 /\ steps[stash.step].budget > 0
    OBVIOUS
  <2>1. stash \in StashType /\ IsOf(stash) /\ stash.step > sampled
    BY <1>0 DEF Types, Stashes, StashSurvives
  <2>2. stash.step \in 1 .. Scheduled
    BY <1>1, <2>1, StashFields DEF IsOf
  <2> QED BY <2>1, <2>2 DEF IsOf
<1>11. Claimed => /\ stash \in StashType /\ IsOf(stash) /\ stash.step = Sampling
                  /\ steps[Sampling].budget \in 1 .. MaxLaunches
  <2> SUFFICES ASSUME Claimed
               PROVE  stash.step = Sampling /\ steps[Sampling].budget \in 1 .. MaxLaunches
                      /\ stash \in StashType /\ IsOf(stash)
    OBVIOUS
  <2>1. stash # None /\ stash.seq = steps[Sampling].seq
    BY DEF Claimed
  <2>2. stash.step = Sampling
    BY <1>2, <1>9, <1>10, <2>1
  <2>3. steps[Sampling].budget \in 0 .. MaxLaunches /\ steps[Sampling].budget > 0
    BY <1>1, <1>2, <1>10, <2>1, <2>2, StepFields
  <2> QED BY <1>10, <2>1, <2>2, <2>3, HandshakeAssumption
<1>12. StashSurvives'
  <2>1. ASSUME NEW k \in sampled' + 1 .. Scheduled', steps'[k].seq # 0, steps'[k].budget > 0
        PROVE  stash' # None /\ stash'.seq = steps'[k].seq
    <3>1. k \in sampled + 1 .. Scheduled /\ k \in 1 .. Scheduled /\ k # Sampling
      BY <1>1, <1>5
    <3>2. stash # None /\ stash.seq = steps[k].seq /\ steps[k].seq # 0
      BY <1>0, <1>6, <2>1, <3>1 DEF StashSurvives
    <3>3. ~Claimed
      BY <1>2, <1>9, <3>1, <3>2 DEF Claimed
    <3> QED BY <1>6, <1>8, <3>1, <3>2, <3>3
  <2>2. ASSUME stash' # None PROVE stash'.step > sampled'
    <3>1. stash' = stash /\ stash # None /\ ~Claimed
      BY <1>8, <2>2
    <3>2. stash.step # Sampling
      BY <1>10, <3>1 DEF Claimed
    <3> QED BY <1>1, <1>10, <3>1, <3>2
  <2> QED BY <2>1, <2>2 DEF StashSurvives
<1>13. stash' \in StashType \cup {None} /\ (stash' # None => stash' = stash)
  BY <1>0, <1>8 DEF Types
<1>14. \A k \in 1 .. sampled : steps'[k].batch = steps[k].batch /\ steps'[k].ran = steps[k].ran
  BY <1>2, <1>5
<1> QED BY <1>1, <1>2, <1>3, <1>5, <1>7, <1>11, <1>12, <1>13, <1>14

\* What the four ways to sample a step have in common.
LEMMA SampleKeeps ==
  ASSUME Inv, TakeStash, NEW n \in 0 .. MaxLaunches, Ran(n),
         UNCHANGED <<updateMode, updated, seq, slotOf, freeSlots, known, status>>,
         pending' \in Seq(EntryType), done' \in DoneType \cup {None}, DOMAIN ring' = Ring,
         live' \in {"unarmed", "live", "refused"}, store' \in [Req -> Seq(Token)],
         \A i \in DOMAIN pending' : \E s \in StashType : pending'[i].stash = s /\ IsOf(s),
         \A r \in Req : status[r] \in {"new", "waiting"} => store'[r] = store[r],
         Modes', RingIsOwned', DoneIsNext', TokensAsComputed'
  PROVE  Inv'
<1>0. Types /\ Registry /\ Seen /\ Batches /\ Stamped /\ Stashes
  BY DEF Inv
<1>1. /\ Sampling \in 1 .. Scheduled /\ sampled' = Sampling /\ Scheduled' = Scheduled
      /\ KeptSteps /\ stash' \in StashType \cup {None} /\ (stash' # None => stash' = stash)
      /\ StashSurvives'
  BY OneSampled
<1>2. /\ Scheduled \in Nat /\ sampled \in Nat /\ updated \in Nat /\ updated <= sampled
      /\ Sampling = sampled + 1
  BY <1>0, Elements DEF Types, Sampling
<1>3. steps' \in Seq(StepType)
  BY <1>1 DEF KeptSteps
<1>4. Settled
  BY DEF Settled
<1>5. Types'
  <2>1. updated <= sampled' /\ sampled' <= Scheduled' /\ sampled' \in Nat
    BY <1>1, <1>2
  <2> QED BY <1>0, <1>1, <1>3, <2>1 DEF Types
<1>6. Registry'
  BY <1>0 DEF Registry
<1>7. Seen'
  <2>1. \A k \in 1 .. updated : steps'[k].batch = steps[k].batch
    <3>1. \A k \in 1 .. updated : k \in 1 .. Scheduled
      BY <1>0, <1>2 DEF Types
    <3> QED BY <1>1, <3>1 DEF KeptSteps
  <2> QED BY <1>0, <2>1 DEF Seen
<1>8. Batches' /\ Stamped'
  BY <1>0, <1>1, <1>4, SameSteps
<1>9. Stashes'
  <2>1. \A s \in StashType : IsOf(s) => IsOf(s)'
    BY <1>0, <1>1, <1>4, StashStays
  <2>2. ASSUME stash' # None PROVE IsOf(stash)'
    <3>1. stash' = stash /\ stash \in StashType /\ IsOf(stash)
      BY <1>0, <1>1, <2>2 DEF Types, Stashes
    <3> QED BY <2>1, <3>1 DEF IsOf
  <2>3. ASSUME NEW i \in DOMAIN pending' PROVE IsOf(pending[i].stash)'
    BY <2>1 DEF IsOf
  <2> QED BY <2>2, <2>3 DEF Stashes
<1> QED BY <1>1, <1>5, <1>6, <1>7, <1>8, <1>9 DEF Inv

\* Where nothing is committed and no launch is added.
LEMMA SampleOnly ==
  ASSUME Inv, TakeStash, NEW n \in 0 .. MaxLaunches, Ran(n),
         UNCHANGED <<updateMode, updated, seq, slotOf, freeSlots, known, status, ring, store, done>>,
         pending' = pending \/ pending' = <<>>, live' \in {"unarmed", "live", "refused"}
  PROVE  Inv'
<1>0. /\ Types /\ Batches /\ Stashes /\ Modes /\ RingIsOwned /\ DoneIsNext /\ TokensAsComputed
  BY DEF Inv
<1>1. /\ sampled' = sampled + 1 /\ sampled \in Nat
      /\ \A k \in 1 .. sampled : steps'[k].batch = steps[k].batch /\ steps'[k].ran = steps[k].ran
  BY <1>0, OneSampled DEF Sampling, Types
<1>2. /\ pending' \in Seq(EntryType) /\ store' \in [Req -> Seq(Token)]
      /\ done' \in DoneType \cup {None} /\ DOMAIN ring' = Ring
  <2>1. <<>> \in Seq(EntryType)
    OBVIOUS
  <2> QED BY <1>0, <2>1 DEF Types
<1>3. pending' = <<>> => DOMAIN pending' = {}
  OBVIOUS
<1>4. \A i \in DOMAIN pending' : \E s \in StashType : pending'[i].stash = s /\ IsOf(s)
  BY <1>0, <1>3, Elements, StashFields DEF Stashes
<1>5. Modes'
  BY <1>0 DEF Modes
<1>6. RingIsOwned'
  <2> SUFFICES ASSUME pending' = pending PROVE RingIsOwned'
    BY <1>3 DEF RingIsOwned
  <2>1. \A i \in DOMAIN pending : pending[i].stash.step \in Nat
    BY <1>0, Elements, StashFields, HandshakeAssumption
  <2>2. \A i \in DOMAIN pending : pending[i].stash.step <= sampled'
    <3>1. \A i \in DOMAIN pending : pending[i].stash.step <= sampled
      BY <1>0 DEF RingIsOwned
    <3> QED BY <1>1, <2>1, <3>1
  <2> QED BY <1>0, <2>2 DEF RingIsOwned
<1>7. DoneIsNext'
  <2> SUFFICES ASSUME done # None PROVE done.step = updated + 1 /\ done.step <= sampled'
    BY DEF DoneIsNext
  <2>1. done.step = updated + 1 /\ done.step <= sampled /\ updated \in Nat
    BY <1>0 DEF DoneIsNext, Types
  <2> QED BY <1>1, <2>1
<1>8. TokensAsComputed'
  <2>1. Applied' = Applied
    BY DEF Applied
  <2>2. \A k \in 1 .. Applied : k \in 1 .. sampled
    BY <1>0, <1>1, AppliedIs
  <2> QED BY <1>0, <1>1, <2>1, <2>2, SameTokens
<1> QED BY <1>2, <1>4, <1>5, <1>6, <1>7, <1>8, SampleKeeps

LEMMA SampleInPythonKeeps == Inv /\ SampleInPython => Inv'
<1> SUFFICES ASSUME Inv, SampleInPython PROVE Inv'
  OBVIOUS
<1>1. 1 \in 0 .. MaxLaunches
  BY HandshakeAssumption
<1>2. /\ TakeStash /\ Ran(1) /\ pending' = pending /\ live' = live
      /\ UNCHANGED <<updateMode, updated, seq, slotOf, freeSlots, known, status, ring, store, done>>
  BY DEF SampleInPython, registry
<1>3. live \in {"unarmed", "live", "refused"}
  BY DEF Inv, Types
<1> QED BY <1>1, <1>2, <1>3, SampleOnly

LEMMA LaunchRaisesKeeps == Inv /\ LaunchRaises => Inv'
<1> SUFFICES ASSUME Inv, LaunchRaises PROVE Inv'
  OBVIOUS
<1>1. 1 \in 0 .. MaxLaunches
  BY HandshakeAssumption
<1>2. /\ TakeStash /\ Ran(1) /\ pending' = <<>> /\ live' = "refused"
      /\ UNCHANGED <<updateMode, updated, seq, slotOf, freeSlots, known, status, ring, store, done>>
  BY DEF LaunchRaises, Refuse, registry
<1> QED BY <1>1, <1>2, SampleOnly

LEMMA SampleByLaunchKeeps == Inv /\ SampleByLaunch => Inv'
<1> SUFFICES ASSUME Inv, SampleByLaunch PROVE Inv'
  OBVIOUS
<1>0. /\ Types /\ Batches /\ Stashes /\ Modes /\ RingIsOwned /\ DoneIsNext /\ TokensAsComputed
  BY DEF Inv
<1>1. PICK took \in {1, steps[Sampling].budget} :
        /\ pending' = Append(pending, [slot |-> FreeSlot, stash |-> stash, took |-> took])
        /\ ring' = [ring EXCEPT ![FreeSlot] = [step |-> Sampling, took |-> took]]
        /\ Ran(took)
  BY DEF SampleByLaunch
<1>2. /\ updateMode /\ TakeStash /\ Claimed /\ live = "live" /\ done = None /\ Ring \ Occupied # {}
      /\ UNCHANGED <<updateMode, updated, seq, done, live, slotOf, freeSlots, known, status, store>>
  BY DEF SampleByLaunch, registry
<1>4. took \in 1 .. MaxLaunches /\ took \in 0 .. MaxLaunches
  <2>1. 1 \in 0 .. MaxLaunches /\ MaxLaunches \in Nat
    BY HandshakeAssumption
  <2>2. steps[Sampling].budget \in 0 .. MaxLaunches
    <3>1. Sampling \in 1 .. Scheduled
      BY <1>0, <1>2, Elements DEF Types, TakeStash, Sampling
    <3> QED BY <1>0, <3>1, Elements, StepFields
  <2>3. took \in 0 .. MaxLaunches
    BY <1>1, <2>1, <2>2
  <2>4. steps[Sampling].budget \in 1 .. MaxLaunches
    BY <1>1, <1>2, <2>3, OneSampled
  <2> QED BY <1>1, <2>1, <2>3, <2>4
<1>5. /\ Sampling \in 1 .. Scheduled /\ sampled' = Sampling
      /\ \A k \in 1 .. sampled : steps'[k].batch = steps[k].batch /\ steps'[k].ran = steps[k].ran
      /\ stash \in StashType /\ IsOf(stash) /\ stash.step = Sampling
  BY <1>1, <1>2, <1>4, OneSampled
<1>6. Sampling = sampled + 1 /\ sampled \in Nat /\ updated \in Nat /\ updated <= sampled
  BY <1>0 DEF Sampling, Types
<1> DEFINE e == [slot |-> FreeSlot, stash |-> stash, took |-> took]
<1>7. FreeSlot \in Ring /\ FreeSlot \notin Occupied
  <2>1. Ring = {0, 1}
    BY DEF Ring
  <2>2. \E i \in Ring \ Occupied : \A j \in Ring \ Occupied : i <= j
    <3>1. CASE 0 \in Ring \ Occupied
      BY <2>1, <3>1
    <3>2. CASE 0 \notin Ring \ Occupied
      <4>1. Ring \ Occupied = {1}
        BY <1>2, <2>1, <3>2
      <4> QED BY <4>1
    <3> QED BY <3>1, <3>2
  <2>3. FreeSlot \in Ring \ Occupied
    BY <2>2 DEF FreeSlot
  <2> QED BY <2>3
<1>8. e \in EntryType /\ e.slot = FreeSlot /\ e.stash = stash /\ e.took = took
  BY <1>4, <1>5, <1>7, StashFields
<1>9. pending' = Append(pending, e)
  BY <1>1
<1> HIDE DEF e
<1>10. /\ pending' \in Seq(EntryType) /\ DOMAIN pending' = 1 .. Len(pending) + 1
       /\ DOMAIN pending = 1 .. Len(pending) /\ Len(pending) \in Nat
       /\ \A i \in 1 .. Len(pending) : pending'[i] = pending[i]
       /\ pending'[Len(pending) + 1] = e
  <2>1. pending \in Seq(EntryType)
    BY <1>0 DEF Types
  <2> QED BY <1>8, <1>9, <2>1, AppendProperties, LenProperties
<1>11. \A i \in DOMAIN pending' : i \in DOMAIN pending \/ i = Len(pending) + 1
  BY <1>10
<1>12. \A i \in DOMAIN pending' : \E s \in StashType : pending'[i].stash = s /\ IsOf(s)
  <2>1. \A i \in DOMAIN pending : pending[i].stash \in StashType /\ IsOf(pending[i].stash)
    BY <1>0, Elements, StashFields DEF Stashes
  <2> QED BY <1>5, <1>8, <1>10, <1>11, <2>1
<1>13. Modes'
  BY <1>0, <1>2 DEF Modes
<1>14. RingIsOwned'
  <2> DEFINE owned(j) == /\ updated < pending'[j].stash.step /\ pending'[j].stash.step <= sampled'
                         /\ ring'[pending'[j].slot] =
                              [step |-> pending'[j].stash.step, took |-> pending'[j].took]
  <2>1. \A i \in DOMAIN pending :
          /\ pending[i].stash.step \in Nat /\ pending[i].slot \in Ring /\ pending[i].slot # FreeSlot
          /\ updated < pending[i].stash.step /\ pending[i].stash.step <= sampled
          /\ ring[pending[i].slot] = [step |-> pending[i].stash.step, took |-> pending[i].took]
    <3>1. \A i \in DOMAIN pending : pending[i].stash.step \in Nat /\ pending[i].slot \in Ring
      BY <1>0, Elements, StashFields, HandshakeAssumption
    <3>2. \A i \in DOMAIN pending : pending[i].slot # FreeSlot
      BY <1>7 DEF Occupied
    <3> QED BY <1>0, <3>1, <3>2 DEF RingIsOwned
  <2>2. \A i \in Ring : i # FreeSlot => ring'[i] = ring[i]
    BY <1>1
  <2>a. \A i \in DOMAIN pending : ring'[pending[i].slot] = ring[pending[i].slot]
    BY <2>1, <2>2
  <2>3. \A i \in DOMAIN pending : owned(i)
    BY <1>5, <1>6, <1>10, <2>1, <2>a
  <2>b. ring'[FreeSlot] = [step |-> Sampling, took |-> took]
    <3>1. ring' = [ring EXCEPT ![FreeSlot] = [step |-> Sampling, took |-> took]]
      BY <1>1
    <3>2. FreeSlot \in DOMAIN ring
      BY <1>0, <1>7 DEF Types
    <3> QED BY <3>1, <3>2
  <2>4. owned(Len(pending) + 1)
    BY <1>5, <1>6, <1>8, <1>10, <2>b
  <2>5. \A i, j \in DOMAIN pending' : i < j =>
          pending'[i].slot # pending'[j].slot /\ pending'[i].stash.step < pending'[j].stash.step
    <3> SUFFICES ASSUME NEW i \in DOMAIN pending', NEW j \in DOMAIN pending', i < j
                 PROVE  pending'[i].slot # pending'[j].slot
                        /\ pending'[i].stash.step < pending'[j].stash.step
      OBVIOUS
    <3>1. i \in DOMAIN pending /\ pending'[i] = pending[i]
      BY <1>10
    <3>2. CASE j \in DOMAIN pending
      BY <1>0, <1>10, <3>1, <3>2 DEF RingIsOwned
    <3>3. CASE j = Len(pending) + 1
      <4>1. pending'[j].slot = FreeSlot /\ pending'[j].stash.step = sampled + 1
        BY <1>5, <1>6, <1>8, <1>10, <3>3
      <4>2. pending[i].slot # FreeSlot /\ pending[i].stash.step <= sampled
            /\ pending[i].stash.step \in Nat
        BY <2>1, <3>1
      <4>3. pending[i].stash.step < sampled + 1
        BY <1>6, <4>2
      <4> QED BY <3>1, <4>1, <4>2, <4>3
    <3> QED BY <1>11, <3>2, <3>3
  <2> HIDE DEF owned
  <2>6. \A i \in DOMAIN pending' : owned(i)
    BY <1>11, <2>3, <2>4
  <2> QED BY <1>2, <2>5, <2>6 DEF RingIsOwned, owned
<1>15. DoneIsNext'
  BY <1>2 DEF DoneIsNext
<1>16. TokensAsComputed'
  <2>1. Applied' = Applied
    BY <1>2 DEF Applied
  <2>2. \A k \in 1 .. Applied : k \in 1 .. sampled
    BY <1>0, <1>6, AppliedIs
  <2> QED BY <1>0, <1>2, <1>5, <2>1, <2>2, SameTokens
<1>17. /\ store' \in [Req -> Seq(Token)] /\ done' \in DoneType \cup {None}
       /\ live' \in {"unarmed", "live", "refused"} /\ DOMAIN ring' = Ring
  BY <1>0, <1>1, <1>2 DEF Types
<1> QED BY <1>1, <1>2, <1>4, <1>10, <1>12, <1>13, <1>14, <1>15, <1>16, <1>17, SampleKeeps

\* The slots of a stash that run_steps accepts are held by its own requests:
\* what arrived since has not been seen by decide().
LEMMA OwnersRun ==
  ASSUME Inv, NEW s \in StashType, IsOf(s), updated < s.step, Packable(Range(s.slots))
  PROVE  \A r \in Req : /\ slotOf[r] \in Range(s.slots) <=> r \in steps[s.step].batch
                        /\ r \in steps[s.step].batch => status[r] = "running"
<1>0. Types /\ Registry /\ Seen /\ Batches
  BY DEF Inv
<1>1. /\ s.step \in 1 .. Scheduled /\ DOMAIN s.slots = steps[s.step].batch
      /\ DOMAIN s.slots \subseteq Req /\ \A r \in DOMAIN s.slots : s.slots[r] \in Slots
      /\ updated \in Nat /\ Scheduled \in Nat
  BY <1>0, Elements, StashFields DEF IsOf, Types
<1>2. ASSUME NEW r \in DOMAIN s.slots
      PROVE  status[r] = "running" /\ slotOf[r] = s.slots[r]
  <2>1. s.slots[r] \in Range(s.slots)
    BY DEF Range
  <2>2. PICK q \in known : slotOf[q] = s.slots[r]
    BY <2>1 DEF Packable
  <2>3. status[q] = "running" /\ q \in Req
    BY <1>0 DEF Seen, Types
  <2>4. PICK k \in 1 .. updated : q \in steps[k].batch
    BY <1>0 DEF Seen
  <2>5. k \in 1 .. Scheduled /\ k < s.step
    BY <1>1
  <2>6. q \in DOMAIN s.slots
    BY <1>0, <1>1, <2>3, <2>4, <2>5 DEF Batches
  <2>7. slotOf[q] = s.slots[q]
    BY <2>3, <2>6 DEF IsOf
  <2>8. q = r
    BY <2>2, <2>6, <2>7 DEF IsOf, IsInjective
  <2> QED BY <2>3, <2>7, <2>8
<1>3. ASSUME NEW r \in Req, slotOf[r] \in Range(s.slots) PROVE r \in DOMAIN s.slots
  <2>1. PICK q \in DOMAIN s.slots : slotOf[r] = s.slots[q]
    BY <1>3 DEF Range
  <2>2. q \in Req /\ slotOf[q] = slotOf[r] /\ slotOf[q] # NoSlot
    BY <1>1, <1>2, <2>1, HandshakeAssumption
  <2>3. q = r
    BY <1>0, <2>2 DEF Registry
  <2> QED BY <2>3
<1>4. \A r \in DOMAIN s.slots : slotOf[r] \in Range(s.slots)
  BY <1>2 DEF Range
<1> QED BY <1>1, <1>2, <1>3, <1>4

LEMMA SampleAndCommitKeeps == Inv /\ SampleAndCommit => Inv'
<1> SUFFICES ASSUME Inv, SampleAndCommit PROVE Inv'
  OBVIOUS
<1>0. /\ Types /\ Batches /\ Stashes /\ Modes /\ RingIsOwned /\ DoneIsNext /\ TokensAsComputed
  BY DEF Inv
<1>1. PICK ran \in 1 .. steps[Sampling].budget :
        /\ store' = [r \in Req |-> IF slotOf[r] \in Range(stash.slots)
                                   THEN store[r] \o Tokens(Sampling, ran) ELSE store[r]]
        /\ done' = [step |-> Sampling, stash |-> stash]
        /\ Ran(ran)
  BY DEF SampleAndCommit
<1>2. /\ ~updateMode /\ TakeStash /\ Claimed /\ live = "live" /\ done = None
      /\ Scheduled - updated = 1 /\ Packable(Range(stash.slots))
      /\ UNCHANGED <<updateMode, updated, seq, pending, live, ring, slotOf, freeSlots, known, status>>
  BY DEF SampleAndCommit, Interlock, registry
<1>3. ran \in 0 .. MaxLaunches /\ ran \in Nat
  <2>1. Sampling \in 1 .. Scheduled
    BY <1>0, <1>2, Elements DEF Types, TakeStash, Sampling
  <2>2. steps[Sampling].budget \in 0 .. MaxLaunches
    BY <1>0, <2>1, Elements, StepFields
  <2> QED BY <2>2, HandshakeAssumption
<1>4. /\ Sampling \in 1 .. Scheduled /\ sampled' = Sampling
      /\ KeptSteps /\ steps'[Sampling].ran = ran
      /\ \A k \in 1 .. sampled : steps'[k].batch = steps[k].batch /\ steps'[k].ran = steps[k].ran
      /\ stash \in StashType /\ IsOf(stash) /\ stash.step = Sampling
  BY <1>1, <1>2, <1>3, OneSampled
<1>5. /\ Sampling = sampled + 1 /\ updated = sampled /\ sampled \in Nat
      /\ Scheduled \in Nat /\ Scheduled <= MaxSteps /\ MaxSteps \in Nat
  <2>1. /\ updated \in Nat /\ sampled \in Nat /\ updated <= sampled /\ Scheduled \in Nat
        /\ Sampling = sampled + 1 /\ Sampling <= Scheduled /\ Scheduled <= MaxSteps
    BY <1>0, <1>2, Elements DEF Types, Sampling, TakeStash
  <2> QED BY <1>2, <2>1, HandshakeAssumption
<1>6. done' \in DoneType /\ done'.step = Sampling /\ done' # None
  <2>1. Sampling \in 1 .. MaxSteps
    BY <1>4, <1>5
  <2> QED BY <1>1, <1>4, <2>1, StashFields, HandshakeAssumption
<1>7. \A r \in Req : /\ slotOf[r] \in Range(stash.slots) <=> r \in steps[Sampling].batch
                     /\ r \in steps[Sampling].batch => status[r] = "running"
  <2>1. updated < stash.step
    BY <1>4, <1>5
  <2> QED BY <1>2, <1>4, <2>1, OwnersRun
<1>8. Applied = sampled /\ Applied' = Applied + 1 /\ Applied + 1 = Sampling
  BY <1>2, <1>5, <1>6 DEF Applied
<1>9. ASSUME NEW r \in Req
      PROVE  Computed(r)' = Computed(r) \cup (IF r \in steps[Sampling].batch
                                              THEN Given(Sampling, ran) ELSE {})
  <2>1. steps'[Sampling].batch = steps[Sampling].batch
    BY <1>4 DEF KeptSteps
  <2> QED BY <1>0, <1>4, <1>8, <2>1, MoreComputed
<1>10. ASSUME NEW r \in Req, r \in steps[Sampling].batch
       PROVE  store'[r] \in Seq(Token) /\ AllOf(store'[r], Computed(r)')
  <2>1. status[r] = "running" /\ store'[r] = store[r] \o Tokens(Sampling, ran)
    BY <1>1, <1>7, <1>10
  <2>2. store[r] \in Seq(Token) /\ AllOf(store[r], Computed(r))
    BY <1>0, <2>1 DEF Types, TokensAsComputed
  <2>3. Computed(r) \in SUBSET Token /\ \A t \in Computed(r) : t[1] < Sampling
    <3>1. Computed(r) \in SUBSET Token /\ \A t \in Computed(r) : t[1] <= Applied /\ t[1] \in Nat
      BY <1>0, ComputedIs
    <3> QED BY <1>5, <1>8, <3>1
  <2>4. ran \in 0 .. ran /\ Sampling \in Nat
    BY <1>3, <1>5
  <2>5. /\ store[r] \o Tokens(Sampling, ran) \in Seq(Token)
        /\ AllOf(store[r] \o Tokens(Sampling, ran), Computed(r) \cup Given(Sampling, ran))
    BY <1>3, <2>2, <2>3, <2>4, TakesStep
  <2> QED BY <1>9, <1>10, <2>1, <2>5
<1>11. ASSUME NEW r \in Req, r \notin steps[Sampling].batch
       PROVE  store'[r] = store[r] /\ Computed(r)' = Computed(r)
  BY <1>1, <1>7, <1>9, <1>11
<1>12. store' \in [Req -> Seq(Token)]
  <2>1. \A r \in Req : store'[r] \in Seq(Token)
    BY <1>0, <1>10, <1>11 DEF Types
  <2>2. store' = [r \in Req |-> store'[r]]
    BY <1>1
  <2> QED BY <2>1, <2>2
<1>13. TokensAsComputed'
  <2> SUFFICES ASSUME NEW r \in Req
               PROVE  /\ status[r] = "running" => AllOf(store'[r], Computed(r)')
                      /\ status[r] = "finished" => FirstOf(store'[r], Computed(r)')
    BY <1>2 DEF TokensAsComputed
  <2>1. CASE r \in steps[Sampling].batch
    BY <1>7, <1>10, <2>1
  <2>2. CASE r \notin steps[Sampling].batch
    BY <1>0, <1>11, <2>2 DEF TokensAsComputed
  <2> QED BY <2>1, <2>2
<1>14. Modes' /\ RingIsOwned'
  <2>1. DOMAIN pending = {}
    BY <1>0, <1>2 DEF Modes
  <2> QED BY <1>0, <1>2, <2>1 DEF Modes, RingIsOwned
<1>15. DoneIsNext'
  BY <1>2, <1>4, <1>5, <1>6 DEF DoneIsNext
<1>16. \A i \in DOMAIN pending' : \E s \in StashType : pending'[i].stash = s /\ IsOf(s)
  BY <1>0, <1>2, Elements, StashFields DEF Stashes
<1>17. /\ pending' \in Seq(EntryType) /\ done' \in DoneType \cup {None}
       /\ DOMAIN ring' = Ring /\ live' \in {"unarmed", "live", "refused"}
  BY <1>0, <1>2, <1>6 DEF Types
<1>18. \A r \in Req : status[r] \in {"new", "waiting"} => store'[r] = store[r]
  BY <1>7, <1>11
<1> QED BY <1>1, <1>2, <1>3, <1>12, <1>13, <1>14, <1>15, <1>16, <1>17, <1>18, SampleKeeps

------------------------------------------------------------------------------
(* update_from_output.                                                       *)

\* A launch of this very step, all of whose slots still hold its requests, is
\* committed to its requests and to no other.
LEMMA CommitIsDecide ==
  ASSUME Inv, NEW e \in EntryType, IsOf(e.stash), e.stash.step = Updating,
         ring[e.slot] = [step |-> e.stash.step, took |-> e.took],
         RunnerOwns(e.stash), Commit(e)
  PROVE  Decide
<1>0. Types /\ Registry /\ Batches
  BY DEF Inv
<1> DEFINE s == e.stash
           owners == {r \in Req : slotOf[r] \in Range(s.slots)}
           batch == Step.batch \cap Running
<1>1. /\ s \in StashType /\ DOMAIN s.slots \subseteq Req /\ DOMAIN s.slots = Step.batch
      /\ \A r \in DOMAIN s.slots : s.slots[r] \in Slots /\ slotOf[r] = s.slots[r]
      /\ Updating \in 1 .. Scheduled
  <2>1. s \in StashType
    BY StashFields
  <2>2. /\ DOMAIN s.slots \subseteq Req /\ \A r \in DOMAIN s.slots : s.slots[r] \in Slots
        /\ s.step \in 1 .. MaxSteps
    BY <2>1, StashFields
  <2>3. DOMAIN s.slots = Step.batch /\ \A r \in DOMAIN s.slots : slotOf[r] = s.slots[r]
    BY DEF IsOf, RunnerOwns, Step
  <2>4. Updating \in 1 .. Scheduled
    BY <1>0, <2>2, Elements DEF IsOf
  <2> QED BY <2>1, <2>2, <2>3, <2>4
<1>2. \A r \in Step.batch : r \in Req /\ slotOf[r] # NoSlot /\ status[r] = "running"
  <2>1. \A r \in Step.batch : r \in Req /\ slotOf[r] # NoSlot
    BY <1>1, HandshakeAssumption
  <2>2. \A r \in Step.batch : status[r] \in {"running", "finished"}
    BY <1>0, <1>1 DEF Batches, Step
  <2> QED BY <1>0, <2>1, <2>2 DEF Registry
<1>3. owners = batch
  <2>1. ASSUME NEW r \in Req, slotOf[r] \in Range(s.slots) PROVE r \in batch
    <3>1. PICK q \in DOMAIN s.slots : slotOf[r] = s.slots[q]
      BY <2>1 DEF Range
    <3>2. q = r
      BY <1>0, <1>1, <1>2, <3>1 DEF Registry
    <3> QED BY <1>1, <1>2, <3>2 DEF Running
  <2>2. \A r \in batch : r \in Req /\ slotOf[r] \in Range(s.slots)
    BY <1>1, <1>2 DEF Range
  <2> QED BY <2>1, <2>2
<1>4. ring[e.slot].step = Updating
  OBVIOUS
<1>5. PICK stops \in Stops(owners) :
        /\ store' = [r \in Req |->
                       IF r \in owners
                       THEN store[r] \o Tokens(ring[e.slot].step, Taken(r, stops)) ELSE store[r]]
        /\ Finish(stops)
  BY DEF Commit
<1> HIDE DEF owners, batch
<1>6. /\ stops \in Stops(batch) /\ Finish(stops)
      /\ store' = [r \in Req |->
                     IF r \in batch THEN store[r] \o Tokens(Updating, Taken(r, stops)) ELSE store[r]]
  BY <1>3, <1>4, <1>5
<1> QED BY <1>6 DEF Decide, batch

LEMMA StopsAre ==
  ASSUME NEW B, NEW stops \in Stops(B), Step.ran \in Nat
  PROVE  /\ DOMAIN stops \subseteq B
         /\ \A r : /\ Taken(r, stops) \in 0 .. Step.ran
                   /\ r \notin DOMAIN stops => Taken(r, stops) = Step.ran
<1>1. PICK S \in SUBSET B : stops \in [S -> 1 .. Step.ran]
  BY DEF Stops
<1>2. \A r \in DOMAIN stops : stops[r] \in 1 .. Step.ran
  BY <1>1
<1>3. 1 .. Step.ran \subseteq 0 .. Step.ran /\ Step.ran \in 0 .. Step.ran
  OBVIOUS
<1> QED BY <1>1, <1>2, <1>3 DEF Taken

\* What an update leaves: the stash of a step that was not sampled, the
\* launches of the steps after it, and no result of the step itself.
LEMMA UpdateShape ==
  ASSUME Inv, Update
  PROVE  /\ Updating \in 1 .. sampled /\ updated' = Updating /\ stash' = stash
         /\ UNCHANGED <<updateMode, steps, sampled, seq, ring>>
         /\ done' = None /\ live' \in {live, "refused"}
         /\ \/ pending' = <<>>
            \/ pending' = pending /\ \A i \in DOMAIN pending : Updating < pending[i].stash.step
            \/ pending # <<>> /\ pending' = Tail(pending) /\ pending[1].stash.step = Updating
         /\ \/ done = None /\ Decide
            \/ /\ done # None /\ store' = store
               /\ \E stops : DOMAIN stops \subseteq Step.batch \cap Running /\ Finish(stops)
<1>0. Types /\ Stamped /\ Stashes /\ Modes /\ StashSurvives /\ RingIsOwned /\ DoneIsNext
  BY DEF Inv
<1>1. /\ Updating = updated + 1 /\ updated \in Nat /\ sampled \in Nat /\ sampled <= Scheduled
      /\ Scheduled \in Nat /\ Updating <= sampled /\ updated' = Updating /\ Sweep
      /\ UNCHANGED <<updateMode, steps, sampled, seq, ring>>
  BY <1>0, Elements DEF Types, Update, Updating
<1>2. Updating \in 1 .. sampled /\ Updating \in 1 .. Scheduled
  BY <1>1
<1>3. /\ Step.seq \in Nat /\ Step = steps[Updating]
      /\ \A k \in 1 .. Scheduled : steps[k].seq \in Nat
  BY <1>0, <1>2, Elements, StepFields, HandshakeAssumption DEF Step
<1>4. stash' = stash
  <2>1. SUFFICES ASSUME stash # None, Step.seq # 0, stash.seq <= Step.seq PROVE FALSE
    BY <1>1 DEF Sweep
  <2>2. stash \in StashType /\ IsOf(stash) /\ stash.step > sampled
    BY <1>0, <2>1 DEF Types, Stashes, StashSurvives
  <2>3. stash.step \in 1 .. Scheduled /\ Updating < stash.step
        /\ stash.seq = steps[stash.step].seq /\ stash.seq # 0
    BY <1>1, <2>2, StashFields DEF IsOf
  <2>4. Step.seq < stash.seq
    BY <1>0, <1>2, <1>3, <2>1, <2>3 DEF Stamped
  <2> QED BY <1>3, <2>1, <2>3, <2>4
<1>5. CASE updateMode /\ pending # <<>>
  <2>1. UpdateFromRing /\ done = None
    BY <1>0, <1>5 DEF Update, Modes
  <2>2. /\ 1 \in DOMAIN pending /\ Oldest = pending[1] /\ pending[1] \in EntryType
        /\ DOMAIN pending = 1 .. Len(pending)
    <3>1. pending \in Seq(EntryType)
      BY <1>0 DEF Types
    <3>2. Len(pending) # 0 /\ Len(pending) \in Nat /\ DOMAIN pending = 1 .. Len(pending)
          /\ Head(pending) = pending[1]
      BY <1>5, <3>1, EmptySeq, LenProperties, HeadTailProperties
    <3> QED BY <1>0, <3>2, Elements DEF Oldest
  <2>3. /\ Oldest.stash \in StashType /\ IsOf(Oldest.stash) /\ Oldest.stash.seq # 0
        /\ Oldest.stash.seq = steps[Oldest.stash.step].seq /\ Oldest.stash.step \in Nat
        /\ updated < Oldest.stash.step /\ Oldest.stash.step <= sampled
        /\ Oldest.stash.step \in 1 .. Scheduled /\ Oldest.stash.seq \in Nat
        /\ ring[Oldest.slot] = [step |-> Oldest.stash.step, took |-> Oldest.took]
    <3>1. Oldest.stash \in StashType /\ IsOf(Oldest.stash)
      BY <1>0, <2>2, StashFields DEF Stashes
    <3>2. /\ updated < Oldest.stash.step /\ Oldest.stash.step <= sampled
          /\ ring[Oldest.slot] = [step |-> Oldest.stash.step, took |-> Oldest.took]
      BY <1>0, <2>2 DEF RingIsOwned
    <3>3. Oldest.stash.step \in Nat /\ Oldest.stash.seq \in Nat
      BY <3>1, StashFields, HandshakeAssumption
    <3>4. Oldest.stash.step \in 1 .. Scheduled
      BY <1>1, <3>2, <3>3
    <3> QED BY <3>1, <3>2, <3>3, <3>4 DEF IsOf
  <2>4. \A i \in DOMAIN pending : i = 1 \/ Oldest.stash.step < pending[i].stash.step
    <3>1. \A i \in DOMAIN pending : i = 1 \/ 1 < i
      BY <2>2
    <3> QED BY <1>0, <2>2, <3>1 DEF RingIsOwned
  <2>5. \A i \in DOMAIN pending : pending[i].stash.step \in Nat
    BY <1>0, Elements, StashFields, HandshakeAssumption
  <2>6. CASE Oldest.stash.seq > Step.seq /\ Decide /\ UNCHANGED <<pending, live, done>>
    <3>1. Oldest.stash.step # Updating
      BY <1>3, <2>3, <2>6
    <3>2. Updating < Oldest.stash.step
      BY <1>1, <2>3, <3>1
    <3>3. \A i \in DOMAIN pending : Updating < pending[i].stash.step
      BY <1>1, <2>2, <2>3, <2>4, <2>5, <3>2
    <3> QED BY <1>1, <1>2, <1>4, <2>1, <2>6, <3>3
  <2>7. CASE Oldest.stash.seq <= Step.seq /\ Refuse /\ Decide
    <3>1. pending' = <<>> /\ live' = "refused" /\ done' = None
      BY <2>7 DEF Refuse
    <3> QED BY <1>1, <1>2, <1>4, <2>1, <2>7, <3>1
  <2>8. CASE /\ Oldest.stash.seq = Step.seq
             /\ IF RunnerOwns(Oldest.stash) THEN Commit(Oldest) ELSE Decide
             /\ pending' = Tail(pending) /\ UNCHANGED <<live, done>>
    <3>1. Oldest.stash.step = Updating
      <4>1. ~(Updating < Oldest.stash.step)
        <5>1. SUFFICES ASSUME Updating < Oldest.stash.step PROVE FALSE
          OBVIOUS
        <5>2. steps[Updating].seq = steps[Oldest.stash.step].seq /\ steps[Updating].seq # 0
          BY <1>3, <2>3, <2>8
        <5>3. steps[Updating].seq < steps[Oldest.stash.step].seq
          BY <1>0, <1>2, <2>3, <5>1, <5>2 DEF Stamped
        <5> QED BY <1>2, <1>3, <5>2, <5>3
      <4> QED BY <1>1, <2>3, <4>1
    <3>2. Decide
      <4>1. CASE RunnerOwns(Oldest.stash)
        <5>1. Commit(Oldest) /\ Oldest \in EntryType
          BY <2>2, <2>8, <4>1
        <5> QED BY <2>3, <3>1, <4>1, <5>1, CommitIsDecide
      <4>2. CASE ~RunnerOwns(Oldest.stash)
        BY <2>8, <4>2
      <4> QED BY <4>1, <4>2
    <3> QED BY <1>1, <1>2, <1>4, <1>5, <2>1, <2>2, <2>8, <3>1, <3>2
  <2> QED BY <2>1, <2>6, <2>7, <2>8 DEF UpdateFromRing
<1>6. CASE ~(updateMode /\ pending # <<>>)
  <2>1. pending = <<>> /\ DOMAIN pending = {}
    BY <1>0, <1>6 DEF Modes
  <2>2. CASE done # None
    <3>1. /\ UpdateFromDone
          /\ \E stops \in SUBSET (Step.batch \cap Running) : Finish([r \in stops |-> Step.ran])
      BY <1>6, <2>2 DEF Update, UpdateFromDone
    <3>2. \E stops : DOMAIN stops \subseteq Step.batch \cap Running /\ Finish(stops)
      <4>1. PICK S \in SUBSET (Step.batch \cap Running) : Finish([r \in S |-> Step.ran])
        BY <3>1
      <4>2. DOMAIN [r \in S |-> Step.ran] \subseteq Step.batch \cap Running
        OBVIOUS
      <4> QED BY <4>1, <4>2
    <3>3. done' = None /\ pending' = <<>> /\ live' = live /\ store' = store
      BY <2>1, <3>1 DEF UpdateFromDone
    <3> QED BY <1>1, <1>2, <1>4, <2>2, <3>2, <3>3
  <2>3. CASE done = None
    <3>1. Decide /\ UNCHANGED <<pending, live, done>>
      BY <1>6, <2>3 DEF Update
    <3> QED BY <1>1, <1>2, <1>4, <2>1, <2>3, <3>1
  <2> QED BY <2>2, <2>3
<1> QED BY <1>5, <1>6

LEMMA UpdateKeeps == Inv /\ Update => Inv'
<1> SUFFICES ASSUME Inv, Update PROVE Inv'
  OBVIOUS
<1> DEFINE batch == Step.batch \cap Running
<1>0. /\ Types /\ Registry /\ Seen /\ Batches /\ Stamped /\ Stashes /\ Modes
      /\ StashSurvives /\ RingIsOwned /\ DoneIsNext /\ TokensAsComputed
  BY DEF Inv
<1>1. /\ Updating \in 1 .. sampled /\ updated' = Updating /\ stash' = stash
      /\ UNCHANGED <<updateMode, steps, sampled, seq, ring>>
      /\ done' = None /\ live' \in {live, "refused"}
      /\ \/ pending' = <<>>
         \/ pending' = pending /\ \A i \in DOMAIN pending : Updating < pending[i].stash.step
         \/ pending # <<>> /\ pending' = Tail(pending) /\ pending[1].stash.step = Updating
      /\ \/ done = None /\ Decide
         \/ /\ done # None /\ store' = store
            /\ \E stops : DOMAIN stops \subseteq batch /\ Finish(stops)
  BY UpdateShape
<1>2. /\ sampled \in Nat /\ updated \in Nat /\ Scheduled \in Nat /\ sampled <= Scheduled
      /\ Updating = updated + 1 /\ Updating \in 1 .. Scheduled
  <2>1. sampled \in Nat /\ updated \in Nat /\ Scheduled \in Nat /\ sampled <= Scheduled
        /\ Updating = updated + 1
    BY <1>0, Elements DEF Types, Updating
  <2> QED BY <1>1, <2>1
<1>3. /\ Step = steps[Updating] /\ Step.ran \in Nat /\ batch \subseteq Req
      /\ \A r \in batch : r \in Step.batch /\ status[r] = "running"
      /\ \A r \in Req : r \in Step.batch /\ status[r] = "running" => r \in batch
  BY <1>0, <1>2, Elements, StepFields, HandshakeAssumption DEF Step, Running
<1> HIDE DEF batch
\* The tokens of the update, where it gives any.
<1>4. ASSUME done = None, NEW stops \in Stops(batch), Finish(stops),
             store' = [r \in Req |-> IF r \in batch THEN store[r] \o Tokens(Updating, Taken(r, stops))
                                     ELSE store[r]],
             \A r \in Req : /\ r \in DOMAIN stops => status'[r] = "finished"
                            /\ r \notin DOMAIN stops => status'[r] = status[r]
      PROVE  store' \in [Req -> Seq(Token)] /\ TokensAsComputed'
  <2>1. Applied = updated /\ Applied' = Applied + 1 /\ Applied + 1 = Updating
    BY <1>1, <1>2, <1>4 DEF Applied
  <2>2. ASSUME NEW r \in Req
        PROVE  /\ Computed(r)' = Computed(r) \cup (IF r \in Step.batch
                                                   THEN Given(Updating, Step.ran) ELSE {})
               /\ Computed(r) \in SUBSET Token /\ \A t \in Computed(r) : t[1] < Updating
    <3>1. Computed(r) \in SUBSET Token /\ \A t \in Computed(r) : t[1] <= Applied /\ t[1] \in Nat
      BY <1>0, ComputedIs
    <3>2. \A t \in Computed(r) : t[1] < Updating
      BY <1>2, <2>1, <3>1
    <3>3. Computed(r)' = Computed(r) \cup (IF r \in Step.batch
                                           THEN Given(Updating, Step.ran) ELSE {})
      BY <1>0, <1>1, <1>3, <2>1, MoreComputed
    <3> QED BY <3>1, <3>2, <3>3
  <2>3. ASSUME NEW r \in Req, r \in batch
        PROVE  /\ store'[r] \in Seq(Token)
               /\ r \notin DOMAIN stops => AllOf(store'[r], Computed(r)')
               /\ FirstOf(store'[r], Computed(r)')
    <3> DEFINE m == Taken(r, stops)
    <3>1. m \in 0 .. Step.ran /\ (r \notin DOMAIN stops => m = Step.ran)
      BY <1>3, StopsAre
    <3>2. status[r] = "running" /\ r \in Step.batch /\ store'[r] = store[r] \o Tokens(Updating, m)
      BY <1>3, <1>4, <2>3
    <3>3. store[r] \in Seq(Token) /\ AllOf(store[r], Computed(r))
      BY <1>0, <3>2 DEF Types, TokensAsComputed
    <3>4. Computed(r)' = Computed(r) \cup Given(Updating, Step.ran)
      BY <2>2, <3>2
    <3> HIDE DEF m
    <3>5. /\ store[r] \o Tokens(Updating, m) \in Seq(Token)
          /\ m = Step.ran => AllOf(store[r] \o Tokens(Updating, m),
                                   Computed(r) \cup Given(Updating, Step.ran))
          /\ FirstOf(store[r] \o Tokens(Updating, m), Computed(r) \cup Given(Updating, Step.ran))
      <4>1. Updating \in Nat
        BY <1>2
      <4> QED BY <1>3, <2>2, <3>1, <3>3, <4>1, TakesStep
    <3> QED BY <3>1, <3>2, <3>4, <3>5
  <2>4. ASSUME NEW r \in Req, r \notin batch
        PROVE  /\ store'[r] = store[r]
               /\ status[r] = "running" => Computed(r)' = Computed(r)
               /\ FirstOf(store'[r], Computed(r)')
    <3>1. store'[r] = store[r]
      BY <1>4, <2>4
    <3>2. status[r] = "running" => Computed(r)' = Computed(r)
      BY <1>3, <2>2, <2>4
    <3>3. FirstOf(store[r], Computed(r))
      BY <1>0, WhatEachHas
    <3>4. Updating \in Nat
      BY <1>2
    <3>5. FirstOf(store[r], Computed(r) \cup Given(Updating, Step.ran))
      BY <1>3, <2>2, <3>3, <3>4, FirstStays
    <3>6. Computed(r)' = Computed(r) \/ Computed(r)' = Computed(r) \cup Given(Updating, Step.ran)
      BY <2>2
    <3> QED BY <3>1, <3>2, <3>3, <3>5, <3>6
  <2>5. store' \in [Req -> Seq(Token)]
    <3>1. \A r \in Req : store'[r] \in Seq(Token)
      BY <1>0, <2>3, <2>4 DEF Types
    <3>2. store' = [r \in Req |-> store'[r]]
      BY <1>4
    <3> QED BY <3>1, <3>2
  <2>6. TokensAsComputed'
    <3> SUFFICES ASSUME NEW r \in Req
                 PROVE  /\ status'[r] = "running" => AllOf(store'[r], Computed(r)')
                        /\ status'[r] = "finished" => FirstOf(store'[r], Computed(r)')
      BY DEF TokensAsComputed
    <3>1. status'[r] = "running" => status[r] = "running" /\ r \notin DOMAIN stops
      BY <1>4
    <3>2. CASE r \in batch
      BY <2>3, <3>1, <3>2
    <3>3. CASE r \notin batch
      BY <1>0, <2>4, <3>1, <3>3 DEF TokensAsComputed
    <3> QED BY <3>2, <3>3
  <2> QED BY <2>5, <2>6
\* The requests that stop, and all else.
<1>5. ASSUME NEW stops, DOMAIN stops \subseteq batch, Finish(stops)
      PROVE  /\ Registry' /\ Seen' /\ Settled
             /\ slotOf' \in [Req -> Slots \cup {NoSlot}] /\ freeSlots' \in Seq(Slots)
             /\ status' \in [Req -> StatusType] /\ known' \subseteq Req
             /\ \A r \in Req : /\ r \in DOMAIN stops => status'[r] = "finished"
                               /\ r \notin DOMAIN stops => status'[r] = status[r]
  <2>1. Forget(DOMAIN stops) /\ known' = (known \cup batch) \ DOMAIN stops
    BY <1>5 DEF Finish, batch
  <2>2. DOMAIN stops \subseteq {r \in Req : status[r] \in {"waiting", "running"}}
    BY <1>3, <1>5
  <2>3. /\ Registry' /\ Settled
        /\ slotOf' \in [Req -> Slots \cup {NoSlot}] /\ freeSlots' \in Seq(Slots)
        /\ status' \in [Req -> StatusType]
        /\ \A r \in Req : /\ r \in DOMAIN stops => status'[r] = "finished"
                          /\ r \notin DOMAIN stops => status'[r] = status[r] /\ slotOf'[r] = slotOf[r]
    BY <1>0, <2>1, <2>2, Forgotten
  <2>4. known \subseteq Req
    BY <1>0 DEF Types
  <2>5. Seen'
    <3> SUFFICES ASSUME NEW r \in known'
                 PROVE  status'[r] = "running" /\ \E k \in 1 .. updated' : r \in steps'[k].batch
      BY DEF Seen
    <3>1. r \in Req /\ r \notin DOMAIN stops /\ (r \in known \/ r \in batch)
      BY <1>3, <2>1, <2>4
    <3>2. status[r] = "running"
      BY <1>0, <1>3, <3>1 DEF Seen
    <3>3. \E k \in 1 .. updated' : r \in steps[k].batch
      <4>1. Updating \in 1 .. updated' /\ \A k \in 1 .. updated : k \in 1 .. updated'
        BY <1>1, <1>2
      <4> QED BY <1>0, <1>3, <3>1, <4>1 DEF Seen
    <3> QED BY <1>1, <2>3, <3>1, <3>2, <3>3
  <2> QED BY <1>3, <2>1, <2>3, <2>4, <2>5
<1>6. /\ store' \in [Req -> Seq(Token)] /\ TokensAsComputed'
      /\ \A r \in Req : r \notin batch => store'[r] = store[r]
      /\ \E stops : DOMAIN stops \subseteq batch /\ Finish(stops)
  <2>1. CASE done = None /\ Decide
    <3>1. PICK stops \in Stops(batch) :
            /\ store' = [r \in Req |-> IF r \in batch
                                       THEN store[r] \o Tokens(Updating, Taken(r, stops)) ELSE store[r]]
            /\ Finish(stops)
      BY <2>1 DEF Decide, batch
    <3>2. DOMAIN stops \subseteq batch
      BY <1>3, StopsAre
    <3>3. \A r \in Req : /\ r \in DOMAIN stops => status'[r] = "finished"
                         /\ r \notin DOMAIN stops => status'[r] = status[r]
      BY <1>5, <3>1, <3>2
    <3>4. store' \in [Req -> Seq(Token)] /\ TokensAsComputed'
      BY <1>4, <2>1, <3>1, <3>3
    <3>5. \A r \in Req : r \notin batch => store'[r] = store[r]
      BY <3>1
    <3> QED BY <3>1, <3>2, <3>4, <3>5
  <2>2. CASE /\ done # None /\ store' = store
             /\ \E stops : DOMAIN stops \subseteq batch /\ Finish(stops)
    <3>1. PICK stops : DOMAIN stops \subseteq batch /\ Finish(stops)
      BY <2>2
    <3>2. \A r \in Req : status'[r] = "running" => status[r] # "finished"
      BY <1>3, <1>5, <3>1
    <3>3. Applied' = Applied
      BY <1>0, <1>1, <1>2, <2>2 DEF Applied, DoneIsNext
    <3>4. TokensAsComputed'
      BY <1>0, <1>1, <2>2, <3>2, <3>3, SameTokens
    <3> QED BY <1>0, <2>2, <3>4 DEF Types
  <2> QED BY <1>1, <2>1, <2>2
<1>7. PICK stops : DOMAIN stops \subseteq batch /\ Finish(stops)
  BY <1>6
<1>8. /\ Registry' /\ Seen' /\ Settled
      /\ slotOf' \in [Req -> Slots \cup {NoSlot}] /\ freeSlots' \in Seq(Slots)
      /\ status' \in [Req -> StatusType] /\ known' \subseteq Req
      /\ \A r \in Req : /\ r \in DOMAIN stops => status'[r] = "finished"
                        /\ r \notin DOMAIN stops => status'[r] = status[r]
  BY <1>5, <1>7
<1>9. KeptSteps /\ Scheduled' = Scheduled
  BY <1>0, <1>1, <1>2 DEF KeptSteps, Scheduled, Types
<1>10. Batches' /\ Stamped'
  <2>1. \A r \in Req : status'[r] \in {"new", "waiting"} =>
          status[r] \in {"new", "waiting"} /\ store'[r] = store[r]
    BY <1>3, <1>6, <1>8
  <2> QED BY <1>0, <1>1, <1>8, <1>9, <2>1, SameSteps
<1>11. /\ pending' \in Seq(EntryType)
       /\ \A i \in DOMAIN pending' :
            \E j \in DOMAIN pending : pending'[i] = pending[j] /\ updated' < pending[j].stash.step
       /\ \A i, j \in DOMAIN pending' : i < j =>
            pending'[i].slot # pending'[j].slot /\ pending'[i].stash.step < pending'[j].stash.step
  <2>1. CASE pending' = <<>>
    <3>1. DOMAIN pending' = {} /\ pending' \in Seq(EntryType)
      BY <2>1
    <3> QED BY <3>1
  <2>2. CASE pending' = pending /\ \A i \in DOMAIN pending : Updating < pending[i].stash.step
    <3>1. pending' \in Seq(EntryType)
      BY <1>0, <2>2 DEF Types
    <3> QED BY <1>0, <1>1, <2>2, <3>1 DEF RingIsOwned
  <2>3. CASE pending # <<>> /\ pending' = Tail(pending) /\ pending[1].stash.step = Updating
    <3> DEFINE n == Len(pending)
    <3>1. /\ pending' \in Seq(EntryType) /\ n \in Nat /\ DOMAIN pending = 1 .. n /\ n # 0
          /\ DOMAIN pending' = 1 .. n - 1 /\ \A i \in 1 .. n - 1 : pending'[i] = pending[i + 1]
      <4>1. pending \in Seq(EntryType)
        BY <1>0 DEF Types
      <4>2. /\ Tail(pending) \in Seq(EntryType) /\ Len(Tail(pending)) = n - 1
            /\ n \in Nat /\ n # 0 /\ DOMAIN pending = 1 .. n
            /\ \A i \in 1 .. Len(Tail(pending)) : Tail(pending)[i] = pending[i + 1]
        BY <2>3, <4>1, HeadTailProperties, LenProperties, EmptySeq
      <4>3. DOMAIN Tail(pending) = 1 .. n - 1
        BY <4>2, LenProperties
      <4> QED BY <2>3, <4>2, <4>3
    <3> HIDE DEF n
    <3>2. \A i \in DOMAIN pending' : i + 1 \in DOMAIN pending /\ 1 \in DOMAIN pending /\ 1 < i + 1
      BY <3>1
    <3>3. \A i \in DOMAIN pending' : pending[1].stash.step < pending[i + 1].stash.step
      BY <1>0, <3>2 DEF RingIsOwned
    <3>4. \A i \in DOMAIN pending' :
            \E j \in DOMAIN pending : pending'[i] = pending[j] /\ updated' < pending[j].stash.step
      BY <1>1, <2>3, <3>1, <3>2, <3>3
    <3>5. ASSUME NEW i \in DOMAIN pending', NEW j \in DOMAIN pending', i < j
          PROVE  pending'[i].slot # pending'[j].slot
                 /\ pending'[i].stash.step < pending'[j].stash.step
      <4>1. i + 1 < j + 1 /\ pending'[i] = pending[i + 1] /\ pending'[j] = pending[j + 1]
        BY <3>1, <3>5
      <4> QED BY <1>0, <3>2, <4>1 DEF RingIsOwned
    <3> QED BY <3>1, <3>4, <3>5
  <2> QED BY <1>1, <2>1, <2>2, <2>3
<1>12. Stashes'
  BY <1>0, <1>1, <1>8, <1>9, <1>11, StashesStay
<1>13. Types'
  <2>1. live' \in {"unarmed", "live", "refused"} /\ done' \in DoneType \cup {None}
    BY <1>0, <1>1 DEF Types
  <2>2. updated' \in Nat /\ updated' <= sampled
    BY <1>1, <1>2
  <2> QED BY <1>0, <1>1, <1>6, <1>8, <1>9, <1>11, <2>1, <2>2 DEF Types
<1>14. Modes'
  <2>1. pending' # <<>> => pending # <<>>
    <3>1. CASE pending # <<>>
      BY <3>1
    <3>2. CASE pending = <<>>
      BY <1>1, <3>2
    <3> QED BY <3>1, <3>2
  <2> QED BY <1>0, <1>1, <2>1 DEF Modes
<1>15. StashSurvives'
  BY <1>0, <1>1, <1>9 DEF StashSurvives
<1>16. RingIsOwned'
  <2>1. \A i \in DOMAIN pending' :
          /\ updated' < pending'[i].stash.step /\ pending'[i].stash.step <= sampled'
          /\ ring'[pending'[i].slot] = [step |-> pending'[i].stash.step, took |-> pending'[i].took]
    BY <1>0, <1>1, <1>11 DEF RingIsOwned
  <2> QED BY <1>11, <2>1 DEF RingIsOwned
<1>17. DoneIsNext'
  BY <1>1 DEF DoneIsNext
<1> QED BY <1>6, <1>8, <1>10, <1>12, <1>13, <1>14, <1>15, <1>16, <1>17 DEF Inv

------------------------------------------------------------------------------
(* The theorems.                                                             *)

LEMMA Invariant == Spec => []Inv
<1>1. Init => Inv
  BY Initially
<1>2. Inv /\ [Next]_vars => Inv'
  <2> SUFFICES ASSUME Inv, [Next]_vars PROVE Inv'
    OBVIOUS
  <2>1. CASE UNCHANGED vars
    BY <2>1, Stutters
  <2>2. ASSUME NEW r \in Req, Arrive(r) \/ Abort(r) PROVE Inv'
    BY <2>2, ArriveKeeps, AbortKeeps
  <2>3. CASE Arm \/ Schedule \/ Update
    BY <2>3, ArmKeeps, ScheduleKeeps, UpdateKeeps
  <2>4. CASE SampleInPython \/ SampleByLaunch \/ LaunchRaises \/ SampleAndCommit
    BY <2>4, SampleInPythonKeeps, SampleByLaunchKeeps, LaunchRaisesKeeps, SampleAndCommitKeeps
  <2> QED BY <2>1, <2>2, <2>3, <2>4 DEF Next
<1> QED BY <1>1, <1>2, PTL DEF Spec

\* A stash is there exactly until its own step is sampled: the sweep at the
\* updates, the samples of other steps, and rollbacks leave it.
THEOREM StashesSurvive == Spec => []StashSurvives
<1>1. Inv => StashSurvives
  BY DEF Inv
<1> QED BY <1>1, Invariant, PTL

\* The state has its types; a launch waits in a ring slot of its own for the
\* update of its own step, and results are read back in the order of the steps.
THEOREM ResultsReadInOrder == Spec => []ResultsInOrder
<1>1. Inv => ResultsInOrder
  <2> SUFFICES ASSUME Inv PROVE ResultsInOrder
    OBVIOUS
  <2>1. Types /\ Registry /\ Seen /\ RingIsOwned /\ DoneIsNext
    BY DEF Inv
  <2>2. /\ sampled \in 0 .. Scheduled /\ updated \in 0 .. sampled /\ seq \in 0 .. MaxSteps
    BY <2>1, Elements, HandshakeAssumption DEF Types
  <2>3. \A i \in DOMAIN pending :
          /\ pending[i].slot \in Ring /\ pending[i].stash \in StashType
          /\ pending[i].took \in 1 .. MaxLaunches
    BY <2>1, Elements, StashFields
  <2>4. known \subseteq Running /\ IsInjective(freeSlots)
    BY <2>1 DEF Types, Seen, Registry, Running
  <2>5. TypeOK
    BY <2>1, <2>2, <2>3, <2>4 DEF Types, TypeOK, StatusType
  <2> QED BY <2>1, <2>5 DEF ResultsInOrder
<1> QED BY <1>1, Invariant, PTL

\* Every request that runs has exactly the tokens its steps computed for it,
\* in order, and one that is over the first of them: whichever side commits a
\* step, and whoever holds the slots by then.
THEOREM TokensAreAsComputed == Spec => []TokensAsComputed
<1>1. Inv => TokensAsComputed
  BY DEF Inv
<1> QED BY <1>1, Invariant, PTL

=============================================================================
