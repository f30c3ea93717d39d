------------------------ MODULE RequestChannelProofs ------------------------
(***************************************************************************)
(* The request path neither loses nor doubles a message, and an abort that *)
(* has gone the way of its ADD ends the request: for every set of          *)
(* requests, every buffer and either reader.                               *)
(***************************************************************************)
EXTENDS RequestChannel, SequenceTheorems, FiniteSetTheorems, TLAPS

------------------------------------------------------------------------------
(* How often a message is in a queue.                                        *)

Positions(q, m) == {i \in DOMAIN q : q[i] = m}

LEMMA PositionsFinite ==
  ASSUME NEW T, NEW q \in Seq(T), NEW m
  PROVE  /\ Positions(q, m) \subseteq 1 .. Len(q) /\ Len(q) \in Nat
         /\ IsFiniteSet(Positions(q, m)) /\ Count(q, m) = Cardinality(Positions(q, m))
         /\ Count(q, m) \in Nat
         /\ (Count(q, m) = 0 <=> m \notin Range(q))
<1>1. Len(q) \in Nat /\ DOMAIN q = 1 .. Len(q) /\ Positions(q, m) \subseteq 1 .. Len(q)
  BY LenProperties DEF Positions
<1>2. IsFiniteSet(1 .. Len(q))
  BY <1>1, FS_Interval
<1>3. IsFiniteSet(Positions(q, m)) /\ Count(q, m) = Cardinality(Positions(q, m))
  BY <1>1, <1>2, FS_Subset DEF Count, Positions
<1>4. Count(q, m) \in Nat /\ (Count(q, m) = 0 <=> Positions(q, m) = {})
  BY <1>3, FS_CardinalityType, FS_EmptySet
<1>5. Positions(q, m) = {} <=> m \notin Range(q)
  BY DEF Positions, Range
<1> QED BY <1>1, <1>3, <1>4, <1>5

LEMMA CountEmpty == \A m : Count(<<>>, m) = 0
<1>1. \A m : Positions(<<>>, m) = {}
  BY DEF Positions
<1> QED BY <1>1, FS_EmptySet DEF Count, Positions

LEMMA CountOne == \A h, m : Count(<<h>>, m) = IF h = m THEN 1 ELSE 0
<1> TAKE h, m
<1>1. Positions(<<h>>, m) = IF h = m THEN {1} ELSE {}
  BY DEF Positions
<1>2. Cardinality({1}) = 1 /\ Cardinality({}) = 0
  BY FS_Singleton, FS_EmptySet
<1> QED BY <1>1, <1>2 DEF Count, Positions

LEMMA CountAppend ==
  ASSUME NEW T, NEW q \in Seq(T), NEW e \in T, NEW m
  PROVE  Count(Append(q, e), m) = Count(q, m) + (IF e = m THEN 1 ELSE 0)
<1>1. /\ Append(q, e) \in Seq(T) /\ DOMAIN Append(q, e) = 1 .. Len(q) + 1
      /\ DOMAIN q = 1 .. Len(q) /\ Len(q) \in Nat
      /\ \A i \in 1 .. Len(q) : Append(q, e)[i] = q[i]
      /\ Append(q, e)[Len(q) + 1] = e
  BY AppendProperties, LenProperties
<1>2. /\ Len(q) + 1 \notin Positions(q, m) /\ IsFiniteSet(Positions(q, m))
      /\ Count(q, m) = Cardinality(Positions(q, m)) /\ Count(q, m) \in Nat
      /\ Count(Append(q, e), m) = Cardinality(Positions(Append(q, e), m))
  <2>1. Positions(q, m) \subseteq 1 .. Len(q) /\ Len(q) + 1 \notin 1 .. Len(q)
    BY <1>1, PositionsFinite
  <2> QED BY <2>1, <1>1, PositionsFinite
<1>3. CASE e = m
  <2>1. Positions(Append(q, e), m) = Positions(q, m) \cup {Len(q) + 1}
    BY <1>1, <1>3 DEF Positions
  <2>2. Cardinality(Positions(q, m) \cup {Len(q) + 1}) = Cardinality(Positions(q, m)) + 1
    BY <1>2, FS_AddElement
  <2> QED BY <1>2, <1>3, <2>1, <2>2
<1>4. CASE e # m
  <2>1. Positions(Append(q, e), m) = Positions(q, m)
    BY <1>1, <1>4 DEF Positions
  <2> QED BY <1>2, <1>4, <2>1
<1> QED BY <1>3, <1>4

\* The second part of a concatenation keeps its count: its positions move by
\* the length of the first.
LEMMA CountConcat ==
  ASSUME NEW T, NEW q \in Seq(T), NEW r \in Seq(T), NEW m
  PROVE  Count(q \o r, m) = Count(q, m) + Count(r, m)
<1> DEFINE n == Len(q)
           A == Positions(q, m)
           B == Positions(r, m)
           C == {i \in n + 1 .. n + Len(r) : i - n \in B}
<1>1. /\ q \o r \in Seq(T) /\ DOMAIN (q \o r) = 1 .. n + Len(r)
      /\ n \in Nat /\ Len(r) \in Nat /\ DOMAIN q = 1 .. n /\ DOMAIN r = 1 .. Len(r)
      /\ \A i \in 1 .. n + Len(r) : (q \o r)[i] = IF i <= n THEN q[i] ELSE r[i - n]
  BY ConcatProperties, LenProperties
<1>2. /\ A \subseteq 1 .. n /\ IsFiniteSet(A) /\ Count(q, m) = Cardinality(A)
      /\ B \subseteq 1 .. Len(r) /\ IsFiniteSet(B) /\ Count(r, m) = Cardinality(B)
      /\ Count(q \o r, m) = Cardinality(Positions(q \o r, m))
      /\ Count(q, m) \in Nat /\ Count(r, m) \in Nat
  BY <1>1, PositionsFinite
<1>3. Positions(q \o r, m) = A \cup C
  <2>1. ASSUME NEW i \in 1 .. n + Len(r) PROVE (q \o r)[i] = m <=> i \in A \/ i \in C
    <3>1. CASE i <= n
      BY <1>1, <3>1 DEF Positions
    <3>2. CASE i > n
      <4>1. i - n \in 1 .. Len(r) /\ i \in n + 1 .. n + Len(r) /\ i \notin A
        BY <1>1, <1>2, <3>2
      <4>2. (q \o r)[i] = r[i - n]
        BY <1>1, <3>2
      <4> QED BY <1>1, <4>1, <4>2 DEF Positions
    <3> QED BY <1>1, <3>1, <3>2
  <2>2. A \subseteq 1 .. n + Len(r) /\ C \subseteq 1 .. n + Len(r)
    BY <1>1, <1>2
  <2> QED BY <1>1, <2>1, <2>2 DEF Positions
<1>4. IsFiniteSet(C) /\ Cardinality(C) = Cardinality(B)
  <2> DEFINE f == [i \in B |-> i + n]
  <2>1. f \in [B -> C]
    BY <1>1, <1>2
  <2>2. \A i, j \in B : f[i] = f[j] => i = j
    BY <1>1, <1>2
  <2>3. \A i \in C : \E j \in B : f[j] = i
    <3>1. ASSUME NEW i \in C PROVE i - n \in B /\ f[i - n] = i
      BY <1>1
    <3> QED BY <3>1
  <2> HIDE DEF f
  <2>4. f \in Bijection(B, C)
    BY <2>1, <2>2, <2>3, Zenon DEF Bijection, Injection, Surjection, IsInjective
  <2>5. ExistsBijection(B, C)
    BY <2>4 DEF ExistsBijection
  <2> QED BY <1>2, <2>5, FS_Bijection
<1>5. A \cap C = {}
  BY <1>1, <1>2
<1>6. Cardinality(A \cup C) = Cardinality(A) + Cardinality(C)
  <2>1. Cardinality(A \cup C) = Cardinality(A) + Cardinality(C) - Cardinality(A \cap C)
    BY <1>2, <1>4, FS_Union
  <2>2. Cardinality(A \cap C) = 0
    BY <1>5, FS_EmptySet
  <2>3. Cardinality(A) \in Nat /\ Cardinality(C) \in Nat
    BY <1>2, <1>4, FS_CardinalityType
  <2> HIDE DEF A, C
  <2> QED BY <2>1, <2>2, <2>3
<1> QED BY <1>2, <1>3, <1>4, <1>6

LEMMA CountTail ==
  ASSUME NEW T, NEW q \in Seq(T), q # <<>>, NEW m
  PROVE  Count(q, m) = Count(Tail(q), m) + (IF Head(q) = m THEN 1 ELSE 0)
<1>1. Head(q) \in T /\ Tail(q) \in Seq(T) /\ <<Head(q)>> \in Seq(T)
  BY HeadTailProperties
<1>2. q = <<Head(q)>> \o Tail(q)
  OBVIOUS
<1>3. Count(<<Head(q)>>, m) = IF Head(q) = m THEN 1 ELSE 0
  BY CountOne
<1>4. Count(q, m) = Count(<<Head(q)>>, m) + Count(Tail(q), m)
  <2>1. Count(<<Head(q)>> \o Tail(q), m) = Count(<<Head(q)>>, m) + Count(Tail(q), m)
    BY <1>1, CountConcat
  <2> QED BY <1>2, <2>1, Zenon
<1>5. Count(Tail(q), m) \in Nat
  BY <1>1, PositionsFinite
<1> QED BY <1>3, <1>4, <1>5

------------------------------------------------------------------------------
(* Types.                                                                    *)

LEMMA Messages ==
  /\ \A x \in Req : Add(x) \in Msg /\ Abort(x) \in Msg
  /\ \A x \in Req : Add(x).kind = "add" /\ Add(x).id = x
  /\ \A x \in Req : Abort(x).kind = "abort" /\ Abort(x).id = x
  /\ \A m \in Msg : m.kind \in {"add", "abort"} /\ m.id \in Req
  /\ \A m \in Msg : m.kind = "add" => m = Add(m.id)
  /\ \A m \in Msg : m.kind = "abort" => m = Abort(m.id)
BY DEF Msg, Add, Abort

LEMMA RangeIn ==
  ASSUME NEW T, NEW q \in Seq(T)
  PROVE  Range(q) \subseteq T
<1>1. DOMAIN q = 1 .. Len(q) /\ \A i \in 1 .. Len(q) : q[i] \in T
  BY LenProperties, ElementOfSeq
<1> QED BY <1>1 DEF Range

\* The variables of the queues, for one message that is dispatched.
LEMMA DispatchTypes ==
  ASSUME TypeOK, NEW t \in Threads, NEW m \in Msg, Dispatch(t, m)
  PROVE  /\ aborts' \in Seq(Msg) /\ input' \in Seq(Msg)
         /\ held' \in [Threads -> Seq(Msg)] /\ rejected' \subseteq Msg
<1>1. /\ aborts \in Seq(Msg) /\ input \in Seq(Msg)
      /\ held \in [Threads -> Seq(Msg)] /\ rejected \subseteq Msg
  BY DEF TypeOK
<1>2. /\ Append(aborts, m) \in Seq(Msg) /\ Append(input, m) \in Seq(Msg)
      /\ <<m>> \in Seq(Msg)
  BY <1>1, AppendProperties
<1>3. aborts' \in Seq(Msg) /\ input' \in Seq(Msg)
  BY <1>1, <1>2, Zenon DEF Dispatch
<1>4. held' \in [Threads -> Seq(Msg)]
  <2>1. held' = held \/ held' = [held EXCEPT ![t] = <<m>>]
    BY Zenon DEF Dispatch
  <2> QED BY <1>1, <1>2, <2>1
<1>5. rejected' = rejected \/ rejected' = rejected \cup {m}
  BY Zenon DEF Dispatch
<1> QED BY <1>1, <1>3, <1>4, <1>5

\* The state has its types, and the subscriber never holds more than its
\* buffer: send stops at SUBSCRIBER_MAX_BUFFER_SIZE.
THEOREM TypeCorrect == Spec => []TypeOK
<1>1. Init => TypeOK
  <2> SUFFICES ASSUME Init PROVE TypeOK
    OBVIOUS
  <2>1. <<>> \in Seq(Msg) /\ Len(<<>>) <= BufferSize
    BY RequestAssumption
  <2>2. /\ rustSub \in Readers /\ live \in BOOLEAN /\ signal \in BOOLEAN
        /\ reader \in {"starting", "draining", "parked", "dead"}
        /\ stranded \subseteq Msg /\ rejected \subseteq Msg /\ scheduled \subseteq Req
    BY DEF Init
  <2>3. /\ ring = <<>> /\ zmq = <<>> /\ aborts = <<>> /\ input = <<>> /\ taken = <<>>
        /\ held = [t \in Threads |-> <<>>]
    BY DEF Init
  <2>4. /\ task \in [Msg -> {"none", "checked", "notify", "zmq", "sent"}]
        /\ via \in [Msg -> {"none", "shm", "zmq"}]
    BY DEF Init
  <2>5. held \in [Threads -> Seq(Msg)]
    BY <2>1, <2>3
  <2>6. Len(ring) <= BufferSize /\ ring \in Seq(Msg) /\ zmq \in Seq(Msg)
        /\ aborts \in Seq(Msg) /\ input \in Seq(Msg) /\ taken \in Seq(Msg)
    BY <2>1, <2>3
  <2> QED BY <2>2, <2>4, <2>5, <2>6 DEF TypeOK
<1>2. TypeOK /\ [Next]_vars => TypeOK'
  <2> SUFFICES ASSUME TypeOK, [Next]_vars PROVE TypeOK'
    OBVIOUS
  <2>0. /\ ring \in Seq(Msg) /\ zmq \in Seq(Msg) /\ aborts \in Seq(Msg)
        /\ input \in Seq(Msg) /\ taken \in Seq(Msg)
        /\ held \in [Threads -> Seq(Msg)] /\ Len(ring) <= BufferSize
        /\ stranded \subseteq Msg /\ scheduled \subseteq Req
        /\ task \in [Msg -> {"none", "checked", "notify", "zmq", "sent"}]
        /\ via \in [Msg -> {"none", "shm", "zmq"}]
    BY DEF TypeOK
  <2>1. ASSUME NEW m \in Msg, Check(m) PROVE TypeOK'
    <3>1. task' \in [Msg -> {"none", "checked", "notify", "zmq", "sent"}]
      BY <2>0, <2>1 DEF Check
    <3> QED BY <2>1, <3>1 DEF Check, TypeOK, readerVars, queueVars, engineVars
  <2>2. ASSUME NEW m \in Msg, Publish(m) PROVE TypeOK'
    <3>1. /\ task' \in [Msg -> {"none", "checked", "notify", "zmq", "sent"}]
          /\ via' \in [Msg -> {"none", "shm", "zmq"}]
      BY <2>0, <2>2 DEF Publish
    <3>2. ring' \in Seq(Msg) /\ Len(ring') <= BufferSize
      <4>1. CASE Deliverable
        <5>1. ring' = Append(ring, m) /\ Len(ring) < BufferSize
          BY <2>2, <4>1 DEF Publish, Deliverable
        <5>2. Append(ring, m) \in Seq(Msg) /\ Len(Append(ring, m)) = Len(ring) + 1
              /\ Len(ring) \in Nat
          BY <2>0, AppendProperties, LenProperties
        <5> QED BY <5>1, <5>2, RequestAssumption
      <4>2. CASE ~Deliverable
        BY <2>0, <2>2, <4>2 DEF Publish
      <4> QED BY <4>1, <4>2
    <3>3. live' \in BOOLEAN
      BY <2>2 DEF Publish, TypeOK
    <3> QED BY <2>2, <3>1, <3>2, <3>3 DEF Publish, TypeOK, readerVars, queueVars, engineVars
  <2>3. ASSUME NEW m \in Msg, Notify(m) PROVE TypeOK'
    <3>1. task' \in [Msg -> {"none", "checked", "notify", "zmq", "sent"}]
      BY <2>0, <2>3 DEF Notify
    <3> QED BY <2>3, <3>1 DEF Notify, TypeOK, queueVars, engineVars
  <2>4. ASSUME NEW m \in Msg, SendZmq(m) PROVE TypeOK'
    <3>1. /\ task' \in [Msg -> {"none", "checked", "notify", "zmq", "sent"}]
          /\ via' \in [Msg -> {"none", "shm", "zmq"}]
      BY <2>0, <2>4 DEF SendZmq
    <3>2. zmq' \in Seq(Msg)
      <4>1. zmq' = Append(zmq, m)
        BY <2>4 DEF SendZmq
      <4> QED BY <2>0, <4>1, AppendProperties
    <3> QED BY <2>4, <3>1, <3>2 DEF SendZmq, TypeOK, readerVars, queueVars, engineVars
  <2>5. CASE Start
    BY <2>5 DEF Start, TypeOK, frontVars, queueVars, engineVars
  <2>6. CASE Receive
    <3>1. Head(ring) \in Msg /\ Tail(ring) \in Seq(Msg) /\ Len(Tail(ring)) = Len(ring) - 1
          /\ Len(ring) \in Nat
      BY <2>0, <2>6, HeadTailProperties, LenProperties DEF Receive
    <3>2. /\ aborts' \in Seq(Msg) /\ input' \in Seq(Msg)
          /\ held' \in [Threads -> Seq(Msg)] /\ rejected' \subseteq Msg
      BY <2>6, <3>1, DispatchTypes DEF Receive, Threads
    <3>3. ring' = Tail(ring) /\ reader' = "draining"
      BY <2>6 DEF Receive, StillDraining
    <3>4. ring' \in Seq(Msg) /\ Len(ring') <= BufferSize
      BY <2>0, <3>1, <3>3, RequestAssumption
    <3> QED BY <2>6, <3>2, <3>3, <3>4 DEF Receive, TypeOK, frontVars, engineVars
  <2>7. CASE ReceiveZmq
    <3>1. Head(zmq) \in Msg /\ Tail(zmq) \in Seq(Msg)
      BY <2>0, <2>7, HeadTailProperties DEF ReceiveZmq
    <3>2. /\ aborts' \in Seq(Msg) /\ input' \in Seq(Msg)
          /\ held' \in [Threads -> Seq(Msg)] /\ rejected' \subseteq Msg
      BY <2>7, <3>1, DispatchTypes DEF ReceiveZmq, Threads
    <3>3. zmq' \in Seq(Msg)
      BY <2>7, <3>1 DEF ReceiveZmq
    <3> QED BY <2>7, <3>2, <3>3 DEF ReceiveZmq, TypeOK, frontVars, readerVars, engineVars
  <2>8. ASSUME NEW t \in Threads, QueueAbort(t) PROVE TypeOK'
    <3>1. held[t] \in Seq(Msg) /\ <<>> \in Seq(Msg)
      BY <2>0
    <3>2. input' \in Seq(Msg)
      <4>1. input' = input \o held[t]
        BY <2>8 DEF QueueAbort
      <4> QED BY <2>0, <3>1, <4>1, ConcatProperties
    <3>3. held' \in [Threads -> Seq(Msg)]
      <4>1. held' = [held EXCEPT ![t] = <<>>]
        BY <2>8 DEF QueueAbort
      <4> QED BY <2>0, <3>1, <4>1
    <3> QED BY <2>8, <3>2, <3>3 DEF QueueAbort, TypeOK, frontVars, readerVars, engineVars
  <2>9. CASE Wait
    BY <2>9 DEF Wait, TypeOK, frontVars, queueVars, engineVars
  <2>10. CASE Wake
    BY <2>10 DEF Wake, TypeOK, frontVars, queueVars, engineVars
  <2>11. CASE Die
    <3>1. Range(ring) \subseteq Msg
      BY <2>0, RangeIn
    <3>2. stranded' \subseteq Msg
      BY <2>0, <2>11, <3>1 DEF Die
    <3>3. ring' \in Seq(Msg) /\ Len(ring') <= BufferSize
      BY <2>11, RequestAssumption DEF Die
    <3> QED BY <2>11, <3>2, <3>3 DEF Die, TypeOK, frontVars, queueVars, engineVars
  <2>12. CASE TakeInput
    <3>1. Head(input) \in Msg /\ Tail(input) \in Seq(Msg)
      BY <2>0, <2>12, HeadTailProperties DEF TakeInput
    <3>2. Append(taken, Head(input)) \in Seq(Msg)
      BY <2>0, <3>1, AppendProperties
    <3>3. scheduled' \subseteq Req
      <4>1. Head(input).id \in Req
        BY <3>1, Messages
      <4>2. scheduled' = scheduled \cup {Head(input).id} \/ scheduled' = scheduled \ {Head(input).id}
        BY <2>12 DEF TakeInput
      <4> QED BY <2>0, <4>1, <4>2
    <3>4. input' \in Seq(Msg) /\ taken' \in Seq(Msg)
      BY <2>12, <3>1, <3>2 DEF TakeInput
    <3> QED BY <2>12, <3>3, <3>4 DEF TakeInput, TypeOK, frontVars, readerVars
  <2>13. CASE TakeAborts
    <3>1. scheduled' \subseteq Req /\ aborts' \in Seq(Msg)
      BY <2>0, <2>13 DEF TakeAborts
    <3> QED BY <2>13, <3>1 DEF TakeAborts, TypeOK, frontVars, readerVars
  <2>14. ASSUME NEW x \in Req, Complete(x) PROVE TypeOK'
    <3>1. scheduled' \subseteq Req
      BY <2>0, <2>14 DEF Complete
    <3> QED BY <2>14, <3>1 DEF Complete, TypeOK, frontVars, readerVars, queueVars
  <2>15. CASE UNCHANGED vars
    BY <2>15 DEF vars, TypeOK, frontVars, readerVars, queueVars, engineVars
  <2> QED BY <2>1, <2>2, <2>3, <2>4, <2>5, <2>6, <2>7, <2>8, <2>9, <2>10, <2>11, <2>12,
             <2>13, <2>14, <2>15 DEF Next, FrontEnd, ShmThread, ZmqThread, Threads
<1> QED BY <1>1, <1>2, PTL DEF Spec

------------------------------------------------------------------------------
(* Each message is in one place.                                             *)

\* A message has been handed to a transport when its task is past that point.
Routed == \A m \in Msg : via[m] # "none" <=> task[m] \in {"notify", "sent"}

\* The dispatched part of EachInOnePlace: where dispatch() puts a message.
Dispatched(m) ==
  Count(held["shm"], m) + Count(held["zmq"], m) + Count(input, m) + Once(rejected, m)

LEMMA CountsAreNumbers ==
  TypeOK => \A m \in Msg :
    /\ Count(ring, m) \in Nat /\ Count(zmq, m) \in Nat
    /\ Count(held["shm"], m) \in Nat /\ Count(held["zmq"], m) \in Nat
    /\ Count(input, m) \in Nat /\ Count(taken, m) \in Nat
    /\ Once(stranded, m) \in Nat /\ Once(rejected, m) \in Nat
<1> SUFFICES ASSUME TypeOK, NEW m \in Msg
             PROVE  /\ Count(ring, m) \in Nat /\ Count(zmq, m) \in Nat
                    /\ Count(held["shm"], m) \in Nat /\ Count(held["zmq"], m) \in Nat
                    /\ Count(input, m) \in Nat /\ Count(taken, m) \in Nat
                    /\ Once(stranded, m) \in Nat /\ Once(rejected, m) \in Nat
  OBVIOUS
<1>1. /\ ring \in Seq(Msg) /\ zmq \in Seq(Msg) /\ input \in Seq(Msg)
      /\ taken \in Seq(Msg)
      /\ held["shm"] \in Seq(Msg) /\ held["zmq"] \in Seq(Msg)
  BY DEF TypeOK, Threads
<1>2. \A q \in Seq(Msg) : Count(q, m) \in Nat
  BY PositionsFinite
<1>3. Once(stranded, m) \in Nat /\ Once(rejected, m) \in Nat
  BY DEF Once
<1> QED BY <1>1, <1>2, <1>3

LEMMA CountsAreNumbersNext ==
  TypeOK' => (\A m \in Msg :
    /\ Count(ring, m) \in Nat /\ Count(zmq, m) \in Nat
    /\ Count(held["shm"], m) \in Nat /\ Count(held["zmq"], m) \in Nat
    /\ Count(input, m) \in Nat /\ Count(taken, m) \in Nat
    /\ Once(stranded, m) \in Nat /\ Once(rejected, m) \in Nat)'
BY CountsAreNumbers, PTL

\* dispatch() adds the message it is given to one place, and no other.
LEMMA DispatchPlaces ==
  ASSUME TypeOK, NEW t \in Threads, NEW h \in Msg, h \notin rejected, Dispatch(t, h),
         NEW m \in Msg
  PROVE  Dispatched(m)' = Dispatched(m) + (IF h = m THEN 1 ELSE 0)
<1>1. /\ input \in Seq(Msg) /\ held \in [Threads -> Seq(Msg)]
      /\ held[t] = <<>> /\ Threads = {"shm", "zmq"}
  BY DEF TypeOK, Dispatch, Threads
<1>2. /\ Count(held["shm"], m) \in Nat /\ Count(held["zmq"], m) \in Nat
      /\ Count(input, m) \in Nat /\ Once(rejected, m) \in Nat
  BY CountsAreNumbers
<1>3. CASE held' = [held EXCEPT ![t] = <<h>>] /\ input' = input /\ rejected' = rejected
  <2>1. Count(held'[t], m) = Count(held[t], m) + (IF h = m THEN 1 ELSE 0)
    <3>1. held'[t] = <<h>>
      BY <1>1, <1>3
    <3>2. Count(held[t], m) = 0 /\ Count(<<h>>, m) = IF h = m THEN 1 ELSE 0
      BY <1>1, CountEmpty, CountOne
    <3> QED BY <3>1, <3>2
  <2>2. \A u \in Threads : u # t => held'[u] = held[u]
    BY <1>1, <1>3
  <2>3. Count(input', m) = Count(input, m) /\ Once(rejected', m) = Once(rejected, m)
    BY <1>3
  <2>4. CASE t = "shm"
    <3>1. held'["zmq"] = held["zmq"]
      BY <1>1, <2>2, <2>4
    <3> QED BY <1>2, <2>1, <2>3, <2>4, <3>1 DEF Dispatched
  <2>5. CASE t = "zmq"
    <3>1. held'["shm"] = held["shm"]
      BY <1>1, <2>2, <2>5
    <3> QED BY <1>2, <2>1, <2>3, <2>5, <3>1 DEF Dispatched
  <2> QED BY <1>1, <2>4, <2>5
<1>4. CASE held' = held /\ input' = Append(input, h) /\ rejected' = rejected
  <2>1. Count(input', m) = Count(input, m) + (IF h = m THEN 1 ELSE 0)
    BY <1>1, <1>4, CountAppend
  <2> QED BY <1>2, <1>4, <2>1 DEF Dispatched
<1>5. CASE held' = held /\ input' = input /\ rejected' = rejected \cup {h}
  <2>1. Once(rejected', m) = Once(rejected, m) + (IF h = m THEN 1 ELSE 0)
    BY <1>5 DEF Once
  <2> QED BY <1>2, <1>5, <2>1 DEF Dispatched
<1> QED BY <1>3, <1>4, <1>5, Zenon DEF Dispatch

Places(m) ==
  Count(ring, m) + Count(zmq, m) + Dispatched(m) + Count(taken, m) + Once(stranded, m)

Handed(m) == IF via[m] = "none" THEN 0 ELSE 1

LEMMA Numbers ==
  TypeOK => \A m \in Msg :
    /\ Count(ring, m) \in Nat /\ Count(zmq, m) \in Nat /\ Dispatched(m) \in Nat
    /\ Count(taken, m) \in Nat /\ Once(stranded, m) \in Nat /\ Once(rejected, m) \in Nat
    /\ Once(rejected, m) <= Dispatched(m)
BY CountsAreNumbers DEF Dispatched

LEMMA OnePlace ==
  TypeOK => (EachInOnePlace <=> \A m \in Msg : Places(m) = Handed(m))
<1> SUFFICES ASSUME TypeOK, NEW m \in Msg
             PROVE  Count(ring, m) + Count(zmq, m) + Count(held["shm"], m)
                      + Count(held["zmq"], m) + Count(input, m) + Count(taken, m)
                      + Once(stranded, m) + Once(rejected, m) = Places(m)
  BY Zenon DEF EachInOnePlace, Handed
<1> QED BY CountsAreNumbers DEF Places, Dispatched

LEMMA OnePlaceNext ==
  TypeOK' => (EachInOnePlace' <=> (\A m \in Msg : Places(m) = Handed(m))')
BY OnePlace, PTL

Unmoved(m) ==
  /\ Count(ring', m) = Count(ring, m) /\ Count(zmq', m) = Count(zmq, m)
  /\ Dispatched(m)' = Dispatched(m) /\ Count(taken', m) = Count(taken, m)
  /\ Once(stranded', m) = Once(stranded, m)

\* A message in ring, zmq or input is in no other place, and not rejected.
LEMMA HeadIsAlone ==
  ASSUME TypeOK, NEW m \in Msg, Places(m) = Handed(m),
         m \in Range(ring) \/ m \in Range(zmq)
  PROVE  m \notin rejected /\ m \notin stranded /\ Count(ring, m) <= 1
<1>1. /\ Count(ring, m) \in Nat /\ Count(zmq, m) \in Nat /\ Dispatched(m) \in Nat
      /\ Count(taken, m) \in Nat /\ Once(stranded, m) \in Nat /\ Once(rejected, m) \in Nat
      /\ Once(rejected, m) <= Dispatched(m)
  BY Numbers
<1>2. Count(ring, m) # 0 \/ Count(zmq, m) # 0
  <2>1. ring \in Seq(Msg) /\ zmq \in Seq(Msg)
    BY DEF TypeOK
  <2>2. \A q \in Seq(Msg) : Count(q, m) = 0 => m \notin Range(q)
    BY PositionsFinite
  <2> QED BY <2>1, <2>2
<1>3. Count(ring, m) + Count(zmq, m) + Dispatched(m) + Count(taken, m)
        + Once(stranded, m) <= 1
  BY DEF Places, Handed
<1>4. Once(rejected, m) = 0 /\ Once(stranded, m) = 0 /\ Count(ring, m) <= 1
  BY <1>1, <1>2, <1>3
<1> QED BY <1>4 DEF Once

LEMMA PlacesStep ==
  ASSUME TypeOK, TypeOK', Routed, EachInOnePlace, [Next]_vars
  PROVE  Routed' /\ EachInOnePlace'
<1>0. /\ ring \in Seq(Msg) /\ zmq \in Seq(Msg) /\ input \in Seq(Msg) /\ taken \in Seq(Msg)
      /\ held \in [Threads -> Seq(Msg)] /\ Threads = {"shm", "zmq"}
      /\ task \in [Msg -> {"none", "checked", "notify", "zmq", "sent"}]
      /\ via \in [Msg -> {"none", "shm", "zmq"}]
  BY DEF TypeOK, Threads
<1>1. \A m \in Msg : Places(m) = Handed(m)
  BY OnePlace
<1>2. SUFFICES Routed' /\ \A m \in Msg : Places(m)' = Handed(m)'
  BY OnePlaceNext
<1>3. ASSUME UNCHANGED <<via, task>> PROVE Routed' /\ \A m \in Msg : Handed(m)' = Handed(m)
  BY <1>3 DEF Routed, Handed
<1>4. ASSUME UNCHANGED <<ring, zmq, held, input, rejected, taken, stranded>>
      PROVE  \A m \in Msg : Unmoved(m)
  BY <1>4 DEF Unmoved, Dispatched, Once
<1>5. ASSUME \A m \in Msg : Unmoved(m), \A m \in Msg : Handed(m)' = Handed(m)
      PROVE  \A m \in Msg : Places(m)' = Handed(m)'
  BY <1>1, <1>5 DEF Unmoved, Places
<1>6. ASSUME NEW n \in Msg, Check(n) PROVE Routed' /\ \A m \in Msg : Places(m)' = Handed(m)'
  <2>1. via' = via /\ task[n] = "none" /\ task'[n] \in {"checked", "zmq"}
        /\ \A m \in Msg : m # n => task'[m] = task[m]
    BY <1>0, <1>6 DEF Check
  <2>2. Routed'
    BY <2>1 DEF Routed
  <2>3. \A m \in Msg : Handed(m)' = Handed(m)
    BY <2>1 DEF Handed
  <2>4. \A m \in Msg : Unmoved(m)
    BY <1>4, <1>6 DEF Check, readerVars, queueVars, engineVars
  <2> QED BY <1>5, <2>2, <2>3, <2>4
<1>7. ASSUME NEW n \in Msg, Publish(n)
      PROVE  Routed' /\ \A m \in Msg : Places(m)' = Handed(m)'
  <2>1. task[n] = "checked" /\ via[n] = "none"
    BY <1>0, <1>7 DEF Publish, Routed
  <2>2. CASE Deliverable
    <3>1. /\ via'[n] = "shm" /\ task'[n] = "notify"
          /\ \A m \in Msg : m # n => via'[m] = via[m] /\ task'[m] = task[m]
          /\ ring' = Append(ring, n)
      BY <1>0, <1>7, <2>2 DEF Publish
    <3>2. Routed'
      BY <3>1 DEF Routed
    <3>3. ASSUME NEW m \in Msg PROVE Places(m)' = Handed(m)'
      <4> DEFINE e == IF n = m THEN 1 ELSE 0
      <4>1. e \in Int /\ Count(ring', m) = Count(ring, m) + e
        BY <1>0, <3>1, CountAppend
      <4>2. Handed(m)' = Handed(m) + e
        BY <2>1, <3>1 DEF Handed
      <4>3. /\ Count(zmq', m) = Count(zmq, m) /\ Dispatched(m)' = Dispatched(m)
            /\ Count(taken', m) = Count(taken, m) /\ Once(stranded', m) = Once(stranded, m)
        BY <1>7 DEF Publish, readerVars, queueVars, engineVars, Dispatched, Once
      <4> HIDE DEF e
      <4> QED BY <1>1, <4>1, <4>2, <4>3, Numbers DEF Places
    <3> QED BY <3>2, <3>3
  <2>3. CASE ~Deliverable
    <3>1. via' = via /\ task'[n] = "zmq" /\ \A m \in Msg : m # n => task'[m] = task[m]
      BY <1>0, <1>7, <2>3 DEF Publish
    <3>2. Routed' /\ \A m \in Msg : Handed(m)' = Handed(m)
      BY <2>1, <3>1 DEF Routed, Handed
    <3>3. \A m \in Msg : Unmoved(m)
      BY <1>4, <1>7, <2>3 DEF Publish, readerVars, queueVars, engineVars
    <3> QED BY <1>5, <3>2, <3>3
  <2> QED BY <2>2, <2>3
<1>8. ASSUME NEW n \in Msg, Notify(n)
      PROVE  Routed' /\ \A m \in Msg : Places(m)' = Handed(m)'
  <2>1. via' = via /\ task[n] = "notify" /\ task'[n] = "sent"
        /\ \A m \in Msg : m # n => task'[m] = task[m]
    BY <1>0, <1>8 DEF Notify
  <2>2. Routed' /\ \A m \in Msg : Handed(m)' = Handed(m)
    BY <2>1 DEF Routed, Handed
  <2>3. \A m \in Msg : Unmoved(m)
    BY <1>4, <1>8 DEF Notify, queueVars, engineVars
  <2> QED BY <1>5, <2>2, <2>3
<1>9. ASSUME NEW n \in Msg, SendZmq(n)
      PROVE  Routed' /\ \A m \in Msg : Places(m)' = Handed(m)'
  <2>1. /\ via[n] = "none" /\ via'[n] = "zmq" /\ task'[n] = "sent"
        /\ \A m \in Msg : m # n => via'[m] = via[m] /\ task'[m] = task[m]
        /\ zmq' = Append(zmq, n)
    BY <1>0, <1>9 DEF SendZmq, Routed
  <2>2. Routed'
    BY <2>1 DEF Routed
  <2>3. ASSUME NEW m \in Msg PROVE Places(m)' = Handed(m)'
    <3> DEFINE e == IF n = m THEN 1 ELSE 0
    <3>1. e \in Int /\ Count(zmq', m) = Count(zmq, m) + e
      BY <1>0, <2>1, CountAppend
    <3>2. Handed(m)' = Handed(m) + e
      BY <2>1 DEF Handed
    <3>3. /\ Count(ring', m) = Count(ring, m) /\ Dispatched(m)' = Dispatched(m)
          /\ Count(taken', m) = Count(taken, m) /\ Once(stranded', m) = Once(stranded, m)
      BY <1>9 DEF SendZmq, readerVars, queueVars, engineVars, Dispatched, Once
    <3> HIDE DEF e
    <3> QED BY <1>1, <3>1, <3>2, <3>3, Numbers DEF Places
  <2> QED BY <2>2, <2>3
<1>10. CASE Receive
  <2>1. /\ Head(ring) \in Msg /\ Head(ring) \in Range(ring) /\ ring # <<>>
        /\ ring' = Tail(ring) /\ Dispatch("shm", Head(ring)) /\ "shm" \in Threads
    <3>1. 1 \in DOMAIN ring /\ Head(ring) = ring[1] /\ ring # <<>>
      BY <1>0, <1>10, HeadTailProperties, LenProperties, EmptySeq DEF Receive
    <3> QED BY <1>0, <1>10, <3>1, RangeIn DEF Receive, Range
  <2>2. Head(ring) \notin rejected
    BY <1>1, <2>1, HeadIsAlone
  <2>3. Routed' /\ \A m \in Msg : Handed(m)' = Handed(m)
    BY <1>3, <1>10 DEF Receive, frontVars
  <2>4. ASSUME NEW m \in Msg PROVE Places(m)' = Handed(m)'
    <3> DEFINE e == IF Head(ring) = m THEN 1 ELSE 0
    <3>1. e \in Int /\ Count(ring, m) = Count(ring', m) + e
      BY <1>0, <2>1, CountTail
    <3>2. Dispatched(m)' = Dispatched(m) + e
      BY <2>1, <2>2, DispatchPlaces
    <3>3. /\ Count(zmq', m) = Count(zmq, m) /\ Count(taken', m) = Count(taken, m)
          /\ Once(stranded', m) = Once(stranded, m)
      BY <1>10 DEF Receive, engineVars, Once
    <3>4. ring' \in Seq(Msg) /\ Count(ring', m) \in Nat
      BY <1>0, <2>1, HeadTailProperties, PositionsFinite
    <3> HIDE DEF e
    <3> QED BY <1>1, <2>3, <3>1, <3>2, <3>3, <3>4, Numbers DEF Places
  <2> QED BY <2>3, <2>4
<1>11. CASE ReceiveZmq
  <2>1. /\ Head(zmq) \in Msg /\ Head(zmq) \in Range(zmq) /\ zmq # <<>>
        /\ zmq' = Tail(zmq) /\ Dispatch("zmq", Head(zmq)) /\ "zmq" \in Threads
    <3>1. 1 \in DOMAIN zmq /\ Head(zmq) = zmq[1] /\ zmq # <<>>
      BY <1>0, <1>11, HeadTailProperties, LenProperties, EmptySeq DEF ReceiveZmq
    <3> QED BY <1>0, <1>11, <3>1, RangeIn DEF ReceiveZmq, Range
  <2>2. Head(zmq) \notin rejected
    BY <1>1, <2>1, HeadIsAlone
  <2>3. Routed' /\ \A m \in Msg : Handed(m)' = Handed(m)
    BY <1>3, <1>11 DEF ReceiveZmq, frontVars
  <2>4. ASSUME NEW m \in Msg PROVE Places(m)' = Handed(m)'
    <3> DEFINE e == IF Head(zmq) = m THEN 1 ELSE 0
    <3>1. e \in Int /\ Count(zmq, m) = Count(zmq', m) + e
      BY <1>0, <2>1, CountTail
    <3>2. Dispatched(m)' = Dispatched(m) + e
      BY <2>1, <2>2, DispatchPlaces
    <3>3. /\ Count(ring', m) = Count(ring, m) /\ Count(taken', m) = Count(taken, m)
          /\ Once(stranded', m) = Once(stranded, m)
      BY <1>11 DEF ReceiveZmq, readerVars, engineVars, Once
    <3>4. zmq' \in Seq(Msg) /\ Count(zmq', m) \in Nat
      BY <1>0, <2>1, HeadTailProperties, PositionsFinite
    <3> HIDE DEF e
    <3> QED BY <1>1, <2>3, <3>1, <3>2, <3>3, <3>4, Numbers DEF Places
  <2> QED BY <2>3, <2>4
<1>12. ASSUME NEW t \in Threads, QueueAbort(t)
       PROVE  Routed' /\ \A m \in Msg : Places(m)' = Handed(m)'
  <2>1. Routed' /\ \A m \in Msg : Handed(m)' = Handed(m)
    BY <1>3, <1>12 DEF QueueAbort, frontVars
  <2>2. /\ held'[t] = <<>> /\ \A u \in Threads : u # t => held'[u] = held[u]
        /\ input' = input \o held[t] /\ held[t] \in Seq(Msg)
    BY <1>0, <1>12 DEF QueueAbort
  <2>3. ASSUME NEW m \in Msg PROVE Unmoved(m)
    <3>1. Count(held'[t], m) = 0 /\ Count(input', m) = Count(input, m) + Count(held[t], m)
      BY <1>0, <2>2, CountEmpty, CountConcat
    <3>2. /\ Count(ring', m) = Count(ring, m) /\ Count(zmq', m) = Count(zmq, m)
          /\ Count(taken', m) = Count(taken, m) /\ Once(stranded', m) = Once(stranded, m)
          /\ Once(rejected', m) = Once(rejected, m)
      BY <1>12 DEF QueueAbort, readerVars, engineVars, Once
    <3>3. Dispatched(m)' = Dispatched(m)
      <4>1. /\ Count(held["shm"], m) \in Nat /\ Count(held["zmq"], m) \in Nat
            /\ Count(input, m) \in Nat /\ Once(rejected, m) \in Nat
        BY CountsAreNumbers
      <4>2. CASE t = "shm"
        <5>1. held'["zmq"] = held["zmq"]
          BY <1>0, <2>2, <4>2
        <5> QED BY <3>1, <3>2, <4>1, <4>2, <5>1 DEF Dispatched
      <4>3. CASE t = "zmq"
        <5>1. held'["shm"] = held["shm"]
          BY <1>0, <2>2, <4>3
        <5> QED BY <3>1, <3>2, <4>1, <4>3, <5>1 DEF Dispatched
      <4> QED BY <1>0, <4>2, <4>3
    <3> QED BY <3>2, <3>3 DEF Unmoved
  <2> QED BY <1>5, <2>1, <2>3
<1>13. CASE Die
  <2>1. Routed' /\ \A m \in Msg : Handed(m)' = Handed(m)
    BY <1>3, <1>13 DEF Die, frontVars
  <2>2. ASSUME NEW m \in Msg PROVE Places(m)' = Handed(m)'
    <3>1. /\ Count(zmq', m) = Count(zmq, m) /\ Count(taken', m) = Count(taken, m)
          /\ Dispatched(m)' = Dispatched(m)
      BY <1>13 DEF Die, queueVars, engineVars, Dispatched, Once
    <3>2. Count(ring', m) = 0 /\ stranded' = stranded \cup Range(ring)
      BY <1>13, CountEmpty DEF Die
    <3>3. Once(stranded', m) = Once(stranded, m) + Count(ring, m)
      <4>1. Count(ring, m) \in Nat /\ (Count(ring, m) = 0 <=> m \notin Range(ring))
        BY <1>0, PositionsFinite
      <4>2. CASE m \in Range(ring)
        <5>1. m \notin stranded /\ Count(ring, m) = 1
          BY <1>1, <4>1, <4>2, HeadIsAlone
        <5> QED BY <3>2, <4>2, <5>1 DEF Once
      <4>3. CASE m \notin Range(ring)
        BY <3>2, <4>1, <4>3 DEF Once
      <4> QED BY <4>2, <4>3
    <3> QED BY <1>1, <2>1, <3>1, <3>2, <3>3, Numbers DEF Places
  <2> QED BY <2>1, <2>2
<1>14. CASE TakeInput
  <2>1. Routed' /\ \A m \in Msg : Handed(m)' = Handed(m)
    BY <1>3, <1>14 DEF TakeInput, frontVars
  <2>2. /\ input # <<>> /\ input' = Tail(input) /\ taken' = Append(taken, Head(input))
        /\ Head(input) \in Msg /\ Tail(input) \in Seq(Msg)
    BY <1>0, <1>14, HeadTailProperties DEF TakeInput
  <2>3. ASSUME NEW m \in Msg PROVE Places(m)' = Handed(m)'
    <3> DEFINE e == IF Head(input) = m THEN 1 ELSE 0
    <3>1. /\ e \in Int /\ Count(input, m) = Count(input', m) + e
          /\ Count(taken', m) = Count(taken, m) + e /\ Count(input', m) \in Nat
      <4>1. Count(input, m) = Count(Tail(input), m) + e
        BY <1>0, <2>2, CountTail
      <4>2. Count(Append(taken, Head(input)), m) = Count(taken, m) + e
        BY <1>0, <2>2, CountAppend
      <4>3. Count(Tail(input), m) \in Nat
        BY <2>2, PositionsFinite
      <4> QED BY <2>2, <4>1, <4>2, <4>3
    <3>2. /\ Count(ring', m) = Count(ring, m) /\ Count(zmq', m) = Count(zmq, m)
          /\ Once(stranded', m) = Once(stranded, m) /\ held' = held
          /\ Once(rejected', m) = Once(rejected, m)
      BY <1>14 DEF TakeInput, readerVars, Once
    <3> HIDE DEF e
    <3>3. Dispatched(m) = Dispatched(m)' + e
      BY <3>1, <3>2, CountsAreNumbers DEF Dispatched
    <3>4. Dispatched(m)' \in Nat
      BY <3>1, <3>2, CountsAreNumbers DEF Dispatched
    <3> QED BY <1>1, <2>1, <3>1, <3>2, <3>3, <3>4, Numbers DEF Places
  <2> QED BY <2>1, <2>3
<1>15. ASSUME UNCHANGED <<via, task, ring, zmq, held, input, rejected, taken, stranded>>
       PROVE  Routed' /\ \A m \in Msg : Places(m)' = Handed(m)'
  BY <1>3, <1>4, <1>5, <1>15
<1>16. CASE Start
  BY <1>15, <1>16 DEF Start, frontVars, queueVars, engineVars
<1>17. CASE Wait
  BY <1>15, <1>17 DEF Wait, frontVars, queueVars, engineVars
<1>18. CASE Wake
  BY <1>15, <1>18 DEF Wake, frontVars, queueVars, engineVars
<1>19. CASE TakeAborts
  BY <1>15, <1>19 DEF TakeAborts, frontVars, readerVars
<1>20. ASSUME NEW x \in Req, Complete(x)
       PROVE  Routed' /\ \A m \in Msg : Places(m)' = Handed(m)'
  BY <1>15, <1>20 DEF Complete, frontVars, readerVars, queueVars
<1>21. CASE UNCHANGED vars
  BY <1>15, <1>21 DEF vars, frontVars, readerVars, queueVars, engineVars
<1> QED BY <1>6, <1>7, <1>8, <1>9, <1>10, <1>11, <1>12, <1>13, <1>14, <1>16, <1>17, <1>18,
           <1>19, <1>20, <1>21, <1>0 DEF Next, FrontEnd, ShmThread, ZmqThread

LEMMA InitPlaces == Init => Routed /\ EachInOnePlace
<1> SUFFICES ASSUME Init, NEW m \in Msg
             PROVE  /\ via[m] # "none" <=> task[m] \in {"notify", "sent"}
                    /\ Count(ring, m) + Count(zmq, m) + Count(held["shm"], m)
                         + Count(held["zmq"], m) + Count(input, m) + Count(taken, m)
                         + Once(stranded, m) + Once(rejected, m)
                       = IF via[m] = "none" THEN 0 ELSE 1
  BY DEF Routed, EachInOnePlace
<1>1. via[m] = "none" /\ task[m] = "none"
  BY DEF Init
<1>2. /\ ring = <<>> /\ zmq = <<>> /\ held["shm"] = <<>> /\ held["zmq"] = <<>>
      /\ input = <<>> /\ taken = <<>> /\ stranded = {} /\ rejected = {}
  BY DEF Init, Threads
<1>3. Count(<<>>, m) = 0 /\ Once({}, m) = 0
  BY CountEmpty DEF Once
<1> QED BY <1>1, <1>2, <1>3

\* Accounted: no message is lost on the way or handled twice, whichever of the two
\* transports took it, across the fall-back to ZMQ and the reader's death; what a
\* dying reader leaves unread is lost, and is counted as stranded.
THEOREM RequestsAccounted == Spec => []Accounted
<1>1. Init => Routed /\ EachInOnePlace
  BY InitPlaces
<1>2. TypeOK /\ TypeOK' /\ Routed /\ EachInOnePlace /\ [Next]_vars => Routed' /\ EachInOnePlace'
  BY PlacesStep
<1> QED BY <1>1, <1>2, TypeCorrect, PTL DEF Spec, Accounted

------------------------------------------------------------------------------
(* Order in a queue.                                                         *)

\* Every d of the queue is ahead of every a.
Before(q, d, a) == \A i, j \in DOMAIN q : q[i] = d /\ q[j] = a => i < j

LEMMA RangeAppend ==
  ASSUME NEW T, NEW q \in Seq(T), NEW e \in T
  PROVE  Range(Append(q, e)) = Range(q) \cup {e}
<1>1. /\ DOMAIN Append(q, e) = 1 .. Len(q) + 1 /\ DOMAIN q = 1 .. Len(q) /\ Len(q) \in Nat
      /\ \A i \in 1 .. Len(q) : Append(q, e)[i] = q[i]
      /\ Append(q, e)[Len(q) + 1] = e
  BY AppendProperties, LenProperties
<1>2. \A i \in 1 .. Len(q) + 1 : i \in 1 .. Len(q) \/ i = Len(q) + 1
  BY <1>1
<1>3. 1 .. Len(q) \subseteq 1 .. Len(q) + 1 /\ Len(q) + 1 \in 1 .. Len(q) + 1
  BY <1>1
<1>4. ASSUME NEW y \in Range(Append(q, e)) PROVE y \in Range(q) \cup {e}
  BY <1>1, <1>2 DEF Range
<1>5. ASSUME NEW y \in Range(q) PROVE y \in Range(Append(q, e))
  BY <1>1, <1>3 DEF Range
<1>6. e \in Range(Append(q, e))
  BY <1>1, <1>3 DEF Range
<1> QED BY <1>4, <1>5, <1>6

LEMMA RangeConcat ==
  ASSUME NEW T, NEW q \in Seq(T), NEW r \in Seq(T)
  PROVE  Range(q \o r) = Range(q) \cup Range(r)
<1> DEFINE n == Len(q)
<1>1. /\ DOMAIN (q \o r) = 1 .. n + Len(r)
      /\ n \in Nat /\ Len(r) \in Nat /\ DOMAIN q = 1 .. n /\ DOMAIN r = 1 .. Len(r)
      /\ \A i \in 1 .. n + Len(r) : (q \o r)[i] = IF i <= n THEN q[i] ELSE r[i - n]
  BY ConcatProperties, LenProperties
<1> HIDE DEF n
<1>2. \A i \in 1 .. n + Len(r) : i \in 1 .. n \/ (i > n /\ i - n \in 1 .. Len(r))
  BY <1>1
<1>3. ASSUME NEW y \in Range(q \o r) PROVE y \in Range(q) \cup Range(r)
  BY <1>1, <1>2 DEF Range
<1>4. ASSUME NEW i \in 1 .. n PROVE q[i] \in Range(q \o r)
  <2>1. i \in 1 .. n + Len(r) /\ (q \o r)[i] = q[i]
    BY <1>1
  <2> QED BY <1>1, <2>1 DEF Range
<1>5. ASSUME NEW i \in 1 .. Len(r) PROVE r[i] \in Range(q \o r)
  <2>1. i + n \in 1 .. n + Len(r) /\ (q \o r)[i + n] = r[i]
    BY <1>1
  <2> QED BY <1>1, <2>1 DEF Range
<1>6. Range(q) = {q[i] : i \in 1 .. n} /\ Range(r) = {r[i] : i \in 1 .. Len(r)}
  BY <1>1 DEF Range
<1> QED BY <1>3, <1>4, <1>5, <1>6

LEMMA TailPositions ==
  ASSUME NEW T, NEW q \in Seq(T), q # <<>>
  PROVE  /\ Tail(q) \in Seq(T) /\ Head(q) = q[1] /\ Head(q) \in T
         /\ Len(q) \in Nat \ {0}
         /\ DOMAIN q = 1 .. Len(q) /\ DOMAIN Tail(q) = 1 .. Len(q) - 1
         /\ \A i \in 1 .. Len(q) - 1 : Tail(q)[i] = q[i + 1]
<1>1. /\ Tail(q) \in Seq(T) /\ Head(q) = q[1] /\ Head(q) \in T
      /\ Len(Tail(q)) = Len(q) - 1 /\ Len(q) \in Nat
      /\ \A i \in 1 .. Len(Tail(q)) : Tail(q)[i] = q[i + 1]
  BY HeadTailProperties, LenProperties
<1>2. DOMAIN q = 1 .. Len(q) /\ DOMAIN Tail(q) = 1 .. Len(Tail(q))
  BY <1>1, LenProperties
<1>3. Len(q) # 0
  BY EmptySeq
<1> QED BY <1>1, <1>2, <1>3

LEMMA RangeTail ==
  ASSUME NEW T, NEW q \in Seq(T), q # <<>>
  PROVE  Range(q) = {Head(q)} \cup Range(Tail(q))
<1> DEFINE n == Len(q)
<1>1. /\ Head(q) = q[1] /\ n \in Nat \ {0} /\ DOMAIN q = 1 .. n
      /\ DOMAIN Tail(q) = 1 .. n - 1 /\ \A i \in 1 .. n - 1 : Tail(q)[i] = q[i + 1]
  BY TailPositions
<1> HIDE DEF n
<1>2. 1 \in 1 .. n /\ \A i \in 1 .. n - 1 : i + 1 \in 1 .. n
  BY <1>1
<1>3. ASSUME NEW i \in 1 .. n PROVE q[i] \in {Head(q)} \cup Range(Tail(q))
  <2>1. CASE i = 1
    BY <1>1, <2>1
  <2>2. CASE i # 1
    <3>1. i - 1 \in 1 .. n - 1 /\ Tail(q)[i - 1] = q[i]
      BY <1>1, <2>2
    <3> QED BY <1>1, <3>1 DEF Range
  <2> QED BY <2>1, <2>2
<1>4. Head(q) \in Range(q) /\ \A i \in 1 .. n - 1 : Tail(q)[i] \in Range(q)
  BY <1>1, <1>2 DEF Range
<1>5. Range(q) = {q[i] : i \in 1 .. n} /\ Range(Tail(q)) = {Tail(q)[i] : i \in 1 .. n - 1}
  BY <1>1 DEF Range
<1> QED BY <1>3, <1>4, <1>5

LEMMA BeforeAppend ==
  ASSUME NEW T, NEW q \in Seq(T), NEW e \in T, NEW d, NEW a,
         Before(q, d, a), d # a, e = d => a \notin Range(q)
  PROVE  Before(Append(q, e), d, a)
<1> DEFINE n == Len(q)
<1>1. /\ DOMAIN Append(q, e) = 1 .. n + 1 /\ DOMAIN q = 1 .. n /\ n \in Nat
      /\ \A i \in 1 .. n : Append(q, e)[i] = q[i]
      /\ Append(q, e)[n + 1] = e
  BY AppendProperties, LenProperties
<1> HIDE DEF n
<1>2. SUFFICES ASSUME NEW i \in 1 .. n + 1, NEW j \in 1 .. n + 1,
                      Append(q, e)[i] = d, Append(q, e)[j] = a
               PROVE  i < j
  BY <1>1 DEF Before
<1>3. CASE i = n + 1
  <2>1. j \in 1 .. n /\ q[j] = a /\ e = d
    BY <1>1, <1>2, <1>3
  <2> QED BY <1>1, <2>1 DEF Range
<1>4. CASE i # n + 1
  <2>1. i \in 1 .. n /\ q[i] = d
    BY <1>1, <1>2, <1>4
  <2>2. CASE j = n + 1
    BY <1>1, <2>1, <2>2
  <2>3. CASE j # n + 1
    <3>1. j \in 1 .. n /\ q[j] = a
      BY <1>1, <1>2, <2>3
    <3> QED BY <1>1, <2>1, <3>1 DEF Before
  <2> QED BY <2>2, <2>3
<1> QED BY <1>3, <1>4

LEMMA BeforeConcat ==
  ASSUME NEW T, NEW q \in Seq(T), NEW r \in Seq(T), NEW d, NEW a,
         Before(q, d, a), d \notin Range(r)
  PROVE  Before(q \o r, d, a)
<1> DEFINE n == Len(q)
<1>1. /\ DOMAIN (q \o r) = 1 .. n + Len(r)
      /\ n \in Nat /\ Len(r) \in Nat /\ DOMAIN q = 1 .. n /\ DOMAIN r = 1 .. Len(r)
      /\ \A i \in 1 .. n + Len(r) : (q \o r)[i] = IF i <= n THEN q[i] ELSE r[i - n]
  BY ConcatProperties, LenProperties
<1> HIDE DEF n
<1>2. SUFFICES ASSUME NEW i \in 1 .. n + Len(r), NEW j \in 1 .. n + Len(r),
                      (q \o r)[i] = d, (q \o r)[j] = a
               PROVE  i < j
  BY <1>1 DEF Before
<1>3. i <= n
  <2>1. SUFFICES ASSUME i > n PROVE FALSE
    BY <1>1
  <2>2. i - n \in 1 .. Len(r) /\ r[i - n] = d
    BY <1>1, <1>2, <2>1
  <2> QED BY <1>1, <2>2 DEF Range
<1>4. CASE j <= n
  <2>1. i \in 1 .. n /\ j \in 1 .. n /\ q[i] = d /\ q[j] = a
    BY <1>1, <1>2, <1>3, <1>4
  <2> QED BY <1>1, <2>1 DEF Before
<1> QED BY <1>1, <1>3, <1>4

LEMMA BeforeTail ==
  ASSUME NEW T, NEW q \in Seq(T), q # <<>>, NEW d, NEW a, Before(q, d, a)
  PROVE  /\ Before(Tail(q), d, a)
         /\ Head(q) = a => d \notin Range(q)
<1> DEFINE n == Len(q)
<1>1. /\ Head(q) = q[1] /\ n \in Nat \ {0} /\ DOMAIN q = 1 .. n
      /\ DOMAIN Tail(q) = 1 .. n - 1 /\ \A i \in 1 .. n - 1 : Tail(q)[i] = q[i + 1]
  BY TailPositions
<1> HIDE DEF n
<1>2. Before(Tail(q), d, a)
  <2> SUFFICES ASSUME NEW i \in 1 .. n - 1, NEW j \in 1 .. n - 1,
                      Tail(q)[i] = d, Tail(q)[j] = a
               PROVE  i < j
    BY <1>1 DEF Before
  <2>1. i + 1 \in 1 .. n /\ j + 1 \in 1 .. n /\ q[i + 1] = d /\ q[j + 1] = a
    BY <1>1
  <2>2. i + 1 < j + 1
    BY <1>1, <2>1 DEF Before
  <2> QED BY <2>2
<1>3. ASSUME Head(q) = a PROVE d \notin Range(q)
  <2> SUFFICES ASSUME NEW i \in 1 .. n, q[i] = d PROVE FALSE
    BY <1>1 DEF Range
  <2>1. 1 \in 1 .. n
    BY <1>1
  <2>2. i < 1
    BY <1>1, <1>3, <2>1 DEF Before
  <2> QED BY <1>1, <2>2
<1> QED BY <1>2, <1>3

LEMMA BeforeAbsent ==
  ASSUME NEW q, NEW d, NEW a, a \notin Range(q)
  PROVE  Before(q, d, a)
BY DEF Before, Range

------------------------------------------------------------------------------
(* An abort that went the way of its ADD.                                    *)

\* The front end sends the abort of a request after its ADD.
AddFirst == \A x \in Req : task[Abort(x)] # "none" => task[Add(x)] = "sent"

\* A transport holds the messages it was handed.
Lanes == \A m \in Msg : /\ m \in Range(ring) => via[m] = "shm"
                        /\ m \in Range(zmq) => via[m] = "zmq"

\* Only aborts are held between the two queues, only ADDs are rejected.
Kinds == /\ \A t \in Threads : \A m \in Range(held[t]) : m.kind = "abort"
         /\ \A m \in rejected : m.kind = "add"

SameWay(x) == via[Abort(x)] # "none" /\ via[Abort(x)] = via[Add(x)]

\* A message that a thread has taken off its transport, and dispatched.
Heard(m) == \/ \E t \in Threads : m \in Range(held[t])
            \/ m \in Range(input) \/ m \in Range(taken)

\* The ADD is ahead of the abort: on the transport, then on input_queue, and
\* where the abort has gone on the ADD is not left behind.
InLine(x) ==
  SameWay(x) =>
    /\ Before(ring, Add(x), Abort(x)) /\ Before(zmq, Add(x), Abort(x))
    /\ Before(input, Add(x), Abort(x))
    /\ Heard(Abort(x)) => Add(x) \notin Range(ring) /\ Add(x) \notin Range(zmq)
    /\ Abort(x) \in Range(taken) => Add(x) \notin Range(input) /\ x \notin scheduled

AddAhead == Lanes /\ Kinds /\ \A x \in Req : InLine(x)

\* A message no transport was handed is nowhere.
LEMMA Absent ==
  ASSUME TypeOK, EachInOnePlace, NEW m \in Msg, via[m] = "none"
  PROVE  m \notin Range(ring) /\ m \notin Range(zmq) /\ ~Heard(m)
<1>1. /\ ring \in Seq(Msg) /\ zmq \in Seq(Msg) /\ input \in Seq(Msg)
      /\ taken \in Seq(Msg)
      /\ held["shm"] \in Seq(Msg) /\ held["zmq"] \in Seq(Msg)
  BY DEF TypeOK, Threads
<1>2. \A q \in Seq(Msg) : Count(q, m) = 0 => m \notin Range(q)
  BY PositionsFinite
<1>3. /\ Count(ring, m) = 0 /\ Count(zmq, m) = 0 /\ Count(held["shm"], m) = 0
      /\ Count(held["zmq"], m) = 0 /\ Count(input, m) = 0 /\ Count(taken, m) = 0
  BY CountsAreNumbers DEF EachInOnePlace
<1> QED BY <1>1, <1>2, <1>3 DEF Heard, Threads

\* What dispatch() does to what has been heard, for one message.
LEMMA DispatchOrder ==
  ASSUME TypeOK, NEW t \in Threads, NEW h \in Msg, Dispatch(t, h), Kinds,
         taken' = taken
  PROVE  /\ Kinds'
         /\ \A m : Heard(m)' => Heard(m) \/ m = h
         /\ input' = input \/ (h.kind = "add" /\ input' = Append(input, h))
<1>1. /\ input \in Seq(Msg) /\ held \in [Threads -> Seq(Msg)] /\ held[t] = <<>>
  BY DEF TypeOK, Dispatch
<1>2. Range(<<h>>) = {h}
  BY DEF Range
<1>3. CASE h.kind = "abort" /\ held' = [held EXCEPT ![t] = <<h>>]
           /\ input' = input /\ rejected' = rejected
  <2>1. /\ held'[t] = <<h>> /\ \A u \in Threads : u # t => held'[u] = held[u]
    BY <1>1, <1>3
  <2>2. \A u \in Threads : \A m : m \in Range(held'[u]) => m \in Range(held[u]) \/ m = h
    BY <1>2, <2>1
  <2>3. Kinds'
    BY <1>3, <2>2 DEF Kinds
  <2>4. \A m : Heard(m)' => Heard(m) \/ m = h
    BY <1>3, <2>2 DEF Heard
  <2> QED BY <1>3, <2>3, <2>4
<1>4. CASE h.kind = "add" /\ held' = held /\ input' = Append(input, h) /\ rejected' = rejected
  <2>1. Kinds'
    BY <1>4 DEF Kinds
  <2>2. Range(input') = Range(input) \cup {h}
    BY <1>1, <1>4, RangeAppend
  <2>3. \A m : Heard(m)' => Heard(m) \/ m = h
    BY <1>4, <2>2 DEF Heard
  <2> QED BY <1>4, <2>1, <2>3
<1>5. CASE h.kind = "add" /\ held' = held /\ input' = input /\ rejected' = rejected \cup {h}
  <2>1. Kinds'
    BY <1>5 DEF Kinds
  <2>2. \A m : Heard(m)' => Heard(m)
    BY <1>5 DEF Heard
  <2> QED BY <1>5, <2>1, <2>2
<1> QED BY <1>3, <1>4, <1>5, Zenon DEF Dispatch

LEMMA AddFirstStep ==
  ASSUME TypeOK, AddFirst, [Next]_vars
  PROVE  AddFirst'
<1>0. task \in [Msg -> {"none", "checked", "notify", "zmq", "sent"}]
  BY DEF TypeOK
<1>1. ASSUME task' = task PROVE AddFirst'
  BY <1>1 DEF AddFirst
<1>2. ASSUME NEW n \in Msg, task[n] \in {"checked", "notify", "zmq"},
             \E v : task' = [task EXCEPT ![n] = v]
      PROVE  AddFirst'
  <2> SUFFICES ASSUME NEW x \in Req, task'[Abort(x)] # "none" PROVE task'[Add(x)] = "sent"
    BY DEF AddFirst
  <2>1. Add(x) \in Msg /\ Abort(x) \in Msg
    BY Messages
  <2>2. task[Abort(x)] # "none"
    BY <1>0, <1>2, <2>1
  <2>3. task[Add(x)] = "sent"
    BY <2>2 DEF AddFirst
  <2> QED BY <1>0, <1>2, <2>1, <2>3
<1>3. ASSUME NEW n \in Msg, Check(n) PROVE AddFirst'
  <2> SUFFICES ASSUME NEW x \in Req, task'[Abort(x)] # "none" PROVE task'[Add(x)] = "sent"
    BY DEF AddFirst
  <2>1. Add(x) \in Msg /\ Abort(x) \in Msg /\ Abort(x).kind = "abort" /\ Abort(x).id = x
        /\ Add(x) # Abort(x)
    BY Messages
  <2>2. task[n] = "none" /\ \A m \in Msg : m # n => task'[m] = task[m]
    BY <1>0, <1>3 DEF Check
  <2>3. task[Add(x)] = "sent"
    <3>1. CASE n = Abort(x)
      BY <1>3, <2>1, <3>1 DEF Check
    <3>2. CASE n # Abort(x)
      BY <2>1, <2>2, <3>2 DEF AddFirst
    <3> QED BY <3>1, <3>2
  <2> QED BY <2>1, <2>2, <2>3
<1>4. ASSUME NEW n \in Msg, Publish(n) PROVE AddFirst'
  BY <1>2, <1>4 DEF Publish
<1>5. ASSUME NEW n \in Msg, Notify(n) PROVE AddFirst'
  BY <1>2, <1>5 DEF Notify
<1>6. ASSUME NEW n \in Msg, SendZmq(n) PROVE AddFirst'
  BY <1>2, <1>6 DEF SendZmq
<1>7. CASE ShmThread \/ Die \/ ZmqThread \/ TakeInput \/ TakeAborts
           \/ (\E x \in Req : Complete(x)) \/ UNCHANGED vars
  <2>1. task' = task
    BY <1>7 DEF ShmThread, ZmqThread, Start, Receive, QueueAbort, Wait, Wake, Die, ReceiveZmq,
                TakeInput, TakeAborts, Complete, vars, frontVars
  <2> QED BY <1>1, <2>1
<1> QED BY <1>3, <1>4, <1>5, <1>6, <1>7 DEF Next, FrontEnd

LEMMA AheadStep ==
  ASSUME TypeOK, Routed, EachInOnePlace, AddFirst, AddAhead, [Next]_vars
  PROVE  AddAhead'
<1>0. /\ ring \in Seq(Msg) /\ zmq \in Seq(Msg) /\ input \in Seq(Msg) /\ taken \in Seq(Msg)
      /\ held \in [Threads -> Seq(Msg)]
      /\ task \in [Msg -> {"none", "checked", "notify", "zmq", "sent"}]
      /\ via \in [Msg -> {"none", "shm", "zmq"}]
  BY DEF TypeOK
<1>1. Lanes /\ Kinds /\ \A x \in Req : InLine(x)
  BY DEF AddAhead
<1>2. \A x \in Req : Add(x) \in Msg /\ Abort(x) \in Msg /\ Add(x) # Abort(x)
  BY Messages
\* The queues stay, and the scheduler loses requests only.
<1>3. ASSUME UNCHANGED <<via, ring, zmq, held, input, taken, rejected>>,
             scheduled' \subseteq scheduled
      PROVE  AddAhead'
  <2>1. Lanes' /\ Kinds'
    BY <1>1, <1>3 DEF Lanes, Kinds
  <2>2. ASSUME NEW x \in Req PROVE InLine(x)'
    <3>1. InLine(x)
      BY <1>1
    <3> QED BY <1>3, <3>1 DEF InLine, SameWay, Heard
  <2> QED BY <2>1, <2>2 DEF AddAhead
\* A message is handed to one of the transports.
<1>4. ASSUME NEW n \in Msg, task[n] \in {"checked", "zmq"}, NEW w \in {"shm", "zmq"},
             via' = [via EXCEPT ![n] = w],
             ring' = IF w = "shm" THEN Append(ring, n) ELSE ring,
             zmq' = IF w = "zmq" THEN Append(zmq, n) ELSE zmq,
             UNCHANGED <<held, input, taken, rejected, scheduled>>
      PROVE  AddAhead'
  <2>1. /\ via[n] = "none" /\ via'[n] = w
        /\ \A m \in Msg : m # n => via'[m] = via[m]
    BY <1>0, <1>4 DEF Routed
  <2>2. n \notin Range(ring) /\ n \notin Range(zmq) /\ ~Heard(n)
    BY <2>1, Absent
  <2>3. /\ Range(ring') = IF w = "shm" THEN Range(ring) \cup {n} ELSE Range(ring)
        /\ Range(zmq') = IF w = "zmq" THEN Range(zmq) \cup {n} ELSE Range(zmq)
    <3>1. /\ Range(Append(ring, n)) = Range(ring) \cup {n}
          /\ Range(Append(zmq, n)) = Range(zmq) \cup {n}
      BY <1>0, RangeAppend
    <3> QED BY <1>4, <3>1
  <2>4. Lanes' /\ Kinds'
    <3>1. Kinds'
      BY <1>1, <1>4 DEF Kinds
    <3>2. Lanes'
      BY <1>1, <1>4, <2>1, <2>2, <2>3 DEF Lanes
    <3> QED BY <3>1, <3>2
  <2>5. ASSUME NEW x \in Req PROVE InLine(x)'
    <3> DEFINE a == Abort(x)
               d == Add(x)
    <3>1. a \in Msg /\ d \in Msg /\ d # a
      BY <1>2
    <3>2. Heard(a)' = Heard(a)
      BY <1>4 DEF Heard
    <3>3. CASE n = a
      <4>1. a \notin Range(ring) /\ a \notin Range(zmq) /\ ~Heard(a)
        BY <2>2, <3>3
      <4>2. a \notin Range(input) /\ a \notin Range(taken)
        BY <4>1 DEF Heard
      <4>3. Before(ring, d, a) /\ Before(zmq, d, a) /\ Before(input, d, a)
        BY <4>1, <4>2, BeforeAbsent
      <4>4. Before(ring', d, a) /\ Before(zmq', d, a)
        BY <1>0, <1>4, <3>1, <3>3, <4>3, BeforeAppend
      <4> HIDE DEF a, d
      <4>5. Before(input', d, a) /\ ~Heard(a)' /\ a \notin Range(taken')
        BY <1>4, <3>2, <4>1, <4>2, <4>3
      <4> QED BY <4>4, <4>5 DEF InLine, a, d
    <3>4. CASE n = d
      <4>1. task[a] = "none"
        BY <1>1, <1>4, <3>4 DEF AddFirst
      <4>2. via'[a] = "none"
        BY <1>0, <2>1, <3>1, <3>4, <4>1 DEF Routed
      <4> QED BY <4>2 DEF InLine, SameWay
    <3>5. CASE n # a /\ n # d
      <4>1. SUFFICES ASSUME SameWay(x)'
                     PROVE  /\ Before(ring', d, a) /\ Before(zmq', d, a)
                            /\ Before(input', d, a)
                            /\ Heard(a)' => d \notin Range(ring') /\ d \notin Range(zmq')
                            /\ a \in Range(taken') => d \notin Range(input') /\ x \notin scheduled'
        BY DEF InLine
      <4>2. SameWay(x)
        BY <2>1, <3>1, <3>5, <4>1 DEF SameWay
      <4>3. /\ Before(ring, d, a) /\ Before(zmq, d, a) /\ Before(input, d, a)
            /\ Heard(a) => d \notin Range(ring) /\ d \notin Range(zmq)
            /\ a \in Range(taken) => d \notin Range(input) /\ x \notin scheduled
        BY <1>1, <4>2 DEF InLine
      <4> HIDE DEF a, d
      <4>4. Before(ring', d, a) /\ Before(zmq', d, a)
        BY <1>0, <1>4, <3>1, <3>5, <4>3, BeforeAppend
      <4>5. Heard(a)' => d \notin Range(ring') /\ d \notin Range(zmq')
        BY <2>3, <3>2, <3>5, <4>3
      <4> QED BY <1>4, <4>3, <4>4, <4>5
    <3> QED BY <3>3, <3>4, <3>5
  <2> QED BY <2>4, <2>5 DEF AddAhead
<1>5. ASSUME NEW n \in Msg, Check(n) PROVE AddAhead'
  BY <1>3, <1>5 DEF Check, queueVars, engineVars
<1>6. ASSUME NEW n \in Msg, Publish(n) PROVE AddAhead'
  <2>1. CASE Deliverable
    <3>1. /\ task[n] \in {"checked", "zmq"} /\ via' = [via EXCEPT ![n] = "shm"]
          /\ ring' = Append(ring, n) /\ zmq' = zmq
          /\ UNCHANGED <<held, input, taken, rejected, scheduled>>
      BY <1>6, <2>1 DEF Publish, queueVars, engineVars
    <3> QED BY <1>4, <3>1
  <2>2. CASE ~Deliverable
    BY <1>3, <1>6, <2>2 DEF Publish, queueVars, engineVars
  <2> QED BY <2>1, <2>2
<1>7. ASSUME NEW n \in Msg, Notify(n) PROVE AddAhead'
  BY <1>3, <1>7 DEF Notify, queueVars, engineVars
<1>8. ASSUME NEW n \in Msg, SendZmq(n) PROVE AddAhead'
  <2>1. /\ task[n] \in {"checked", "zmq"} /\ via' = [via EXCEPT ![n] = "zmq"]
        /\ ring' = ring /\ zmq' = Append(zmq, n)
        /\ UNCHANGED <<held, input, taken, rejected, scheduled>>
    BY <1>8 DEF SendZmq, queueVars, engineVars
  <2> QED BY <1>4, <2>1
\* A thread takes the first message off its transport q and dispatches it.
<1>9. ASSUME NEW t \in Threads, NEW h \in Msg, Dispatch(t, h),
             UNCHANGED <<via, taken, scheduled>>,
             \/ ring # <<>> /\ h = Head(ring) /\ ring' = Tail(ring) /\ zmq' = zmq
             \/ zmq # <<>> /\ h = Head(zmq) /\ zmq' = Tail(zmq) /\ ring' = ring
      PROVE  AddAhead'
  <2>1. /\ Kinds' /\ \A m : Heard(m)' => Heard(m) \/ m = h
        /\ input' = input \/ (h.kind = "add" /\ input' = Append(input, h))
    BY <1>1, <1>9, DispatchOrder
  <2>2. /\ h \in Range(ring) \/ h \in Range(zmq)
        /\ Range(ring') \subseteq Range(ring) /\ Range(zmq') \subseteq Range(zmq)
    BY <1>0, <1>9, RangeTail
  <2>3. Lanes'
    BY <1>1, <1>9, <2>2 DEF Lanes
  <2>4. ASSUME NEW x \in Req PROVE InLine(x)'
    <3> DEFINE a == Abort(x)
               d == Add(x)
    <3>1. a \in Msg /\ d \in Msg /\ d # a
      BY <1>2
    <3>2. SUFFICES ASSUME SameWay(x)
                   PROVE  /\ Before(ring', d, a) /\ Before(zmq', d, a)
                          /\ Before(input', d, a)
                          /\ Heard(a)' => d \notin Range(ring') /\ d \notin Range(zmq')
                          /\ a \in Range(taken') => d \notin Range(input') /\ x \notin scheduled'
      BY <1>9 DEF InLine, SameWay
    <3>3. /\ Before(ring, d, a) /\ Before(zmq, d, a) /\ Before(input, d, a)
          /\ Heard(a) => d \notin Range(ring) /\ d \notin Range(zmq)
          /\ a \in Range(taken) => d \notin Range(input) /\ x \notin scheduled
          /\ via[a] = via[d]
      BY <1>1, <3>2 DEF InLine, SameWay
    <3> HIDE DEF a, d
    <3>4. Before(ring', d, a) /\ Before(zmq', d, a)
      <4>1. /\ ring # <<>> => Before(Tail(ring), d, a)
            /\ zmq # <<>> => Before(Tail(zmq), d, a)
        BY <1>0, <3>3, BeforeTail
      <4> QED BY <1>9, <3>3, <4>1
    <3>5. h = d => ~Heard(a)
      BY <2>2, <3>3
    <3>6. Before(input', d, a)
      <4>1. CASE input' = input
        BY <3>3, <4>1
      <4>2. CASE input' = Append(input, h)
        <5>1. h = d => a \notin Range(input)
          BY <3>5 DEF Heard
        <5> QED BY <1>0, <3>1, <3>3, <4>2, <5>1, BeforeAppend
      <4> QED BY <2>1, <4>1, <4>2
    <3>7. ASSUME Heard(a)' PROVE d \notin Range(ring') /\ d \notin Range(zmq')
      <4>1. CASE Heard(a)
        BY <2>2, <3>3, <4>1
      <4>2. CASE h = a
        <5>1. CASE ring # <<>> /\ h = Head(ring)
          <6>1. d \notin Range(ring) /\ a \in Range(ring)
            BY <1>0, <3>3, <4>2, <5>1, BeforeTail, RangeTail
          <6>2. via[d] = "shm"
            BY <1>1, <3>1, <3>3, <6>1 DEF Lanes
          <6>3. d \notin Range(zmq)
            BY <1>1, <3>1, <6>2 DEF Lanes
          <6> QED BY <2>2, <6>1, <6>3
        <5>2. CASE zmq # <<>> /\ h = Head(zmq)
          <6>1. d \notin Range(zmq) /\ a \in Range(zmq)
            BY <1>0, <3>3, <4>2, <5>2, BeforeTail, RangeTail
          <6>2. via[d] = "zmq"
            BY <1>1, <3>1, <3>3, <6>1 DEF Lanes
          <6>3. d \notin Range(ring)
            BY <1>1, <3>1, <6>2 DEF Lanes
          <6> QED BY <2>2, <6>1, <6>3
        <5> QED BY <1>9, <5>1, <5>2
      <4> QED BY <2>1, <3>7, <4>1, <4>2
    <3>8. ASSUME a \in Range(taken') PROVE d \notin Range(input') /\ x \notin scheduled'
      <4>1. Heard(a) /\ d \notin Range(input) /\ x \notin scheduled
        BY <1>9, <3>3, <3>8 DEF Heard
      <4>2. h # d
        BY <3>5, <4>1
      <4>3. Range(input') \subseteq Range(input) \cup {h}
        <5>1. Range(Append(input, h)) = Range(input) \cup {h}
          BY <1>0, RangeAppend
        <5> QED BY <2>1, <5>1
      <4> QED BY <1>9, <4>1, <4>2, <4>3
    <3> QED BY <3>4, <3>6, <3>7, <3>8
  <2> QED BY <2>1, <2>3, <2>4 DEF AddAhead
<1>10. CASE Receive
  <2>1. /\ ring # <<>> /\ Head(ring) \in Msg /\ ring' = Tail(ring) /\ zmq' = zmq
        /\ Dispatch("shm", Head(ring)) /\ UNCHANGED <<via, taken, scheduled>>
        /\ "shm" \in Threads
    BY <1>0, <1>10, HeadTailProperties DEF Receive, Threads, frontVars, engineVars
  <2> QED BY <1>9, <2>1
<1>11. CASE ReceiveZmq
  <2>1. /\ zmq # <<>> /\ Head(zmq) \in Msg /\ zmq' = Tail(zmq) /\ ring' = ring
        /\ Dispatch("zmq", Head(zmq)) /\ UNCHANGED <<via, taken, scheduled>>
        /\ "zmq" \in Threads
    BY <1>0, <1>11, HeadTailProperties DEF ReceiveZmq, Threads, frontVars, engineVars
  <2> QED BY <1>9, <2>1
<1>12. ASSUME NEW t \in Threads, QueueAbort(t) PROVE AddAhead'
  <2>1. /\ held'[t] = <<>> /\ \A u \in Threads : u # t => held'[u] = held[u]
        /\ input' = input \o held[t] /\ held[t] \in Seq(Msg)
        /\ UNCHANGED <<via, ring, zmq, taken, rejected, scheduled>>
    BY <1>0, <1>12 DEF QueueAbort, frontVars, readerVars, engineVars
  <2>2. Range(input') = Range(input) \cup Range(held[t]) /\ Range(held'[t]) = {}
    <3>1. Range(input \o held[t]) = Range(input) \cup Range(held[t])
      BY <1>0, <2>1, RangeConcat
    <3>2. Range(<<>>) = {}
      BY DEF Range
    <3> QED BY <2>1, <3>1, <3>2
  <2>3. Lanes'
    BY <1>1, <2>1 DEF Lanes
  <2>4. Kinds'
    BY <1>1, <2>1, <2>2 DEF Kinds
  <2>5. \A m : Heard(m)' => Heard(m)
    BY <2>1, <2>2 DEF Heard
  <2>6. ASSUME NEW x \in Req PROVE InLine(x)'
    <3> DEFINE a == Abort(x)
               d == Add(x)
    <3>1. d \notin Range(held[t])
      BY <1>1, Messages DEF Kinds
    <3>2. SUFFICES ASSUME SameWay(x)
                   PROVE  /\ Before(ring', d, a) /\ Before(zmq', d, a)
                          /\ Before(input', d, a)
                          /\ Heard(a)' => d \notin Range(ring') /\ d \notin Range(zmq')
                          /\ a \in Range(taken') => d \notin Range(input') /\ x \notin scheduled'
      BY <2>1 DEF InLine, SameWay
    <3>3. /\ Before(ring, d, a) /\ Before(zmq, d, a) /\ Before(input, d, a)
          /\ Heard(a) => d \notin Range(ring) /\ d \notin Range(zmq)
          /\ a \in Range(taken) => d \notin Range(input) /\ x \notin scheduled
      BY <1>1, <3>2 DEF InLine
    <3> HIDE DEF a, d
    <3>4. Before(input', d, a)
      BY <1>0, <2>1, <3>1, <3>3, BeforeConcat
    <3> QED BY <2>1, <2>2, <2>5, <3>1, <3>3, <3>4
  <2> QED BY <2>3, <2>4, <2>6 DEF AddAhead
<1>13. CASE Die
  <2>1. /\ ring' = <<>> /\ Range(ring') = {}
        /\ UNCHANGED <<via, zmq, held, input, taken, rejected, scheduled>>
    BY <1>13 DEF Die, frontVars, queueVars, engineVars, Range
  <2>2. Lanes' /\ Kinds'
    BY <1>1, <2>1 DEF Lanes, Kinds
  <2>3. ASSUME NEW x \in Req PROVE InLine(x)'
    <3>1. InLine(x) /\ Before(ring', Add(x), Abort(x))
      BY <1>1, <2>1, BeforeAbsent
    <3> QED BY <2>1, <3>1 DEF InLine, SameWay, Heard
  <2> QED BY <2>2, <2>3 DEF AddAhead
<1>14. CASE TakeInput
  <2> DEFINE h == Head(input)
  <2>1. /\ input # <<>> /\ input' = Tail(input) /\ taken' = Append(taken, h)
        /\ h \in Msg /\ UNCHANGED <<via, ring, zmq, held, rejected>>
        /\ scheduled' = IF h.kind = "add" THEN scheduled \cup {h.id} ELSE scheduled \ {h.id}
    BY <1>0, <1>14, HeadTailProperties DEF TakeInput, frontVars, readerVars
  <2>2. Range(input) = {h} \cup Range(input') /\ Range(taken') = Range(taken) \cup {h}
    BY <1>0, <2>1, RangeTail, RangeAppend
  <2> HIDE DEF h
  <2>3. Lanes' /\ Kinds'
    BY <1>1, <2>1 DEF Lanes, Kinds
  <2>4. \A m : Heard(m)' => Heard(m)
    BY <2>1, <2>2 DEF Heard
  <2>5. ASSUME NEW x \in Req PROVE InLine(x)'
    <3> DEFINE a == Abort(x)
               d == Add(x)
    <3>1. a.kind = "abort" /\ a.id = x /\ (h.kind = "add" /\ h.id = x => h = d)
      BY <2>1, Messages
    <3>2. SUFFICES ASSUME SameWay(x)
                   PROVE  /\ Before(ring', d, a) /\ Before(zmq', d, a)
                          /\ Before(input', d, a)
                          /\ Heard(a)' => d \notin Range(ring') /\ d \notin Range(zmq')
                          /\ a \in Range(taken') => d \notin Range(input') /\ x \notin scheduled'
      BY <2>1 DEF InLine, SameWay
    <3>3. /\ Before(ring, d, a) /\ Before(zmq, d, a) /\ Before(input, d, a)
          /\ Heard(a) => d \notin Range(ring) /\ d \notin Range(zmq)
          /\ a \in Range(taken) => d \notin Range(input) /\ x \notin scheduled
      BY <1>1, <3>2 DEF InLine
    <3> HIDE DEF a, d
    <3>4. Before(input', d, a) /\ (h = a => d \notin Range(input))
      BY <1>0, <2>1, <3>3, BeforeTail DEF h
    <3>5. ASSUME a \in Range(taken') PROVE d \notin Range(input') /\ x \notin scheduled'
      <4>1. CASE a \in Range(taken)
        <5>1. d \notin Range(input) /\ x \notin scheduled /\ h # d
          BY <2>2, <3>3, <4>1
        <5> QED BY <2>1, <2>2, <3>1, <5>1
      <4>2. CASE h = a
        <5>1. d \notin Range(input) /\ scheduled' = scheduled \ {x}
          BY <2>1, <3>1, <3>4, <4>2
        <5> QED BY <2>2, <5>1
      <4> QED BY <2>2, <3>5, <4>1, <4>2
    <3> QED BY <2>1, <2>4, <3>3, <3>4, <3>5
  <2> QED BY <2>3, <2>5 DEF AddAhead
<1>15. CASE Start
  BY <1>3, <1>15 DEF Start, frontVars, queueVars, engineVars
<1>16. CASE Wait
  BY <1>3, <1>16 DEF Wait, frontVars, queueVars, engineVars
<1>17. CASE Wake
  BY <1>3, <1>17 DEF Wake, frontVars, queueVars, engineVars
<1>18. CASE TakeAborts
  BY <1>3, <1>18 DEF TakeAborts, frontVars, readerVars
<1>19. ASSUME NEW x \in Req, Complete(x) PROVE AddAhead'
  BY <1>3, <1>19 DEF Complete, frontVars, readerVars, queueVars
<1>20. CASE UNCHANGED vars
  BY <1>3, <1>20 DEF vars, frontVars, readerVars, queueVars, engineVars
<1> QED BY <1>5, <1>6, <1>7, <1>8, <1>10, <1>11, <1>12, <1>13, <1>14, <1>15, <1>16, <1>17,
           <1>18, <1>19, <1>20 DEF Next, FrontEnd, ShmThread, ZmqThread, Threads

\* AbortEndsRequest: an abort that has gone through, over the transport its ADD
\* took, ends the request, whatever was queued ahead of either and whether or not
\* the engine saw aborts_queue in between (the two copies of dispatch in
\* shm_ipc.py). The first copy may be handled before the ADD, and does nothing
\* then; the second is behind the ADD. Of an abort that took the other transport
\* nothing is claimed.
THEOREM AbortsEndRequests == Spec => []AbortEndsRequest
<1>1. Init => Routed /\ EachInOnePlace /\ AddFirst /\ AddAhead
  <2> SUFFICES ASSUME Init PROVE Routed /\ EachInOnePlace /\ AddFirst /\ AddAhead
    OBVIOUS
  <2>1. Routed /\ EachInOnePlace
    BY InitPlaces
  <2>2. AddFirst
    BY Messages DEF Init, AddFirst
  <2>3. /\ \A m \in Msg : via[m] = "none"
        /\ ring = <<>> /\ zmq = <<>> /\ rejected = {}
        /\ \A t \in Threads : held[t] = <<>>
    BY DEF Init
  <2>4. Range(<<>>) = {}
    BY DEF Range
  <2>5. Lanes /\ Kinds
    BY <2>3, <2>4 DEF Lanes, Kinds
  <2>6. \A x \in Req : InLine(x)
    BY <2>3, Messages DEF InLine, SameWay
  <2> QED BY <2>1, <2>2, <2>5, <2>6 DEF AddAhead
<1>2. TypeOK /\ TypeOK' /\ Routed /\ EachInOnePlace /\ AddFirst /\ AddAhead /\ [Next]_vars
      => Routed' /\ EachInOnePlace' /\ AddFirst' /\ AddAhead'
  BY PlacesStep, AddFirstStep, AheadStep
<1>3. TypeOK /\ EachInOnePlace /\ AddAhead => AbortEndsRequest
  <2> SUFFICES ASSUME TypeOK, EachInOnePlace, AddAhead, NEW x \in Req,
                      Gone(Abort(x)), via[Abort(x)] = via[Add(x)]
               PROVE  x \notin scheduled
    BY DEF AbortEndsRequest
  <2> DEFINE a == Abort(x)
  <2>1. a \in Msg /\ a.kind = "abort"
    BY Messages
  <2>2. SameWay(x)
    BY DEF SameWay, Gone
  <2>3. a \notin rejected
    BY <2>1 DEF AddAhead, Kinds
  <2>4. /\ ring \in Seq(Msg) /\ zmq \in Seq(Msg) /\ input \in Seq(Msg)
        /\ taken \in Seq(Msg)
        /\ held["shm"] \in Seq(Msg) /\ held["zmq"] \in Seq(Msg)
    BY DEF TypeOK, Threads
  <2> HIDE DEF a
  <2>5. \A q \in Seq(Msg) : Count(q, a) = 0 <=> a \notin Range(q)
    BY PositionsFinite
  <2>6. /\ a \notin Range(ring) /\ a \notin Range(zmq) /\ a \notin Range(input)
        /\ a \notin Range(held["shm"]) /\ a \notin Range(held["zmq"])
        /\ a \notin stranded /\ via[a] # "none"
    BY DEF Gone, a
  <2>7. /\ Count(ring, a) = 0 /\ Count(zmq, a) = 0 /\ Count(input, a) = 0
        /\ Count(held["shm"], a) = 0 /\ Count(held["zmq"], a) = 0
        /\ Once(stranded, a) = 0 /\ Once(rejected, a) = 0
    BY <2>3, <2>4, <2>5, <2>6 DEF Once
  <2>8. Count(taken, a) # 0
    BY <2>1, <2>6, <2>7, CountsAreNumbers DEF EachInOnePlace
  <2>9. a \in Range(taken)
    BY <2>4, <2>5, <2>8
  <2> QED BY <2>2, <2>9 DEF AddAhead, InLine, a
<1> QED BY <1>1, <1>2, <1>3, TypeCorrect, PTL DEF Spec

=============================================================================
