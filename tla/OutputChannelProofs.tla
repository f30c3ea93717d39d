------------------------- MODULE OutputChannelProofs -------------------------
(***************************************************************************)
(* The output path of the engine process, for every buffer and number of   *)
(* batches. It is an ordered stream that loses and doubles nothing in the  *)
(* set-ups in which an inline publish has no runner step and no reply to a *)
(* utility call beside it; in every set-up no batch is sent twice, and     *)
(* none is lost where a step has at most one launch.                       *)
(***************************************************************************)
EXTENDS OutputChannel, SequenceTheorems, TLAPS

\* The set-ups in which the order holds: with an inline publish, a runner step
\* would use an old answer of out_publish_ready (the run output_runner), and a
\* reply to a utility call is not counted as backlog.
OrderedSetups == \A s \in Setups : s.inline => s.launches = 0 /\ ~s.utilities

\* The launches left of a commit may all be emitted.
Room == emitted + commit.left <= MaxBatches

\* The batches of the item that the output thread holds, and of a queue.
Held == IF Sending THEN 1 ELSE 0
Waiting(q) == IF q # <<>> /\ q[Len(q)].id = Dead THEN Len(q) - 1 ELSE Len(q)

\* What was sent, the item held, the queue and the records of a commit are the
\* batches emitted, in the order of emission.
InLine ==
  /\ \A i \in DOMAIN wire : wire[i].id = i
  /\ Sending => item.id = Len(wire) + 1
  /\ \A i \in 1 .. Waiting(queue) : queue[i].id = Len(wire) + Held + i
  /\ \A i \in DOMAIN commit.kept : commit.kept[i] = Len(wire) + Held + Waiting(queue) + i
  /\ emitted = Len(wire) + Held + Waiting(queue) + Len(commit.kept)

\* Nothing is emitted and nothing is queued once the engine has said it is dead.
SentinelIsLast ==
  /\ \A i \in DOMAIN queue : queue[i].id = Dead => i = Len(queue) /\ ~alive
  /\ item.id = Dead => queue = <<>> /\ ~alive
  /\ ~alive => commit = NoCommit

HeldItem ==
  /\ item.id < Dead => item = NoItem
  /\ counted => item.id > Dead

\* Without the inline publish no step takes more than one launch, so a commit
\* keeps at most one record; with it there is no commit.
OneRecord ==
  /\ \A i \in DOMAIN promises :
       /\ ~promises[i].publish /\ promises[i].steps <= 1
       /\ Inline => promises[i] = NoPromise
  /\ ~commit.publish /\ commit.left + Len(commit.kept) <= 1
  /\ Inline => commit = NoCommit

\* The two counters differ by what the output thread has still to send or count.
Backlog ==
  Inline => enqueued - published = Waiting(queue) + (IF item.id > Dead THEN 1 ELSE 0)

Ordered == InLine /\ SentinelIsLast /\ HeldItem /\ OneRecord /\ Backlog

------------------------------------------------------------------------------
(* Types.                                                                    *)

LEMMA Appended ==
  ASSUME NEW S, NEW s \in Seq(S), NEW t, t = s \/ \E e \in S : t = Append(s, e)
  PROVE  t \in Seq(S)
  BY AppendProperties

LEMMA Sets ==
  /\ MaxBatches \in Nat \ {0} /\ 0 \in Record /\ Batches \subseteq Record
  /\ \A n \in Record : n \in Nat /\ (n > 0 => n \in Batches) /\ (n < MaxBatches => n + 1 \in Batches)
  /\ \A n \in Batches : n \in Nat /\ n > 0 /\ n <= MaxBatches
  /\ \A n \in Record, f \in {1, 2} : Batch(n, f) \in Item /\ Batch(n, f).id = n
  /\ \A e \in Item : e.id \in Record /\ e.frames \in {1, 2}
  /\ NoItem.id = -1
  /\ \A n \in Batches : [id |-> n, via |-> "shm"] \in Hop /\ [id |-> n, via |-> "zmq"] \in Hop
  /\ \A n \in Record :
       [id |-> n, via |-> "shm"] \in Arrival /\ [id |-> n, via |-> "zmq"] \in Arrival
  BY ChannelAssumption DEF ChannelAssumption, Record, Batches, Batch, NoItem, Item, Hop, Arrival

LEMMA Launches ==
  ASSUME TypeOK
  PROVE  /\ MaxLaunches \in Nat /\ NoPromise \in Promise
         /\ \A n \in 0 .. MaxLaunches, b \in BOOLEAN : [publish |-> b, steps |-> n] \in Promise
         /\ \A p \in Promise : p.publish \in BOOLEAN /\ p.steps \in 0 .. MaxLaunches
         /\ commit.left \in Nat /\ commit.left <= MaxLaunches
         /\ commit.publish \in BOOLEAN /\ commit.kept \in Seq(Batches)
         /\ NoCommit.left = 0 /\ NoCommit.kept = <<>>
         /\ \A n \in 0 .. MaxLaunches, b \in BOOLEAN, k \in Seq(Batches) :
              [left |-> n, publish |-> b, kept |-> k] \in Commit
  BY ChannelAssumption
     DEF TypeOK, ChannelAssumption, Setup, MaxLaunches, Promise, NoPromise, NoCommit, Commit

LEMMA TypeInit == Init => TypeOK /\ Room
<1> SUFFICES ASSUME Init PROVE TypeOK /\ Room
  OBVIOUS
<1>1. MaxLaunches \in Nat
  BY ChannelAssumption DEF Init, ChannelAssumption, Setup, MaxLaunches
<1>2. \A S : <<>> \in Seq(S)
  OBVIOUS
<1>3. NoCommit \in Commit
  BY <1>1, <1>2 DEF NoCommit, Commit
<1>4. Room
  BY Sets DEF Init, Room, NoCommit
<1> QED BY <1>2, <1>3, <1>4, Sets DEF Init, TypeOK

LEMMA TypeStep == TypeOK /\ Room /\ [Next]_vars => TypeOK' /\ Room'
<1> SUFFICES ASSUME TypeOK, Room, [Next]_vars PROVE TypeOK' /\ Room'
  OBVIOUS
<1>a. setup' = setup /\ Promise' = Promise /\ Commit' = Commit
  BY DEF Next, Engine, OutputThread, FrontEnd, vars, Schedule, UpdateDecide, BeginCommit, Launch,
     EndCommit, UtilityReply, Die, OpenChannel, Take, SendOverShm, SendOverZmq, Count, SendDead,
     Subscribe, ReaderFails, ReadShm, ReadZmq, Promise, Commit, MaxLaunches
<1>c. commit = [left |-> commit.left, publish |-> commit.publish, kept |-> commit.kept]
  BY DEF TypeOK, Commit
<1>d. /\ emitted \in Nat /\ emitted <= MaxBatches /\ commit.left \in Nat
      /\ emitted + commit.left <= MaxBatches
  BY Sets, Launches DEF TypeOK, Room, Record
<1> USE DEF TypeOK, Room
<1>j. Sending => item.id \in Batches
  <2>1. Sending => item \in Item /\ item.id > 0
    BY Sets DEF Sending, Dead
  <2>2. Sending => item.id \in Record
    BY <2>1, Sets
  <2> QED BY <2>1, <2>2, Sets
<1>1. CASE Schedule
  <2>1. PublishReady \in BOOLEAN
    BY DEF PublishReady
  <2>2. PICK p \in Promise : promises' = Append(promises, p)
    BY Launches, <1>1, <2>1 DEF Schedule
  <2>3. promises' \in Seq(Promise)
    BY <2>2, AppendProperties
  <2> QED BY <1>a, <1>1, <2>3 DEF Schedule, threadVars, frontVars
<1>2. CASE UpdateDecide
  <2>1. emitted + 1 \in Batches /\ emitted + 1 \in Record
    BY Sets, <1>d, <1>2 DEF UpdateDecide
  <2>2. promises' \in Seq(Promise)
    BY <1>2, HeadTailProperties DEF UpdateDecide
  <2>3. queue' \in Seq(Item) /\ enqueued' \in Nat
    <3>1. \/ UNCHANGED <<queue, enqueued>>
          \/ \E e \in Item : Enqueue(e)
      BY Sets, <1>2, <2>1 DEF UpdateDecide
    <3>2. queue' \in Seq(Item)
      <4>1. queue' = queue \/ \E e \in Item : queue' = Append(queue, e)
        BY <3>1 DEF Enqueue
      <4> QED BY <4>1, Appended
    <3>3. enqueued' \in Nat
      BY <3>1 DEF Enqueue
    <3> QED BY <3>2, <3>3
  <2>4. ring' \in Seq(Record) /\ zmq' \in Seq(Record) /\ wire' \in Seq(Hop)
    <3>1. \/ UNCHANGED <<ring, zmq, wire>>
          \/ PublishShm(emitted + 1)
      BY <1>2 DEF UpdateDecide
    <3>2. [id |-> emitted + 1, via |-> "shm"] \in Hop
      BY Sets, <2>1
    <3>3. ring' \in Seq(Record)
      <4>1. ring' = ring \/ \E e \in Record : ring' = Append(ring, e)
        BY <3>1, <2>1 DEF PublishShm
      <4> QED BY <4>1, Appended
    <3>4. zmq' \in Seq(Record)
      BY <3>1 DEF PublishShm
    <3>5. wire' \in Seq(Hop)
      <4>1. wire' = wire \/ \E e \in Hop : wire' = Append(wire, e)
        BY <3>1, <3>2 DEF PublishShm
      <4> QED BY <4>1, Appended
    <3> QED BY <3>3, <3>4, <3>5
  <2>5. Room'
    BY <1>2, <1>d, Sets, Launches DEF UpdateDecide
  <2>6. emitted' \in Record
    BY <1>2, <2>1 DEF UpdateDecide
  <2> QED BY <1>a, <1>2, <2>2, <2>3, <2>4, <2>5, <2>6 DEF UpdateDecide, threadVars, frontVars
<1>3. CASE BeginCommit
  <2>1. Head(promises) \in Promise /\ promises' \in Seq(Promise)
    BY <1>3, HeadTailProperties DEF BeginCommit
  <2>2. commit' \in Commit /\ emitted + commit'.left <= MaxBatches
    BY Launches, <1>3, <2>1 DEF BeginCommit
  <2> QED BY <1>a, <1>3, <2>1, <2>2 DEF BeginCommit, threadVars, frontVars
<1>4. CASE Launch
  <2>1. emitted + 1 \in Batches /\ emitted + 1 \in Record /\ emitted' = emitted + 1
    <3>1. commit.left > 0 /\ emitted' = emitted + 1
      BY <1>4 DEF Launch
    <3>2. emitted + 1 \in 1 .. MaxBatches
      BY <3>1, <1>d, Sets
    <3> QED BY <3>1, <3>2, Sets DEF Batches
  <2>2. PICK left \in {0, commit.left - 1} :
          IF commit.publish /\ Deliverable
          THEN /\ PublishShm(emitted + 1)
               /\ commit' = [commit EXCEPT !.left = left]
          ELSE /\ commit' = [commit EXCEPT !.left = left,
                                           !.kept = Append(@, emitted + 1)]
               /\ UNCHANGED <<ring, zmq, wire>>
    BY <1>4 DEF Launch
  <2>3. left \in Nat /\ left < commit.left
    <3>1. commit.left \in Nat /\ commit.left > 0
      BY <1>d, <1>4 DEF Launch
    <3> QED BY <3>1, <2>2
  <2>4. Append(commit.kept, emitted + 1) \in Seq(Batches)
    BY Launches, <2>1, AppendProperties
  <2>5. \/ commit' = [left |-> left, publish |-> commit.publish, kept |-> commit.kept]
        \/ commit' = [left |-> left, publish |-> commit.publish,
                      kept |-> Append(commit.kept, emitted + 1)]
    BY <1>c, <2>2
  <2>6. commit' \in Commit /\ commit'.left = left
    <3>1. left \in 0 .. MaxLaunches
      BY Launches, <2>3
    <3>2. commit.kept \in Seq(Batches) /\ commit.publish \in BOOLEAN
      BY Launches
    <3>3. CASE commit' = [left |-> left, publish |-> commit.publish, kept |-> commit.kept]
      BY <3>1, <3>2, <3>3, Launches
    <3>4. CASE commit' = [left |-> left, publish |-> commit.publish,
                          kept |-> Append(commit.kept, emitted + 1)]
      BY <3>1, <3>2, <3>4, <2>4, Launches
    <3> QED BY <3>3, <3>4, <2>5
  <2>7. ring' \in Seq(Record) /\ zmq' \in Seq(Record) /\ wire' \in Seq(Hop)
    <3>1. UNCHANGED <<ring, zmq, wire>> \/ PublishShm(emitted + 1)
      BY <2>2
    <3>2. [id |-> emitted + 1, via |-> "shm"] \in Hop
      BY Sets, <2>1
    <3>3. ring' \in Seq(Record)
      <4>1. ring' = ring \/ \E e \in Record : ring' = Append(ring, e)
        BY <3>1, <2>1 DEF PublishShm
      <4> QED BY <4>1, Appended
    <3>4. zmq' \in Seq(Record)
      BY <3>1 DEF PublishShm
    <3>5. wire' \in Seq(Hop)
      <4>1. wire' = wire \/ \E e \in Hop : wire' = Append(wire, e)
        BY <3>1, <3>2 DEF PublishShm
      <4> QED BY <4>1, Appended
    <3> QED BY <3>3, <3>4, <3>5
  <2>8. Room'
    <3>1. emitted + 1 + left <= MaxBatches
      BY <2>3, <1>d, Sets
    <3> QED BY <2>1, <2>6, <3>1
  <2>9. emitted' \in Record
    BY <2>1
  <2> QED BY <1>a, <1>4, <2>6, <2>7, <2>8, <2>9 DEF Launch, threadVars, frontVars
<1>5. CASE EndCommit
  <2>1. queue' \in Seq(Item) /\ enqueued' \in Nat
    <3>1. \/ UNCHANGED <<queue, enqueued>>
          \/ commit.kept # <<>> /\ Enqueue(Batch(Head(commit.kept), 1))
      BY <1>5 DEF EndCommit
    <3>2. commit.kept # <<>> => Batch(Head(commit.kept), 1) \in Item
      BY Sets, Launches, HeadTailProperties
    <3>3. queue' \in Seq(Item)
      <4>1. queue' = queue \/ \E e \in Item : queue' = Append(queue, e)
        BY <3>1, <3>2 DEF Enqueue
      <4> QED BY <4>1, Appended
    <3>4. enqueued' \in Nat
      BY <3>1 DEF Enqueue
    <3> QED BY <3>3, <3>4
  <2>2. commit' \in Commit /\ commit'.left = 0
    <3>1. NoCommit \in Commit
      <4>1. <<>> \in Seq(Batches) /\ 0 \in 0 .. MaxLaunches
        BY Launches, EmptySeq
      <4> QED BY <4>1, Launches DEF NoCommit
    <3> QED BY <1>5, <3>1, Launches DEF EndCommit
  <2> QED BY <1>a, <1>5, <2>1, <2>2 DEF EndCommit, threadVars, frontVars
<1>6. CASE UtilityReply
  <2>1. emitted + 1 \in Batches
    BY Sets, <1>d, <1>6 DEF UtilityReply
  <2>2. queue' \in Seq(Item)
    BY Sets, <1>6, <2>1, AppendProperties DEF UtilityReply
  <2>3. Room'
    <3>1. commit' = NoCommit /\ commit'.left = 0 /\ emitted' = emitted + 1
      BY <1>6, Launches DEF UtilityReply
    <3> QED BY <3>1, <2>1, Sets
  <2>4. emitted' \in Record
    BY <1>6, <2>1, Sets DEF UtilityReply
  <2> QED BY <1>a, <1>6, <2>2, <2>3, <2>4 DEF UtilityReply, threadVars, frontVars
<1>7. CASE Die
  <2>1. queue' \in Seq(Item)
    BY Sets, <1>7, AppendProperties DEF Die, Dead
  <2> QED BY <1>a, <1>7, <2>1 DEF Die, threadVars, frontVars
<1>8. CASE OpenChannel
  BY <1>a, <1>8 DEF OpenChannel, engineVars, frontVars
<1>9. CASE Take
  <2>1. item' \in Item /\ queue' \in Seq(Item)
    BY <1>9, HeadTailProperties DEF Take
  <2> QED BY <1>a, <1>9, <2>1 DEF Take, engineVars, frontVars
<1>10. CASE SendOverShm
  <2>1. item.id \in Batches
    BY <1>j, <1>10 DEF SendOverShm
  <2>2. ring' \in Seq(Record) /\ zmq' \in Seq(Record) /\ wire' \in Seq(Hop)
    BY Sets, <1>10, <2>1, AppendProperties DEF SendOverShm, PublishShm
  <2> QED BY <1>a, <1>10, <2>2 DEF SendOverShm, engineVars, frontVars
<1>11. CASE SendOverZmq
  <2>1. item.id \in Batches
    BY <1>j, <1>11 DEF SendOverZmq
  <2>2. ring' \in Seq(Record) /\ zmq' \in Seq(Record) /\ wire' \in Seq(Hop)
    BY Sets, <1>11, <2>1, AppendProperties DEF SendOverZmq, SendZmq
  <2> QED BY <1>a, <1>11, <2>2 DEF SendOverZmq, engineVars, frontVars
<1>12. CASE Count
  <2>1. published' \in Nat
    BY <1>12 DEF Count
  <2>2. counted' \in BOOLEAN /\ item' \in Item \cup {NoItem}
    BY <1>12 DEF Count
  <2> QED BY <1>a, <1>12, <2>1, <2>2 DEF Count, engineVars, frontVars
<1>13. CASE SendDead
  <2>1. ring' \in Seq(Record) /\ zmq' \in Seq(Record)
    BY Sets, <1>13, AppendProperties DEF SendDead, Dead
  <2> QED BY <1>a, <1>13, <2>1 DEF SendDead, engineVars, frontVars
<1>14. CASE Subscribe
  BY <1>a, <1>14 DEF Subscribe, engineVars, threadVars
<1>15. CASE ReaderFails
  BY <1>a, <1>15 DEF ReaderFails, engineVars, threadVars
<1>16. CASE ReadShm
  <2>1. ring' \in Seq(Record) /\ received' \in Seq(Arrival)
    BY Sets, <1>16, HeadTailProperties, AppendProperties DEF ReadShm
  <2> QED BY <1>a, <1>16, <2>1 DEF ReadShm, engineVars, threadVars
<1>17. CASE ReadZmq
  <2>1. zmq' \in Seq(Record) /\ received' \in Seq(Arrival)
    BY Sets, <1>17, HeadTailProperties, AppendProperties DEF ReadZmq
  <2> QED BY <1>a, <1>17, <2>1 DEF ReadZmq, engineVars, threadVars
<1>18. CASE UNCHANGED vars
  BY <1>a, <1>18 DEF vars, engineVars, threadVars, frontVars
<1> QED
  BY <1>1, <1>2, <1>3, <1>4, <1>5, <1>6, <1>7, <1>8, <1>9, <1>10, <1>11, <1>12, <1>13,
     <1>14, <1>15, <1>16, <1>17, <1>18 DEF Next, Engine, OutputThread, FrontEnd

\* Every variable keeps its type, whatever the set-ups.
THEOREM TypeCorrect == Spec => []TypeOK
<1>1. Spec => [](TypeOK /\ Room)
  BY TypeInit, TypeStep, PTL DEF Spec
<1> QED BY <1>1, PTL

------------------------------------------------------------------------------
(* Order.                                                                    *)

\* A queue that a batch or the sentinel is put behind holds no sentinel.
LEMMA WaitingAppend ==
  ASSUME NEW q \in Seq(Item), \A i \in DOMAIN q : q[i].id # Dead, NEW e \in Item
  PROVE  /\ Waiting(q) = Len(q)
         /\ Waiting(Append(q, e)) = IF e.id = Dead THEN Len(q) ELSE Len(q) + 1
         /\ Len(Append(q, e)) = Len(q) + 1 /\ Append(q, e)[Len(q) + 1] = e
         /\ \A i \in 1 .. Len(q) : Append(q, e)[i] = q[i]
         /\ DOMAIN Append(q, e) = 1 .. Len(q) + 1 /\ DOMAIN q = 1 .. Len(q) /\ Len(q) \in Nat
<1>1. /\ Append(q, e) \in Seq(Item) /\ Append(q, e) # <<>>
      /\ Len(Append(q, e)) = Len(q) + 1 /\ Append(q, e)[Len(q) + 1] = e
      /\ \A i \in 1 .. Len(q) : Append(q, e)[i] = q[i]
  BY AppendProperties
<1>2. DOMAIN Append(q, e) = 1 .. Len(q) + 1 /\ DOMAIN q = 1 .. Len(q) /\ Len(q) \in Nat
  BY <1>1, LenProperties
<1>3. Waiting(q) = Len(q)
  <2>1. q # <<>> => Len(q) \in DOMAIN q
    BY <1>2, EmptySeq
  <2> QED BY <2>1 DEF Waiting
<1>4. Waiting(Append(q, e)) = IF e.id = Dead THEN Len(q) ELSE Len(q) + 1
  BY <1>1, <1>2 DEF Waiting
<1> QED BY <1>1, <1>2, <1>3, <1>4

\* Taking the first item of a queue; the sentinel is the last one.
LEMMA WaitingTail ==
  ASSUME NEW q \in Seq(Item), q # <<>>, \A i \in DOMAIN q : q[i].id = Dead => i = Len(q)
  PROVE  /\ Head(q) = q[1] /\ Len(q) \in Nat \ {0} /\ DOMAIN q = 1 .. Len(q)
         /\ Tail(q) \in Seq(Item) /\ Len(Tail(q)) = Len(q) - 1
         /\ DOMAIN Tail(q) = 1 .. Len(q) - 1
         /\ \A i \in 1 .. Len(q) - 1 : Tail(q)[i] = q[i + 1]
         /\ Head(q).id = Dead => Tail(q) = <<>> /\ Waiting(q) = 0 /\ Waiting(Tail(q)) = 0
         /\ Head(q).id # Dead => Waiting(q) > 0 /\ Waiting(Tail(q)) = Waiting(q) - 1
<1>1. /\ Head(q) = q[1] /\ Len(q) \in Nat \ {0} /\ DOMAIN q = 1 .. Len(q)
      /\ Tail(q) \in Seq(Item) /\ Len(Tail(q)) = Len(q) - 1
      /\ \A i \in 1 .. Len(q) - 1 : Tail(q)[i] = q[i + 1]
  BY HeadTailProperties, LenProperties, EmptySeq
<1>2. DOMAIN Tail(q) = 1 .. Len(q) - 1
  BY <1>1, LenProperties
<1>e. Len(<<>>) = 0 /\ \A t \in Seq(Item) : Len(t) = 0 => t = <<>>
  BY EmptySeq
<1>3. ASSUME Head(q).id = Dead
      PROVE  Tail(q) = <<>> /\ Waiting(q) = 0 /\ Waiting(Tail(q)) = 0
  <2>1. Len(q) = 1
    BY <1>1, <1>3
  <2>0. Len(Tail(q)) = 0
    BY <1>1, <2>1
  <2>2. Tail(q) = <<>>
    BY <1>1, <1>e, <2>0, Zenon
  <2> QED BY <1>1, <1>3, <2>1, <2>2 DEF Waiting
<1>4. ASSUME Head(q).id # Dead
      PROVE  Waiting(q) > 0 /\ Waiting(Tail(q)) = Waiting(q) - 1
  <2>1. CASE Len(q) = 1
    <3>0. Len(Tail(q)) = 0
      BY <1>1, <2>1
    <3>1. Tail(q) = <<>>
      BY <1>1, <1>e, <3>0, Zenon
    <3>2. Waiting(q) = 1
      BY <1>1, <1>4, <2>1 DEF Waiting
    <3>3. Waiting(Tail(q)) = 0
      BY <1>e, <3>1 DEF Waiting
    <3> QED BY <3>2, <3>3
  <2>2. CASE Len(q) > 1
    <3>1. Tail(q) # <<>> /\ Tail(q)[Len(Tail(q))] = q[Len(q)]
      <4>1. Len(Tail(q)) \in 1 .. Len(q) - 1 /\ Len(Tail(q)) + 1 = Len(q)
        BY <1>1, <2>2
      <4>2. Tail(q) # <<>>
        BY <4>1, <1>e
      <4> QED BY <4>1, <4>2, <1>1
    <3> QED BY <1>1, <2>2, <3>1 DEF Waiting
  <2> QED BY <1>1, <2>1, <2>2
<1> QED BY <1>1, <1>2, <1>3, <1>4

LEMMA WireAppend ==
  ASSUME NEW w \in Seq(Hop), \A i \in DOMAIN w : w[i].id = i,
         NEW n \in Batches, n = Len(w) + 1, NEW v \in {"shm", "zmq"}
  PROVE  /\ Len(Append(w, [id |-> n, via |-> v])) = Len(w) + 1
         /\ \A i \in DOMAIN Append(w, [id |-> n, via |-> v]) :
              Append(w, [id |-> n, via |-> v])[i].id = i
<1> DEFINE e == [id |-> n, via |-> v]
<1>1. e \in Hop /\ e.id = Len(w) + 1
  BY DEF Hop
<1> HIDE DEF e
<1>2. /\ Append(w, e) \in Seq(Hop) /\ Len(Append(w, e)) = Len(w) + 1
      /\ \A i \in 1 .. Len(w) : Append(w, e)[i] = w[i]
      /\ Append(w, e)[Len(w) + 1] = e /\ Len(w) \in Nat /\ DOMAIN w = 1 .. Len(w)
  BY <1>1, AppendProperties, LenProperties
<1>3. DOMAIN Append(w, e) = 1 .. Len(w) + 1
  BY <1>2, LenProperties
<1>4. ASSUME NEW i \in 1 .. Len(w) + 1 PROVE Append(w, e)[i].id = i
  <2>1. CASE i \in 1 .. Len(w)
    BY <1>2, <2>1
  <2>2. CASE i = Len(w) + 1
    BY <1>1, <1>2, <2>2
  <2> QED BY <1>2, <2>1, <2>2
<1>5. Len(Append(w, e)) = Len(w) + 1 /\ \A i \in DOMAIN Append(w, e) : Append(w, e)[i].id = i
  BY <1>2, <1>3, <1>4
<1> QED BY <1>5 DEF e

LEMMA OrderedInit == Init => Ordered
<1> SUFFICES ASSUME Init PROVE Ordered
  OBVIOUS
<1>1. /\ Len(wire) = 0 /\ Len(commit.kept) = 0 /\ Waiting(queue) = 0 /\ Len(queue) = 0
      /\ DOMAIN wire = {} /\ DOMAIN queue = {} /\ DOMAIN promises = {} /\ DOMAIN commit.kept = {}
      /\ commit.left = 0 /\ ~commit.publish
  BY EmptySeq DEF Init, NoCommit, Waiting
<1>2. ~Sending /\ Held = 0 /\ item.id = -1
  BY DEF Init, Sending, Held, NoItem, Batch, Dead
<1>3. InLine
  BY <1>1, <1>2 DEF Init, InLine
<1>4. SentinelIsLast /\ HeldItem
  BY <1>1, <1>2 DEF Init, SentinelIsLast, HeldItem, Dead
<1>5. OneRecord
  BY <1>1 DEF Init, OneRecord
<1>6. Backlog
  BY <1>1, <1>2 DEF Init, Backlog, Dead
<1> QED BY <1>3, <1>4, <1>5, <1>6 DEF Ordered

LEMMA OrderedStep ==
  ASSUME OrderedSetups, TypeOK, Room, Ordered, [Next]_vars
  PROVE  Ordered'
<1> USE DEF Dead
<1>a. /\ Len(wire) \in Nat /\ DOMAIN wire = 1 .. Len(wire) /\ wire \in Seq(Hop)
      /\ Len(commit.kept) \in Nat /\ DOMAIN commit.kept = 1 .. Len(commit.kept)
      /\ commit.kept \in Seq(Batches) /\ commit.left \in Nat
      /\ Len(queue) \in Nat /\ DOMAIN queue = 1 .. Len(queue) /\ queue \in Seq(Item)
      /\ Len(promises) \in Nat /\ DOMAIN promises = 1 .. Len(promises)
      /\ promises \in Seq(Promise)
      /\ enqueued \in Nat /\ published \in Nat /\ item.id \in Int /\ emitted \in Nat
      /\ NoItem.id = -1
  BY LenProperties, Sets, Launches DEF TypeOK
<1>b. Held \in {0, 1} /\ (Sending <=> Held = 1)
  BY DEF Held
<1>c. Waiting(queue) \in Nat
  BY <1>a, EmptySeq DEF Waiting
<1>d. alive => item.id # Dead /\ \A i \in DOMAIN queue : queue[i].id # Dead
  BY DEF Ordered, SentinelIsLast
<1>e. Inline => MaxLaunches = 0 /\ ~Utilities
  BY DEF OrderedSetups, TypeOK, Inline, MaxLaunches, Utilities
<1>g. InLine /\ SentinelIsLast /\ HeldItem /\ OneRecord /\ Backlog
  BY DEF Ordered
<1>h. /\ NoCommit.kept = <<>> /\ NoCommit.left = 0 /\ ~NoCommit.publish
      /\ ~NoPromise.publish /\ NoPromise.steps = 0 /\ Len(<<>>) = 0 /\ DOMAIN (<<>>) = {}
  BY DEF NoCommit, NoPromise
<1>i. setup' = setup /\ (Inline <=> Inline')
  BY DEF Next, Engine, OutputThread, FrontEnd, vars, Schedule, UpdateDecide, BeginCommit, Launch,
     EndCommit, UtilityReply, Die, OpenChannel, Take, SendOverShm, SendOverZmq, Count, SendDead,
     Subscribe, ReaderFails, ReadShm, ReadZmq, Inline
\* The actions that touch none of what the invariant is about.
<1>u. ASSUME UNCHANGED <<alive, emitted, commit, enqueued, published, queue, item, counted, wire>>
      PROVE  (InLine /\ SentinelIsLast /\ HeldItem /\ Backlog)'
  BY <1>u, <1>g, <1>i DEF InLine, SentinelIsLast, HeldItem, Backlog, Held, Sending
<1>v. ASSUME UNCHANGED <<promises, commit>> PROVE OneRecord'
  BY <1>v, <1>g, <1>i DEF OneRecord
\* A batch put behind the queue is the next one in the order.
<1>q. ASSUME NEW n \in Batches, NEW f \in {1, 2}, alive,
             queue' = Append(queue, Batch(n, f)), UNCHANGED <<item, counted, wire>>,
             n = Len(wire) + Held + Waiting(queue) + 1
      PROVE  /\ Waiting(queue)' = Waiting(queue) + 1
             /\ Held' = Held /\ (Sending' <=> Sending)
             /\ \A i \in 1 .. Waiting(queue)' : queue'[i].id = Len(wire) + Held + i
             /\ \A i \in DOMAIN queue' : queue'[i].id # 0
  <2>1. Batch(n, f) \in Item /\ Batch(n, f).id = n /\ n # 0
    BY Sets
  <2>2. /\ Waiting(queue) = Len(queue) /\ Waiting(queue)' = Len(queue) + 1
        /\ Len(queue') = Len(queue) + 1 /\ queue'[Len(queue) + 1].id = n
        /\ \A i \in 1 .. Len(queue) : queue'[i] = queue[i]
        /\ DOMAIN queue' = 1 .. Len(queue) + 1
    <3>1. \A i \in DOMAIN queue : queue[i].id # 0
      BY <1>d, <1>q
    <3> QED BY <3>1, <2>1, <1>a, <1>q, WaitingAppend
  <2>3. Held' = Held /\ (Sending' <=> Sending)
    BY <1>q DEF Sending, Held
  <2>4. ASSUME NEW i \in 1 .. Len(queue) + 1
        PROVE  queue'[i].id = Len(wire) + Held + i /\ queue'[i].id # 0
    <3>1. CASE i \in 1 .. Len(queue)
      BY <3>1, <2>2, <1>a, <1>d, <1>g, <1>q DEF InLine
    <3>2. CASE i = Len(queue) + 1
      BY <3>2, <2>1, <2>2, <1>q, <1>a, <1>b
    <3> QED BY <3>1, <3>2, <1>a
  <2> QED BY <2>2, <2>3, <2>4
<1>1. CASE Schedule
  <2>1. PICK p \in Promise :
             /\ promises' = Append(promises, p)
             /\ ~p.publish /\ p.steps <= 1 /\ (Inline => p = NoPromise)
    <3>1. PICK steps \in 0 .. MaxLaunches :
               /\ steps > 1 => PublishReady
               /\ promises' = Append(promises,
                    IF steps = 0 THEN NoPromise
                                 ELSE [publish |-> PublishReady, steps |-> steps])
      BY <1>1 DEF Schedule
    <3>2. PublishReady \in BOOLEAN /\ (PublishReady => Inline)
      BY DEF PublishReady
    <3>3. CASE steps = 0
      BY <3>1, <3>3, <1>h, Launches
    <3>4. CASE steps # 0
      <4>1. ~Inline /\ ~PublishReady /\ steps = 1
        BY <3>1, <3>2, <3>4, <1>e, Launches
      <4>2. [publish |-> PublishReady, steps |-> steps] \in Promise
        BY <3>2, Launches
      <4> QED BY <3>1, <4>1, <4>2
    <3> QED BY <3>3, <3>4
  <2>2. \A i \in DOMAIN promises' : promises'[i] = p \/ (i \in DOMAIN promises /\ promises'[i] = promises[i])
    BY <1>a, <2>1, AppendProperties, LenProperties
  <2>3. OneRecord'
    BY <1>1, <1>g, <1>i, <2>1, <2>2 DEF OneRecord, Schedule
  <2> QED BY <1>1, <1>u, <2>3 DEF Schedule, threadVars, Ordered
<1>2. CASE UpdateDecide
  <2>1. commit = NoCommit /\ alive /\ emitted + 1 \in Batches /\ emitted' = emitted + 1 /\ UNCHANGED commit
    BY <1>2, <1>a, Sets DEF UpdateDecide, TypeOK
  <2>2. Len(commit.kept) = 0 /\ DOMAIN commit.kept = {}
    BY <1>h, <2>1
  <2>3. OneRecord'
    <3>1. \A i \in DOMAIN promises' : \E j \in DOMAIN promises : promises'[i] = promises[j]
      <4>1. promises # <<>> /\ promises' = Tail(promises)
        BY <1>2 DEF UpdateDecide
      <4>2. /\ Len(Tail(promises)) = Len(promises) - 1
            /\ \A i \in 1 .. Len(Tail(promises)) : Tail(promises)[i] = promises[i + 1]
            /\ Tail(promises) \in Seq(Promise)
        BY <1>a, <4>1, HeadTailProperties
      <4>3. DOMAIN Tail(promises) = 1 .. Len(promises) - 1
        BY <4>2, LenProperties
      <4>4. \A i \in 1 .. Len(promises) - 1 : i + 1 \in DOMAIN promises
        BY <1>a
      <4> QED BY <4>1, <4>2, <4>3, <4>4
    <3> QED BY <2>1, <3>1, <1>g, <1>i DEF OneRecord
  <2>4. CASE PublishReady /\ Deliverable /\ PublishShm(emitted + 1) /\ UNCHANGED <<queue, enqueued>>
    <3>1. UNCHANGED <<alive, item, counted, published>>
      BY <1>2 DEF UpdateDecide, threadVars
    <3>2. Inline /\ Waiting(queue) = 0 /\ ~(item.id > Dead)
      BY <2>4, <1>a, <1>c, <1>g DEF PublishReady, Backlog
    <3>3. ~Sending /\ Held = 0 /\ emitted = Len(wire)
      <4>1. ~Sending /\ Held = 0
        BY <3>2 DEF Sending, Held
      <4> QED BY <4>1, <3>2, <1>a, <1>g, <2>2 DEF InLine
    <3>4. wire' = Append(wire, [id |-> emitted + 1, via |-> "shm"])
      BY <2>4 DEF PublishShm
    <3>5. Len(wire') = Len(wire) + 1 /\ \A i \in DOMAIN wire' : wire'[i].id = i
      BY <3>3, <3>4, <2>1, <1>a, <1>g, WireAppend DEF InLine
    <3>6. ~Sending' /\ Held' = 0 /\ Waiting(queue)' = 0
      BY <2>4, <3>1, <3>2, <3>3 DEF Sending, Held
    <3>7. InLine'
      BY <3>3, <3>5, <3>6, <2>1, <2>2, <1>a DEF InLine
    <3>8. (SentinelIsLast /\ HeldItem)'
      BY <2>1, <2>4, <3>1, <1>g DEF SentinelIsLast, HeldItem
    <3>9. Backlog'
      BY <2>4, <3>1, <1>g, <1>i DEF Backlog
    <3> QED BY <2>3, <3>7, <3>8, <3>9 DEF Ordered
  <2>5. ASSUME NEW f \in {1, 2}, Enqueue(Batch(emitted + 1, f)), UNCHANGED <<ring, zmq, wire>>
        PROVE  Ordered'
    <3>1. UNCHANGED <<alive, item, counted, published>>
      BY <1>2 DEF UpdateDecide, threadVars
    <3>2. queue' = Append(queue, Batch(emitted + 1, f)) /\ enqueued' = enqueued + 1
      BY <2>5 DEF Enqueue
    <3>3. emitted + 1 = Len(wire) + Held + Waiting(queue) + 1
      BY <2>2, <1>a, <1>b, <1>c, <1>g DEF InLine
    <3>4. /\ Waiting(queue)' = Waiting(queue) + 1
          /\ Held' = Held /\ (Sending' <=> Sending)
          /\ \A i \in 1 .. Waiting(queue)' : queue'[i].id = Len(wire) + Held + i
          /\ \A i \in DOMAIN queue' : queue'[i].id # 0
      BY <1>q, <2>1, <2>5, <3>1, <3>2, <3>3
    <3>5. InLine'
      <4>1. emitted' = Len(wire) + Held + Waiting(queue)' + Len(commit.kept)
        <5>1. emitted' = emitted + 1 /\ Waiting(queue)' = Waiting(queue) + 1
          BY <2>1, <3>4
        <5>2. emitted + 1 = Len(wire) + Held + Waiting(queue) + 1 + Len(commit.kept)
          BY <3>3, <2>2, <1>a, <1>b, <1>c
        <5> QED BY <5>1, <5>2, <1>a, <1>b, <1>c
      <4> QED BY <4>1, <2>1, <2>2, <2>5, <3>1, <3>4, <1>g DEF InLine
    <3>6. (SentinelIsLast /\ HeldItem)'
      BY <2>1, <3>1, <3>4, <1>d, <1>g DEF SentinelIsLast, HeldItem
    <3>7. Backlog'
      BY <3>1, <3>2, <3>4, <1>a, <1>c, <1>g, <1>i DEF Backlog
    <3> QED BY <2>3, <3>5, <3>6, <3>7 DEF Ordered
  <2> QED BY <1>2, <2>4, <2>5 DEF UpdateDecide
<1>3. CASE BeginCommit
  <2>1. PICK j \in DOMAIN promises :
           /\ Head(promises) = promises[j] /\ promises[j] # NoPromise
           /\ \A i \in DOMAIN promises' : \E k \in DOMAIN promises : promises'[i] = promises[k]
    <3>1. promises # <<>> /\ promises' = Tail(promises) /\ Head(promises) # NoPromise
      BY <1>3 DEF BeginCommit
    <3>2. /\ Len(Tail(promises)) = Len(promises) - 1
          /\ \A i \in 1 .. Len(Tail(promises)) : Tail(promises)[i] = promises[i + 1]
          /\ Tail(promises) \in Seq(Promise) /\ Len(promises) > 0 /\ Head(promises) = promises[1]
      BY <1>a, <3>1, HeadTailProperties, EmptySeq
    <3>3. DOMAIN Tail(promises) = 1 .. Len(promises) - 1
      BY <3>2, LenProperties
    <3>4. 1 \in DOMAIN promises /\ \A i \in 1 .. Len(promises) - 1 : i + 1 \in DOMAIN promises
      BY <1>a, <3>2
    <3> QED BY <3>1, <3>2, <3>3, <3>4
  <2>2. promises[j] \in Promise /\ ~promises[j].publish /\ promises[j].steps <= 1 /\ ~Inline
        /\ promises[j].steps \in Nat
    BY <2>1, <1>a, <1>g, Launches DEF OneRecord
  <2>3. commit' = [left |-> promises[j].steps, publish |-> promises[j].publish, kept |-> <<>>]
    BY <1>3, <2>1 DEF BeginCommit
  <2>4. commit'.left <= 1 /\ ~commit'.publish /\ commit'.kept = <<>> /\ commit'.left \in Nat
    BY <2>2, <2>3
  <2>5. OneRecord'
    <3>1. \A i \in DOMAIN promises' : ~promises'[i].publish /\ promises'[i].steps <= 1
      BY <2>1, <1>g DEF OneRecord
    <3>2. commit'.left + Len(commit'.kept) <= 1
      BY <2>4, <1>h
    <3> QED BY <2>2, <2>4, <3>1, <3>2, <1>i DEF OneRecord
  <2>6. UNCHANGED <<alive, emitted, enqueued, published, queue, item, counted, wire>> /\ alive
        /\ commit = NoCommit
    BY <1>3 DEF BeginCommit, threadVars
  <2>7. InLine'
    BY <2>4, <2>6, <1>g, <1>h DEF InLine, Sending, Held
  <2>8. (SentinelIsLast /\ HeldItem /\ Backlog)'
    BY <2>6, <1>g, <1>i DEF SentinelIsLast, HeldItem, Backlog
  <2> QED BY <2>5, <2>7, <2>8 DEF Ordered
<1>4. CASE Launch
  <2>1. alive /\ commit.left > 0 /\ emitted' = emitted + 1 /\ emitted + 1 \in Batches
        /\ UNCHANGED <<alive, promises, enqueued, published, queue, item, counted>>
    <3>1. alive /\ commit.left > 0 /\ emitted' = emitted + 1
          /\ UNCHANGED <<alive, promises, enqueued, published, queue, item, counted>>
      BY <1>4 DEF Launch, threadVars
    <3>2. emitted + 1 \in 1 .. MaxBatches
      BY <3>1, <1>a, Sets DEF Room
    <3> QED BY <3>1, <3>2 DEF Batches
  <2>2. commit.left = 1 /\ Len(commit.kept) = 0 /\ ~commit.publish /\ ~Inline
    BY <2>1, <1>a, <1>g, <1>h DEF OneRecord
  <2>3. PICK left \in {0, commit.left - 1} :
           /\ commit' = [commit EXCEPT !.left = left, !.kept = Append(@, emitted + 1)]
           /\ UNCHANGED wire
    BY <1>4, <2>2 DEF Launch
  <2>4. left = 0 /\ commit = [left |-> commit.left, publish |-> commit.publish, kept |-> commit.kept]
    BY <2>2, <2>3 DEF TypeOK, Commit
  <2>5. commit' = [left |-> 0, publish |-> commit.publish, kept |-> Append(commit.kept, emitted + 1)]
    BY <2>3, <2>4
  <2>6. commit'.left = 0 /\ ~commit'.publish /\ commit'.kept = Append(commit.kept, emitted + 1)
    BY <2>2, <2>5
  <2>7. /\ Append(commit.kept, emitted + 1) \in Seq(Batches)
        /\ Len(commit'.kept) = 1 /\ commit'.kept[1] = emitted + 1
    BY <2>1, <2>2, <2>6, <1>a, AppendProperties
  <2>8. DOMAIN commit'.kept = {1}
    BY <2>6, <2>7, LenProperties
  <2>9. OneRecord'
    BY <2>1, <2>2, <2>6, <2>7, <1>g, <1>i DEF OneRecord
  <2>10. Held' = Held /\ (Sending' <=> Sending) /\ Waiting(queue)' = Waiting(queue)
    BY <2>1 DEF Sending, Held
  <2>11. InLine'
    <3>1. emitted = Len(wire) + Held + Waiting(queue)
      BY <2>2, <1>a, <1>b, <1>c, <1>g DEF InLine
    <3>2. emitted' = Len(wire) + Held + Waiting(queue) + 1
      BY <3>1, <2>1, <1>a
    <3>3. \A i \in DOMAIN commit'.kept : commit'.kept[i] = Len(wire) + Held + Waiting(queue) + i
      BY <2>7, <2>8, <3>1
    <3> QED BY <2>1, <2>3, <2>7, <2>10, <3>2, <3>3, <1>g DEF InLine
  <2>12. (SentinelIsLast /\ HeldItem /\ Backlog)'
    BY <2>1, <2>2, <1>g, <1>i DEF SentinelIsLast, HeldItem, Backlog
  <2> QED BY <2>9, <2>11, <2>12 DEF Ordered
<1>5. CASE EndCommit
  <2>1. alive /\ commit # NoCommit /\ ~Inline /\ commit' = NoCommit
        /\ UNCHANGED <<alive, emitted, promises, published, item, counted, wire>>
    BY <1>5, <1>g DEF EndCommit, threadVars, SentinelIsLast, OneRecord
  <2>2. OneRecord'
    BY <2>1, <1>g, <1>h, <1>i DEF OneRecord
  <2>3. CASE commit.kept = <<>> /\ UNCHANGED <<queue, enqueued>>
    <3>1. Len(commit.kept) = 0 /\ Len(commit'.kept) = 0 /\ DOMAIN commit'.kept = {}
      BY <2>1, <2>3, <1>h
    <3>2. Held' = Held /\ (Sending' <=> Sending) /\ Waiting(queue)' = Waiting(queue)
      BY <2>1, <2>3 DEF Held, Sending
    <3>3. InLine'
      BY <2>1, <2>3, <3>1, <3>2, <1>g DEF InLine
    <3>4. (SentinelIsLast /\ HeldItem /\ Backlog)'
      BY <2>1, <2>3, <1>g, <1>i DEF SentinelIsLast, HeldItem, Backlog
    <3> QED BY <2>2, <3>3, <3>4 DEF Ordered
  <2>4. CASE commit.kept # <<>> /\ Enqueue(Batch(Head(commit.kept), 1))
    <3>1. Head(commit.kept) = commit.kept[1] /\ Head(commit.kept) \in Batches /\ Len(commit.kept) > 0
      BY <2>4, <1>a, HeadTailProperties, EmptySeq
    <3>2. Len(commit.kept) = 1
      <4>1. commit.left + Len(commit.kept) <= 1
        BY <1>g DEF OneRecord
      <4>2. Len(commit.kept) \in Nat /\ Len(commit.kept) > 0 /\ commit.left \in Nat
        BY <3>1, <1>a
      <4>3. \A m, n \in Nat : m > 0 /\ n + m <= 1 => m = 1
        OBVIOUS
      <4> QED BY <4>1, <4>2, <4>3, Zenon
    <3>3. Head(commit.kept) = Len(wire) + Held + Waiting(queue) + 1
      BY <3>1, <3>2, <1>a, <1>g DEF InLine
    <3>4. queue' = Append(queue, Batch(Head(commit.kept), 1)) /\ enqueued' = enqueued + 1
      BY <2>4 DEF Enqueue
    <3>5. /\ Waiting(queue)' = Waiting(queue) + 1
          /\ Held' = Held /\ (Sending' <=> Sending)
          /\ \A i \in 1 .. Waiting(queue)' : queue'[i].id = Len(wire) + Held + i
          /\ \A i \in DOMAIN queue' : queue'[i].id # 0
      BY <1>q, <2>1, <3>1, <3>3, <3>4
    <3>6. InLine'
      <4>1. commit'.kept = <<>> /\ Len(commit'.kept) = 0 /\ DOMAIN commit'.kept = {}
        BY <2>1, <1>h
      <4>2. emitted = Len(wire) + Held + Waiting(queue) + 1
        BY <3>2, <1>g DEF InLine
      <4>3. emitted' = Len(wire) + Held + Waiting(queue)' + Len(commit'.kept)
        BY <4>1, <4>2, <2>1, <3>5, <1>a, <1>b, <1>c
      <4> QED BY <4>1, <4>3, <2>1, <3>5, <1>g DEF InLine
    <3>7. (SentinelIsLast /\ HeldItem)'
      BY <2>1, <3>5, <1>d, <1>g DEF SentinelIsLast, HeldItem
    <3>8. Backlog'
      BY <2>1, <1>i DEF Backlog
    <3> QED BY <2>2, <3>6, <3>7, <3>8 DEF Ordered
  <2> QED BY <1>5, <2>3, <2>4 DEF EndCommit
<1>6. CASE UtilityReply
  <2>1. alive /\ commit = NoCommit /\ ~Inline /\ emitted' = emitted + 1 /\ emitted + 1 \in Batches
        /\ queue' = Append(queue, Batch(emitted + 1, 1))
        /\ UNCHANGED <<alive, promises, commit, enqueued, published, item, counted, wire>>
    BY <1>6, <1>a, <1>e, Sets DEF UtilityReply, threadVars, TypeOK
  <2>2. Len(commit.kept) = 0 /\ DOMAIN commit.kept = {}
    BY <1>h, <2>1
  <2>3. emitted + 1 = Len(wire) + Held + Waiting(queue) + 1
    BY <2>2, <1>a, <1>b, <1>c, <1>g DEF InLine
  <2>4. /\ Waiting(queue)' = Waiting(queue) + 1
        /\ Held' = Held /\ (Sending' <=> Sending)
        /\ \A i \in 1 .. Waiting(queue)' : queue'[i].id = Len(wire) + Held + i
        /\ \A i \in DOMAIN queue' : queue'[i].id # 0
    BY <1>q, <2>1, <2>3
  <2>5. InLine'
    <3>1. emitted' = Len(wire) + Held + Waiting(queue)' + Len(commit.kept)
      BY <2>1, <2>2, <2>3, <2>4, <1>a, <1>b, <1>c
    <3> QED BY <3>1, <2>1, <2>2, <2>4, <1>g DEF InLine
  <2>6. (SentinelIsLast /\ HeldItem)'
    BY <2>1, <2>4, <1>d, <1>g DEF SentinelIsLast, HeldItem
  <2>7. Backlog'
    BY <2>1, <1>i DEF Backlog
  <2> QED BY <1>v, <2>1, <2>5, <2>6, <2>7 DEF Ordered
<1>7. CASE Die
  <2>1. alive /\ commit = NoCommit /\ alive' = FALSE /\ queue' = Append(queue, Batch(0, 1))
        /\ UNCHANGED <<emitted, promises, commit, enqueued, published, item, counted, wire>>
    BY <1>7 DEF Die, threadVars
  <2>2. Batch(0, 1) \in Item /\ Batch(0, 1).id = 0
    BY Sets
  <2>3. /\ Waiting(queue) = Len(queue) /\ Waiting(queue)' = Len(queue)
        /\ Len(queue') = Len(queue) + 1
        /\ \A i \in 1 .. Len(queue) : queue'[i] = queue[i]
        /\ DOMAIN queue' = 1 .. Len(queue) + 1
    <3>1. \A i \in DOMAIN queue : queue[i].id # 0
      BY <1>d, <2>1
    <3> QED BY <3>1, <2>1, <2>2, <1>a, WaitingAppend
  <2>4. Held' = Held /\ (Sending' <=> Sending)
    BY <2>1 DEF Sending, Held
  <2>5. InLine'
    <3>1. \A i \in 1 .. Len(queue) : queue'[i].id = Len(wire) + Held + i
      BY <2>3, <1>g DEF InLine
    <3> QED BY <3>1, <2>1, <2>3, <2>4, <1>g DEF InLine
  <2>6. (SentinelIsLast /\ HeldItem)'
    <3>1. \A i \in DOMAIN queue' : queue'[i].id = 0 => i = Len(queue')
      BY <2>1, <2>3, <1>a, <1>d
    <3> QED BY <3>1, <2>1, <1>d, <1>g DEF SentinelIsLast, HeldItem
  <2>7. Backlog'
    BY <2>1, <2>3, <1>g, <1>i DEF Backlog
  <2> QED BY <1>v, <2>1, <2>5, <2>6, <2>7 DEF Ordered
<1>8. CASE OpenChannel
  BY <1>8, <1>u, <1>v DEF OpenChannel, engineVars, Ordered
<1>9. CASE Take
  <2>1. item = NoItem /\ queue # <<>> /\ item' = Head(queue) /\ queue' = Tail(queue)
        /\ UNCHANGED <<alive, promises, commit, emitted, enqueued, published, counted, wire>>
    BY <1>9 DEF Take, engineVars
  <2>2. /\ Head(queue) = queue[1] /\ Len(queue) \in Nat \ {0}
        /\ Len(queue') = Len(queue) - 1 /\ DOMAIN queue' = 1 .. Len(queue) - 1
        /\ \A i \in 1 .. Len(queue) - 1 : queue'[i] = queue[i + 1]
        /\ item'.id = 0 => queue' = <<>> /\ Waiting(queue) = 0 /\ Waiting(queue)' = 0
        /\ item'.id # 0 => Waiting(queue) > 0 /\ Waiting(queue)' = Waiting(queue) - 1
    <3>1. \A i \in DOMAIN queue : queue[i].id = 0 => i = Len(queue)
      BY <1>g DEF SentinelIsLast
    <3> QED BY <3>1, <2>1, <1>a, WaitingTail
  <2>3. item.id = -1 /\ ~Sending /\ Held = 0 /\ ~counted /\ item'.id \in Nat
    <3>1. item'.id \in Record
      BY <2>1, <2>2, <1>a, Sets, ElementOfSeq
    <3>2. item.id = -1 /\ ~counted /\ item'.id \in Nat
      BY <3>1, <2>1, <1>a, <1>g, Sets DEF HeldItem
    <3> QED BY <3>2 DEF Sending, Held
  <2>4. CASE item'.id = 0
    <3>1. ~Sending' /\ Held' = 0
      BY <2>4 DEF Sending, Held
    <3>2. InLine'
      BY <2>1, <2>2, <2>3, <2>4, <3>1, <1>g DEF InLine
    <3>3. ~alive
      <4>1. 1 \in DOMAIN queue /\ queue[1].id = 0
        BY <2>1, <2>2, <2>4, <1>a
      <4> QED BY <4>1, <1>g DEF SentinelIsLast
    <3>4. (SentinelIsLast /\ HeldItem)'
      BY <2>1, <2>2, <2>3, <2>4, <3>3, <1>g, <1>h DEF SentinelIsLast, HeldItem
    <3>5. Backlog'
      BY <2>1, <2>2, <2>3, <2>4, <1>g, <1>i DEF Backlog
    <3> QED BY <1>v, <2>1, <3>2, <3>4, <3>5 DEF Ordered
  <2>5. CASE item'.id # 0
    <3>1. Sending' /\ Held' = 1
      BY <2>1, <2>3, <2>5 DEF Sending, Held
    <3>2. item'.id = Len(wire) + 1
      <4>1. 1 \in 1 .. Waiting(queue)
        BY <2>2, <2>5, <1>c
      <4>2. queue[1].id = Len(wire) + Held + 1
        BY <4>1, <1>g DEF InLine
      <4> QED BY <4>2, <2>1, <2>2, <2>3, <1>a
    <3>3. \A i \in 1 .. Waiting(queue)' : queue'[i].id = Len(wire) + 1 + i
      <4>1. ASSUME NEW i \in 1 .. Waiting(queue)' PROVE queue'[i].id = Len(wire) + 1 + i
        <5>1. i + 1 \in 1 .. Waiting(queue) /\ i \in 1 .. Len(queue) - 1
          BY <2>2, <2>5, <1>a, <1>c DEF Waiting
        <5>2. queue[i + 1].id = Len(wire) + 0 + (i + 1)
          BY <5>1, <2>3, <1>g DEF InLine
        <5> QED BY <5>1, <5>2, <2>2, <1>a
      <4> QED BY <4>1
    <3>4. emitted = Len(wire) + 1 + Waiting(queue)' + Len(commit.kept)
      BY <2>2, <2>3, <2>5, <1>a, <1>c, <1>g DEF InLine
    <3>5. \A i \in DOMAIN commit.kept :
             commit.kept[i] = Len(wire) + 1 + Waiting(queue)' + i
      BY <2>2, <2>3, <2>5, <1>a, <1>c, <1>g DEF InLine
    <3>6. InLine'
      BY <2>1, <3>1, <3>2, <3>3, <3>4, <3>5, <1>g DEF InLine
    <3>7. \A i \in DOMAIN queue' : queue'[i].id = 0 => i = Len(queue') /\ ~alive
      <4>1. ASSUME NEW i \in 1 .. Len(queue) - 1, queue'[i].id = 0
            PROVE  i = Len(queue) - 1 /\ ~alive
        <5>1. i + 1 \in DOMAIN queue /\ queue[i + 1].id = 0
          BY <4>1, <2>2, <1>a
        <5>2. i + 1 = Len(queue) /\ ~alive
          BY <5>1, <1>g DEF SentinelIsLast
        <5> QED BY <5>2, <1>a
      <4> QED BY <4>1, <2>2
    <3>8. (SentinelIsLast /\ HeldItem)'
      BY <2>1, <2>3, <2>5, <3>7, <1>g DEF SentinelIsLast, HeldItem
    <3>9. Backlog'
      BY <2>1, <2>2, <2>3, <2>5, <1>a, <1>c, <1>g, <1>i DEF Backlog
    <3> QED BY <1>v, <2>1, <3>6, <3>8, <3>9 DEF Ordered
  <2> QED BY <2>4, <2>5
\* A send of the item held, over either transport.
<1>s. ASSUME Sending, counted' = TRUE, NEW v \in {"shm", "zmq"},
             wire' = Append(wire, [id |-> item.id, via |-> v]),
             UNCHANGED <<alive, promises, emitted, commit, enqueued, published, queue, item>>
      PROVE  Ordered'
  <2>1. item.id \in Batches /\ item.id > 0 /\ item.id = Len(wire) + 1 /\ Held = 1
    <3>1. item.id > 0 /\ Held = 1 /\ item.id = Len(wire) + 1
      BY <1>s, <1>b, <1>g DEF Sending, InLine
    <3>2. item.id \in Record
      BY <3>1, Sets DEF TypeOK
    <3> QED BY <3>1, <3>2, Sets
  <2>2. Len(wire') = Len(wire) + 1 /\ \A i \in DOMAIN wire' : wire'[i].id = i
    BY <1>s, <2>1, <1>a, <1>g, WireAppend DEF InLine
  <2>3. ~Sending' /\ Held' = 0 /\ Waiting(queue)' = Waiting(queue)
    BY <1>s DEF Sending, Held
  <2>4. Len(wire') + Held' = Len(wire) + Held
    BY <2>1, <2>2, <2>3, <1>a
  <2>5. InLine'
    BY <2>2, <2>3, <2>4, <1>s, <1>g DEF InLine
  <2>6. (SentinelIsLast /\ HeldItem)'
    BY <2>1, <1>s, <1>g DEF SentinelIsLast, HeldItem
  <2>7. Backlog'
    BY <1>s, <1>g, <1>i DEF Backlog
  <2> QED BY <1>v, <1>s, <2>5, <2>6, <2>7 DEF Ordered
<1>10. CASE SendOverShm
  BY <1>10, <1>s DEF SendOverShm, PublishShm, engineVars
<1>11. CASE SendOverZmq
  BY <1>11, <1>s DEF SendOverZmq, SendZmq, engineVars
<1>12. CASE Count
  <2>1. counted /\ item' = NoItem /\ counted' = FALSE /\ published' = published + 1
        /\ UNCHANGED <<alive, promises, commit, emitted, enqueued, queue, wire>>
    BY <1>12 DEF Count, engineVars
  <2>2. item.id > 0 /\ ~Sending /\ Held = 0 /\ item'.id = -1
    BY <2>1, <1>a, <1>g DEF HeldItem, Sending, Held
  <2>3. ~Sending' /\ Held' = 0 /\ Waiting(queue)' = Waiting(queue)
    BY <2>1, <2>2 DEF Sending, Held
  <2>4. InLine'
    BY <2>1, <2>2, <2>3, <1>g DEF InLine
  <2>5. (SentinelIsLast /\ HeldItem)'
    BY <2>1, <2>2, <1>g DEF SentinelIsLast, HeldItem
  <2>6. Backlog'
    BY <2>1, <2>2, <2>3, <1>a, <1>c, <1>g, <1>i DEF Backlog
  <2> QED BY <1>v, <2>1, <2>4, <2>5, <2>6 DEF Ordered
<1>13. CASE SendDead
  <2>1. item.id = 0 /\ item' = NoItem /\ item'.id = -1
        /\ UNCHANGED <<alive, promises, commit, emitted, enqueued, published, counted, queue, wire>>
    BY <1>13, <1>a DEF SendDead, engineVars
  <2>2. ~Sending /\ Held = 0 /\ ~Sending' /\ Held' = 0 /\ Waiting(queue)' = Waiting(queue)
    BY <2>1 DEF Sending, Held
  <2>3. InLine'
    BY <2>1, <2>2, <1>g DEF InLine
  <2>4. (SentinelIsLast /\ HeldItem)'
    BY <2>1, <1>g DEF SentinelIsLast, HeldItem
  <2>5. Backlog'
    BY <2>1, <2>2, <1>g, <1>i DEF Backlog
  <2> QED BY <1>v, <2>1, <2>3, <2>4, <2>5 DEF Ordered
<1>14. CASE Subscribe
  BY <1>14, <1>u, <1>v DEF Subscribe, engineVars, threadVars, Ordered
<1>15. CASE ReaderFails
  BY <1>15, <1>u, <1>v DEF ReaderFails, engineVars, threadVars, Ordered
<1>16. CASE ReadShm
  BY <1>16, <1>u, <1>v DEF ReadShm, engineVars, threadVars, Ordered
<1>17. CASE ReadZmq
  BY <1>17, <1>u, <1>v DEF ReadZmq, engineVars, threadVars, Ordered
<1>18. CASE UNCHANGED vars
  BY <1>18, <1>u, <1>v DEF vars, engineVars, threadVars, Ordered
<1> QED
  BY <1>1, <1>2, <1>3, <1>4, <1>5, <1>6, <1>7, <1>8, <1>9, <1>10, <1>11, <1>12, <1>13,
     <1>14, <1>15, <1>16, <1>17, <1>18 DEF Next, Engine, OutputThread, FrontEnd

LEMMA IdsIs ==
  ASSUME NEW T, NEW s \in Seq(T), \A e \in T : e.id \in Int
  PROVE  /\ Ids(s) \in Seq(Int) /\ Len(Ids(s)) = Len(s) /\ DOMAIN Ids(s) = 1 .. Len(s)
         /\ \A i \in 1 .. Len(s) : Ids(s)[i] = s[i].id
<1>1. Len(s) \in Nat /\ DOMAIN s = 1 .. Len(s) /\ \A i \in 1 .. Len(s) : s[i] \in T
  BY LenProperties, ElementOfSeq
<1>2. Ids(s) \in [1 .. Len(s) -> Int]
  BY <1>1 DEF Ids
<1>3. Ids(s) \in Seq(Int)
  BY <1>1, <1>2, SeqDef
<1>4. DOMAIN Ids(s) = 1 .. Len(s) /\ \A i \in 1 .. Len(s) : Ids(s)[i] = s[i].id
  BY <1>1 DEF Ids
<1>5. Len(Ids(s)) = Len(s)
  BY <1>1, <1>3, <1>4, LenProperties
<1> QED BY <1>3, <1>4, <1>5

LEMMA QueuedIs ==
  ASSUME NEW q \in Seq(Item)
  PROVE  /\ Queued(q) \in Seq(Int) /\ Len(Queued(q)) = Waiting(q) /\ Waiting(q) \in Nat
         /\ Waiting(q) <= Len(q)
         /\ \A i \in 1 .. Waiting(q) : Queued(q)[i] = q[i].id
<1>1. /\ Ids(q) \in Seq(Int) /\ Len(Ids(q)) = Len(q)
      /\ \A i \in 1 .. Len(q) : Ids(q)[i] = q[i].id
  <2>1. \A e \in Item : e.id \in Int
    BY Sets
  <2> QED BY <2>1, IdsIs
<1>2. Len(q) \in Nat /\ (q # <<>> => Len(q) > 0)
  BY EmptySeq, LenProperties
<1>3. CASE q # <<>> /\ q[Len(q)].id = Dead
  <2>1. Queued(q) = SubSeq(Ids(q), 1, Len(q) - 1) /\ Waiting(q) = Len(q) - 1
    BY <1>3 DEF Queued, Waiting
  <2>2. \A i \in 1 .. Len(q) - 1 : Ids(q)[i] \in Int
    BY <1>1, <1>2, ElementOfSeq
  <2>3. /\ SubSeq(Ids(q), 1, Len(q) - 1) \in Seq(Int)
        /\ Len(SubSeq(Ids(q), 1, Len(q) - 1)) = IF 1 <= Len(q) - 1 THEN Len(q) - 1 - 1 + 1 ELSE 0
        /\ \A i \in 1 .. Len(q) - 1 - 1 + 1 : SubSeq(Ids(q), 1, Len(q) - 1)[i] = Ids(q)[1 + i - 1]
    <3>1. 1 \in Int /\ Len(q) - 1 \in Int
      BY <1>2
    <3> QED BY <2>2, <3>1, SubSeqProperties
  <2>4. /\ Len(SubSeq(Ids(q), 1, Len(q) - 1)) = Len(q) - 1
        /\ \A i \in 1 .. Len(q) - 1 : SubSeq(Ids(q), 1, Len(q) - 1)[i] = Ids(q)[i]
    <3>1. Len(q) - 1 \in Nat /\ \A i \in 1 .. Len(q) - 1 : i \in 1 .. Len(q) - 1 - 1 + 1 /\ 1 + i - 1 = i
      BY <1>2, <1>3
    <3>2. (IF 1 <= Len(q) - 1 THEN Len(q) - 1 - 1 + 1 ELSE 0) = Len(q) - 1
      <4>1. \A n \in Nat : (IF 1 <= n THEN n - 1 + 1 ELSE 0) = n
        OBVIOUS
      <4> QED BY <3>1, <4>1, Zenon
    <3> QED BY <2>3, <3>1, <3>2
  <2> QED BY <2>1, <2>3, <2>4, <1>1, <1>2, <1>3
<1>4. CASE ~(q # <<>> /\ q[Len(q)].id = Dead)
  BY <1>1, <1>2, <1>4 DEF Queued, Waiting
<1> QED BY <1>3, <1>4

\* What is not sent is the batches behind those on the wire.
LEMMA UnsentIs ==
  ASSUME TypeOK, InLine
  PROVE  /\ Unsent \in Seq(Int) /\ emitted \in Nat /\ Len(wire) \in Nat /\ Len(wire) <= emitted
         /\ Len(Unsent) = emitted - Len(wire)
         /\ \A i \in 1 .. Len(Unsent) : Unsent[i] = Len(wire) + i
<1> DEFINE a == (IF Sending THEN <<item.id>> ELSE <<>>)
           b == Queued(queue)
           c == commit.kept
<1>1. /\ Len(wire) \in Nat /\ emitted \in Nat /\ item.id \in Int
      /\ c \in Seq(Int) /\ Len(c) \in Nat /\ DOMAIN c = 1 .. Len(c)
  <2>1. commit.kept \in Seq(Batches) /\ Batches \subseteq Int
    BY Launches, Sets
  <2>2. c \in Seq(Int)
    BY <2>1, SeqMonotonic
  <2>3. item.id \in Int /\ emitted \in Nat /\ wire \in Seq(Hop)
    BY Sets DEF TypeOK
  <2> QED BY <2>2, <2>3, LenProperties
<1>2. /\ a \in Seq(Int) /\ Len(a) = Held /\ Held \in {0, 1}
      /\ \A i \in 1 .. Held : a[i] = Len(wire) + i
  <2>1. CASE Sending
    <3>1. Held = 1 /\ a = <<item.id>> /\ item.id = Len(wire) + 1
      BY <2>1 DEF Held, InLine
    <3> QED BY <3>1, <1>1
  <2>2. CASE ~Sending
    <3>1. Held = 0 /\ a = <<>>
      BY <2>2 DEF Held
    <3> QED BY <3>1, EmptySeq
  <2> QED BY <2>1, <2>2
<1>3. /\ b \in Seq(Int) /\ Len(b) = Waiting(queue) /\ Waiting(queue) \in Nat
      /\ \A i \in 1 .. Len(b) : b[i] = Len(wire) + Held + i
  <2>1. queue \in Seq(Item)
    BY DEF TypeOK
  <2> QED BY <2>1, QueuedIs DEF InLine
<1>4. /\ emitted = Len(wire) + Held + Len(b) + Len(c)
      /\ \A i \in 1 .. Len(c) : c[i] = Len(wire) + Held + Len(b) + i
  BY <1>1, <1>3 DEF InLine
<1>6. Unsent = (a \o b) \o c
  BY Zenon DEF Unsent
<1> HIDE DEF a, b, c
<1>7. /\ a \o b \in Seq(Int) /\ Len(a \o b) = Held + Len(b)
      /\ \A i \in 1 .. Held + Len(b) : (a \o b)[i] = IF i <= Held THEN a[i] ELSE b[i - Held]
  BY <1>2, <1>3, ConcatProperties
<1>8. \A i \in 1 .. Held + Len(b) : (a \o b)[i] = Len(wire) + i
  <2>1. ASSUME NEW i \in 1 .. Held + Len(b) PROVE (a \o b)[i] = Len(wire) + i
    <3>1. CASE i <= Held
      BY <3>1, <1>1, <1>2, <1>3, <1>7
    <3>2. CASE i > Held
      <4>1. i - Held \in 1 .. Len(b) /\ Held \in Nat /\ i \in Nat
        BY <3>2, <1>2, <1>3
      <4>2. (a \o b)[i] = b[i - Held]
        BY <3>2, <4>1, <1>7
      <4>3. b[i - Held] = Len(wire) + Held + (i - Held)
        BY <4>1, <1>3
      <4> QED BY <4>1, <4>2, <4>3, <1>1
    <3> QED BY <3>1, <3>2, <1>2, <1>3
  <2> QED BY <2>1
<1>9. /\ Unsent \in Seq(Int) /\ Len(Unsent) = Held + Len(b) + Len(c)
      /\ \A i \in 1 .. Held + Len(b) + Len(c) :
           Unsent[i] = IF i <= Held + Len(b) THEN (a \o b)[i] ELSE c[i - (Held + Len(b))]
  BY <1>1, <1>6, <1>7, ConcatProperties
<1>10. \A i \in 1 .. Held + Len(b) + Len(c) : Unsent[i] = Len(wire) + i
  <2>1. ASSUME NEW i \in 1 .. Held + Len(b) + Len(c) PROVE Unsent[i] = Len(wire) + i
    <3> DEFINE m == Held + Len(b)
    <3>0. m \in Nat /\ i \in Nat /\ i >= 1
      BY <1>1, <1>2, <1>3
    <3>1. CASE i <= m
      <4>1. i \in 1 .. m
        BY <3>0, <3>1
      <4> QED BY <3>1, <4>1, <1>8, <1>9
    <3>2. CASE i > m
      <4>1. i - m \in 1 .. Len(c)
        BY <3>0, <3>2, <1>1
      <4>2. Unsent[i] = c[i - m]
        BY <3>0, <3>2, <1>9
      <4>3. c[i - m] = Len(wire) + m + (i - m)
        BY <4>1, <1>1, <1>2, <1>3, <1>4
      <4> QED BY <4>2, <4>3, <3>0, <1>1
    <3> QED BY <3>0, <3>1, <3>2
  <2> QED BY <2>1
<1>11. Len(Unsent) = emitted - Len(wire) /\ Len(wire) <= emitted
  <2>1. /\ Len(Unsent) = Held + Len(b) + Len(c) /\ emitted = Len(wire) + Held + Len(b) + Len(c)
        /\ Len(wire) \in Nat /\ Held \in Nat /\ Len(b) \in Nat /\ Len(c) \in Nat
    BY <1>1, <1>2, <1>3, <1>4, <1>9
  <2> QED BY <2>1
<1> QED BY <1>1, <1>9, <1>10, <1>11

LEMMA WireIs ==
  ASSUME TypeOK, InLine
  PROVE  /\ Ids(wire) \in Seq(Int) /\ Len(Ids(wire)) = Len(wire)
         /\ DOMAIN wire = 1 .. Len(wire) /\ Len(wire) \in Nat
         /\ \A i \in 1 .. Len(wire) : Ids(wire)[i] = i
<1>1. wire \in Seq(Hop) /\ \A e \in Hop : e.id \in Int
  BY Sets DEF TypeOK, Hop
<1>2. DOMAIN wire = 1 .. Len(wire) /\ Len(wire) \in Nat
  BY <1>1, LenProperties
<1>3. /\ Ids(wire) \in Seq(Int) /\ Len(Ids(wire)) = Len(wire)
      /\ \A i \in 1 .. Len(wire) : Ids(wire)[i] = wire[i].id
  BY <1>1, IdsIs
<1> QED BY <1>2, <1>3 DEF InLine

\* Both sequences of the abstract stream are given by the two numbers.
Numbered ==
  /\ Unsent \in Seq(Int) /\ emitted \in Nat /\ Len(wire) \in Nat /\ Len(wire) <= emitted
  /\ Len(Unsent) = emitted - Len(wire)
  /\ \A i \in 1 .. Len(Unsent) : Unsent[i] = Len(wire) + i
  /\ Ids(wire) \in Seq(Int) /\ Len(Ids(wire)) = Len(wire)
  /\ \A i \in 1 .. Len(wire) : Ids(wire)[i] = i

LEMMA NumberedNow == TypeOK /\ InLine => Numbered
  BY UnsentIs, WireIs DEF Numbered

LEMMA NumberedNext == (TypeOK /\ InLine)' => Numbered'
  BY NumberedNow, PTL

------------------------------------------------------------------------------
(* The theorems.                                                             *)

LEMMA OrderedInvariant ==
  ASSUME OrderedSetups
  PROVE  Spec => [](TypeOK /\ Room /\ Ordered)
<1>1. Init => TypeOK /\ Room /\ Ordered
  BY TypeInit, OrderedInit
<1>2. TypeOK /\ Room /\ Ordered /\ [Next]_vars => (TypeOK /\ Room /\ Ordered)'
  BY TypeStep, OrderedStep
<1> QED BY <1>1, <1>2, PTL DEF Spec

\* Accounted, under OrderedSetups: on the wire, in the output thread, in the
\* queue or in a commit, every batch emitted is there once, and the wire has them
\* in the order of emission (the inline publish of rust_sched.py beside the
\* output thread of shm_ipc.py). An inline publish beside a runner or beside
\* replies to utility calls is excluded, and out of order.
THEOREM PathAccounted ==
  ASSUME OrderedSetups
  PROVE  Spec => []Accounted
<1>1. TypeOK /\ Room /\ Ordered => Accounted
  <2> SUFFICES ASSUME TypeOK, InLine PROVE WireInOrder /\ AllAccountedFor
    BY DEF Accounted, Ordered
  <2>1. /\ \A i \in DOMAIN wire : wire[i].id = i
        /\ DOMAIN wire = 1 .. Len(wire) /\ Len(wire) \in Nat
        /\ Ids(wire) \in Seq(Int) /\ Len(Ids(wire)) = Len(wire)
        /\ \A i \in 1 .. Len(wire) : Ids(wire)[i] = i
    BY WireIs DEF InLine
  <2>2. /\ Unsent \in Seq(Int) /\ emitted \in Nat /\ Len(wire) <= emitted
        /\ Len(Unsent) = emitted - Len(wire)
        /\ \A i \in 1 .. Len(Unsent) : Unsent[i] = Len(wire) + i
    BY UnsentIs
  <2>3. WireInOrder
    BY <2>1 DEF WireInOrder
  <2>4. DOMAIN Ids(wire) = 1 .. Len(wire) /\ DOMAIN Unsent = 1 .. Len(Unsent)
    BY <2>1, <2>2, LenProperties
  <2>5. ToSet(Ids(wire)) = 1 .. Len(wire)
    BY <2>1, <2>4 DEF ToSet
  <2>6. ToSet(Unsent) = Len(wire) + 1 .. emitted
    <3>1. \A i \in DOMAIN Unsent : Unsent[i] \in Len(wire) + 1 .. emitted
      <4>1. ASSUME NEW i \in 1 .. Len(Unsent) PROVE Len(wire) + i \in Len(wire) + 1 .. emitted
        BY <2>1, <2>2
      <4> QED BY <4>1, <2>2, <2>4
    <3>2. ASSUME NEW b \in Len(wire) + 1 .. emitted
          PROVE  \E i \in DOMAIN Unsent : Unsent[i] = b
      <4>1. b - Len(wire) \in 1 .. Len(Unsent) /\ Len(wire) + (b - Len(wire)) = b
        BY <2>1, <2>2
      <4> QED BY <4>1, <2>2, <2>4
    <3> QED BY <3>1, <3>2 DEF ToSet
  <2>7. ToSet(Ids(wire)) \cup ToSet(Unsent) = 1 .. emitted
    BY <2>1, <2>2, <2>5, <2>6
  <2>8. Len(wire) + Len(Unsent) = emitted
    BY <2>1, <2>2
  <2> QED BY <2>3, <2>7, <2>8 DEF AllAccountedFor
<1> QED BY <1>1, OrderedInvariant, PTL

\* The two numbers that the abstract stream goes by.
LEMMA EmitOrSend ==
  ASSUME OrderedSetups, TypeOK, Room, Ordered, [Next]_vars
  PROVE  \/ emitted' = emitted /\ Len(wire') = Len(wire)
         \/ emitted' = emitted + 1 /\ Len(wire') = Len(wire)
         \/ emitted' = emitted /\ Len(wire') = Len(wire) + 1
         \/ emitted' = emitted + 1 /\ Len(wire') = Len(wire) + 1 /\ Len(wire) = emitted
<1>1. TypeOK' /\ InLine' /\ Inline' = Inline
  <2>1. setup' = setup
    BY DEF Next, Engine, OutputThread, FrontEnd, vars, Schedule, UpdateDecide, BeginCommit, Launch,
       EndCommit, UtilityReply, Die, OpenChannel, Take, SendOverShm, SendOverZmq, Count, SendDead,
       Subscribe, ReaderFails, ReadShm, ReadZmq
  <2> QED BY <2>1, TypeStep, OrderedStep DEF Ordered, Inline
<1>2. /\ emitted \in Nat /\ Len(wire) \in Nat /\ Len(wire) <= emitted /\ wire \in Seq(Hop)
      /\ emitted' \in Nat /\ Len(wire') \in Nat /\ Len(wire') <= emitted'
  <2>1. InLine
    BY DEF Ordered
  <2>2. /\ emitted \in Nat /\ Len(wire) \in Nat /\ Len(wire) <= emitted
    BY <2>1, UnsentIs
  <2>3. emitted' \in Nat /\ Len(wire') \in Nat
    BY <1>1, LenProperties, Sets DEF TypeOK
  <2>4. Len(wire') <= emitted'
    <3>1. Held' \in Nat /\ Len(commit'.kept) \in Nat
      <4>1. commit' \in Commit'
        BY <1>1 DEF TypeOK
      <4>2. commit'.kept \in Seq(Batches)
        BY <4>1 DEF Commit
      <4> QED BY <4>2, LenProperties DEF Held
    <3>2. Waiting(queue') \in Nat
      BY <1>1, QueuedIs DEF TypeOK
    <3>3. emitted' = Len(wire') + Held' + Waiting(queue') + Len(commit'.kept)
      BY <1>1 DEF InLine
    <3> QED BY <2>3, <3>1, <3>2, <3>3
  <2> QED BY <2>2, <2>3, <2>4 DEF TypeOK
<1>3. \A e : Len(Append(wire, e)) = Len(wire) + 1
  BY <1>2
<1>4. CASE UNCHANGED <<emitted, wire>>
  BY <1>4
<1>5. CASE UpdateDecide
  <2>1. emitted' = emitted + 1
    BY <1>5 DEF UpdateDecide
  <2>2. CASE UNCHANGED wire
    BY <2>1, <2>2
  <2>3. CASE PublishReady /\ PublishShm(emitted + 1)
    <3>1. Len(wire') = Len(wire) + 1
      BY <2>3, <1>3 DEF PublishShm
    <3>2. commit = NoCommit
      BY <1>5 DEF UpdateDecide
    <3>3. Len(wire) = emitted
      <4>1. Inline /\ Waiting(queue) = 0 /\ ~(item.id > Dead)
        <5>1. /\ Inline /\ enqueued = published
              /\ enqueued - published = Waiting(queue) + (IF item.id > Dead THEN 1 ELSE 0)
          BY <2>3 DEF PublishReady, Ordered, Backlog
        <5>2. enqueued \in Nat /\ Waiting(queue) \in Nat
          BY QueuedIs DEF TypeOK
        <5> QED BY <5>1, <5>2
      <4>2. Held = 0 /\ Len(commit.kept) = 0
        BY <3>2, <4>1 DEF Held, Sending, NoCommit
      <4>3. emitted = Len(wire) + Held + Waiting(queue) + Len(commit.kept)
        BY DEF Ordered, InLine
      <4> QED BY <4>1, <4>2, <4>3, <1>2
    <3> QED BY <2>1, <3>1, <3>3
  <2> QED BY <1>5, <2>2, <2>3 DEF UpdateDecide
<1>6. CASE Launch
  <2>1. emitted' = emitted + 1 /\ ~commit.publish
    BY <1>6 DEF Launch, Ordered, OneRecord
  <2>2. UNCHANGED wire
    BY <1>6, <2>1 DEF Launch
  <2> QED BY <2>1, <2>2
<1>7. CASE UtilityReply
  BY <1>7 DEF UtilityReply
<1>8. CASE SendOverShm \/ SendOverZmq
  <2>1. emitted' = emitted /\ \E e : wire' = Append(wire, e)
    BY <1>8 DEF SendOverShm, SendOverZmq, PublishShm, SendZmq, engineVars
  <2> QED BY <2>1, <1>3
<1> QED
  BY <1>4, <1>5, <1>6, <1>7, <1>8
     DEF Next, Engine, OutputThread, FrontEnd, vars, Schedule, BeginCommit, EndCommit, Die,
         OpenChannel, Take, Count, SendDead, Subscribe, ReaderFails, ReadShm, ReadZmq,
         engineVars, threadVars, frontVars

\* The safety of ImplementsStream, under OrderedSetups: every step of the path is a
\* step of the abstract stream or none of its steps, so what the engine emits goes
\* out in order, each batch once.
THEOREM PathImplementsStream ==
  ASSUME OrderedSetups
  PROVE  Spec => Stream!Init /\ [][Stream!Next]_(Stream!vars)
<1>1. Init => Stream!Init
  <2> SUFFICES ASSUME Init PROVE Stream!Init
    OBVIOUS
  <2>1. TypeOK /\ InLine /\ emitted = 0 /\ wire = <<>>
    BY TypeInit, OrderedInit DEF Ordered, Init
  <2>2. Len(wire) = 0
    BY <2>1
  <2>3. Unsent \in Seq(Int) /\ Len(Unsent) = 0 /\ Ids(wire) \in Seq(Int) /\ Len(Ids(wire)) = 0
    BY <2>1, <2>2, UnsentIs, WireIs
  <2>4. Unsent = <<>> /\ Ids(wire) = <<>>
    <3>1. \A s \in Seq(Int) : Len(s) = 0 => s = <<>>
      BY EmptySeq
    <3> QED BY <2>3, <3>1, Zenon
  <2> QED BY <2>1, <2>4 DEF Stream!Init
<1>2. TypeOK /\ Room /\ Ordered /\ [Next]_vars => [Stream!Next]_(Stream!vars)
  <2> SUFFICES ASSUME TypeOK, Room, Ordered, [Next]_vars PROVE [Stream!Next]_(Stream!vars)
    OBVIOUS
  <2> DEFINE w == Len(wire)
             x == Len(wire')
             U == Unsent
             V == Unsent'
             A == Ids(wire)
             B == Ids(wire')
  <2>1. TypeOK' /\ InLine' /\ InLine
    BY TypeStep, OrderedStep DEF Ordered
  <2>2. /\ U \in Seq(Int) /\ emitted \in Nat /\ w \in Nat /\ w <= emitted
        /\ Len(U) = emitted - w
        /\ \A i \in 1 .. Len(U) : U[i] = w + i
        /\ A \in Seq(Int) /\ Len(A) = w /\ \A i \in 1 .. w : A[i] = i
    BY <2>1, UnsentIs, WireIs
  <2>3. /\ V \in Seq(Int) /\ emitted' \in Nat /\ x \in Nat /\ x <= emitted'
        /\ Len(V) = emitted' - x
        /\ \A i \in 1 .. Len(V) : V[i] = x + i
        /\ B \in Seq(Int) /\ Len(B) = x /\ \A i \in 1 .. x : B[i] = i
    BY <2>1, NumberedNext DEF Numbered
  <2> HIDE DEF w, x, U, V, A, B
  <2>e. \A s, t \in Seq(Int) : Len(s) = Len(t) /\ (\A i \in 1 .. Len(s) : s[i] = t[i]) => s = t
    BY SeqEqual
  <2>4. CASE emitted' = emitted /\ x = w
    <3>1. U = V
      BY <2>2, <2>3, <2>4, <2>e
    <3>2. A = B
      BY <2>2, <2>3, <2>4, <2>e
    <3> QED BY <2>4, <3>1, <3>2 DEF Stream!vars, U, V, A, B
  <2>5. CASE emitted' = emitted + 1 /\ x = w
    <3>1. A = B
      BY <2>2, <2>3, <2>5, <2>e
    <3>2. Append(U, emitted + 1) = V
      <4>1. /\ Append(U, emitted + 1) \in Seq(Int) /\ Len(Append(U, emitted + 1)) = Len(U) + 1
            /\ \A i \in 1 .. Len(U) : Append(U, emitted + 1)[i] = U[i]
            /\ Append(U, emitted + 1)[Len(U) + 1] = emitted + 1
        <5>1. emitted + 1 \in Int
          BY <2>2
        <5> QED BY <2>2, <5>1, AppendProperties
      <4>2. Len(V) = Len(U) + 1 /\ Len(U) \in Nat
        BY <2>2, <2>3, <2>5
      <4>3. ASSUME NEW i \in 1 .. Len(U) + 1 PROVE Append(U, emitted + 1)[i] = V[i]
        <5>1. CASE i \in 1 .. Len(U)
          BY <5>1, <4>1, <4>2, <2>2, <2>3, <2>5
        <5>2. CASE i = Len(U) + 1
          BY <5>2, <4>1, <4>2, <2>2, <2>3, <2>5
        <5> QED BY <5>1, <5>2, <4>2
      <4> QED BY <4>1, <4>2, <4>3, <2>3, <2>e
    <3> QED BY <2>5, <3>1, <3>2 DEF Stream!Next, Stream!Emit, U, V, A, B
  <2>6. CASE emitted' = emitted /\ x = w + 1
    <3>1. Len(U) \in Nat \ {0}
      BY <2>2, <2>3, <2>6
    <3>2. /\ U # <<>> /\ Head(U) = w + 1 /\ Tail(U) \in Seq(Int) /\ Len(Tail(U)) = Len(U) - 1
          /\ \A i \in 1 .. Len(U) - 1 : Tail(U)[i] = U[i + 1]
      <4>1. U # <<>>
        BY <3>1, EmptySeq
      <4>2. Head(U) = U[1]
        BY <4>1
      <4>3. U[1] = w + 1
        BY <3>1, <2>2
      <4> QED BY <4>1, <4>2, <4>3, <2>2, HeadTailProperties
    <3>3. Tail(U) = V
      <4>1. Len(V) = Len(U) - 1
        BY <2>2, <2>3, <2>6
      <4>2. ASSUME NEW i \in 1 .. Len(U) - 1 PROVE Tail(U)[i] = V[i]
        BY <4>1, <3>1, <3>2, <2>2, <2>3, <2>6
      <4> QED BY <4>1, <4>2, <3>2, <2>3, <2>e
    <3>4. Append(A, w + 1) = B
      <4>1. /\ Append(A, w + 1) \in Seq(Int) /\ Len(Append(A, w + 1)) = w + 1
            /\ \A i \in 1 .. w : Append(A, w + 1)[i] = i
            /\ Append(A, w + 1)[w + 1] = w + 1
        <5>1. w + 1 \in Int
          BY <2>2
        <5> QED BY <2>2, <5>1, AppendProperties
      <4>2. ASSUME NEW i \in 1 .. w + 1 PROVE Append(A, w + 1)[i] = B[i]
        <5>1. CASE i \in 1 .. w
          BY <5>1, <4>1, <2>3, <2>6
        <5>2. CASE i = w + 1
          BY <5>2, <4>1, <2>3, <2>6
        <5> QED BY <5>1, <5>2, <2>2
      <4> QED BY <4>1, <4>2, <2>3, <2>6, <2>e
    <3> QED BY <2>6, <3>2, <3>3, <3>4 DEF Stream!Next, Stream!Send, U, V, A, B
  <2>7. CASE emitted' = emitted + 1 /\ x = w + 1 /\ w = emitted
    <3>1. U = V
      BY <2>2, <2>3, <2>7, <2>e
    <3>2. U = <<>>
      <4>1. Len(U) = 0
        BY <2>2, <2>7
      <4>2. \A s \in Seq(Int) : Len(s) = 0 => s = <<>>
        BY EmptySeq
      <4> QED BY <2>2, <4>1, <4>2, Zenon
    <3>3. Append(A, emitted + 1) = B
      <4>1. /\ Append(A, w + 1) \in Seq(Int) /\ Len(Append(A, w + 1)) = w + 1
            /\ \A i \in 1 .. w : Append(A, w + 1)[i] = i
            /\ Append(A, w + 1)[w + 1] = w + 1
        <5>1. w + 1 \in Int
          BY <2>2
        <5> QED BY <2>2, <5>1, AppendProperties
      <4>2. ASSUME NEW i \in 1 .. w + 1 PROVE Append(A, w + 1)[i] = B[i]
        <5>1. CASE i \in 1 .. w
          BY <5>1, <4>1, <2>3, <2>7
        <5>2. CASE i = w + 1
          BY <5>2, <4>1, <2>3, <2>7
        <5> QED BY <5>1, <5>2, <2>2
      <4> QED BY <4>1, <4>2, <2>3, <2>7, <2>e
    <3> QED BY <2>7, <3>1, <3>2, <3>3 DEF Stream!Next, Stream!EmitAndSend, U, V, A, B
  <2>8. \/ emitted' = emitted /\ x = w
        \/ emitted' = emitted + 1 /\ x = w
        \/ emitted' = emitted /\ x = w + 1
        \/ emitted' = emitted + 1 /\ x = w + 1 /\ w = emitted
    BY EmitOrSend DEF w, x
  <2> QED BY <2>4, <2>5, <2>6, <2>7, <2>8
<1>3. QED BY <1>1, <1>2, OrderedInvariant, PTL DEF Spec

\* Without the inline publish only the output thread sends, and its latch is the
\* state of its publisher.
Latched ==
  ~Inline =>
  /\ \A i \in DOMAIN promises : ~promises[i].publish
  /\ ~commit.publish
  /\ \A i \in DOMAIN wire : wire[i].via = "shm" => delivered
  /\ \A i, j \in DOMAIN wire :
       i < j /\ wire[i].via = "shm" /\ wire[j].via = "zmq" => shm = "gone"

LEMMA LatchedStep ==
  ASSUME TypeOK, Latched, DemotionIsFinal, [Next]_vars
  PROVE  Latched' /\ DemotionIsFinal'
<1>1. setup' = setup
  BY DEF Next, Engine, OutputThread, FrontEnd, vars, Schedule, UpdateDecide, BeginCommit, Launch,
     EndCommit, UtilityReply, Die, OpenChannel, Take, SendOverShm, SendOverZmq, Count, SendDead,
     Subscribe, ReaderFails, ReadShm, ReadZmq
<1> SUFFICES ASSUME ~Inline
             PROVE  Latched' /\ DemotionIsFinal'
  BY <1>1 DEF Latched, DemotionIsFinal, Inline
<1>2. /\ wire \in Seq(Hop) /\ Len(wire) \in Nat /\ DOMAIN wire = 1 .. Len(wire)
      /\ promises \in Seq(Promise) /\ Len(promises) \in Nat
      /\ DOMAIN promises = 1 .. Len(promises)
  BY LenProperties DEF TypeOK
<1>3. /\ \A i \in DOMAIN promises : ~promises[i].publish
      /\ ~commit.publish
      /\ \A i \in DOMAIN wire : wire[i].via = "shm" => delivered
      /\ \A i, j \in DOMAIN wire :
           i < j /\ wire[i].via = "shm" /\ wire[j].via = "zmq" => shm = "gone"
      /\ \A i, j, k \in DOMAIN wire :
           i < j /\ j < k /\ wire[i].via = "shm" /\ wire[j].via = "zmq" => wire[k].via = "zmq"
  BY DEF Latched, DemotionIsFinal
\* The engine publishes nothing itself.
<1>4. /\ \A i \in DOMAIN promises' : ~promises'[i].publish
      /\ ~commit'.publish
  <2>1. CASE Schedule
    <3>1. PICK p \in Promise : promises' = Append(promises, p) /\ ~p.publish
      <4>1. PublishReady \in BOOLEAN /\ ~PublishReady
        BY DEF PublishReady
      <4>2. PICK steps \in 0 .. MaxLaunches :
               promises' = Append(promises,
                    IF steps = 0 THEN NoPromise
                                 ELSE [publish |-> PublishReady, steps |-> steps])
        BY <2>1 DEF Schedule
      <4>3. /\ NoPromise \in Promise /\ ~NoPromise.publish
            /\ [publish |-> PublishReady, steps |-> steps] \in Promise
        BY <4>1, Launches DEF NoPromise
      <4> QED BY <4>1, <4>2, <4>3
    <3>2. \A i \in DOMAIN promises' :
             promises'[i] = p \/ (i \in DOMAIN promises /\ promises'[i] = promises[i])
      BY <1>2, <3>1, AppendProperties, LenProperties
    <3>3. commit' = commit
      BY <2>1 DEF Schedule
    <3> QED BY <1>3, <3>1, <3>2, <3>3
  <2>2. CASE UpdateDecide \/ BeginCommit
    <3>1. promises # <<>> /\ promises' = Tail(promises)
      BY <2>2 DEF UpdateDecide, BeginCommit
    <3>2. /\ Tail(promises) \in Seq(Promise) /\ Len(Tail(promises)) = Len(promises) - 1
          /\ \A i \in 1 .. Len(Tail(promises)) : Tail(promises)[i] = promises[i + 1]
          /\ Head(promises) = promises[1] /\ Len(promises) > 0
      BY <1>2, <3>1, HeadTailProperties, EmptySeq
    <3>3. DOMAIN promises' = 1 .. Len(promises) - 1
      BY <3>1, <3>2, LenProperties
    <3>4. \A i \in DOMAIN promises' : ~promises'[i].publish
      BY <1>2, <1>3, <3>1, <3>2, <3>3
    <3>5. CASE UpdateDecide
      BY <1>3, <3>4, <3>5 DEF UpdateDecide
    <3>6. CASE BeginCommit
      <4>1. commit'.publish = Head(promises).publish
        BY <3>6 DEF BeginCommit
      <4>2. ~promises[1].publish
        BY <1>2, <1>3, <3>2
      <4> QED BY <3>2, <3>4, <4>1, <4>2
    <3> QED BY <2>2, <3>5, <3>6
  <2>3. CASE Launch
    <3>1. promises' = promises /\ \E left : \/ commit' = [commit EXCEPT !.left = left]
                 \/ commit' = [commit EXCEPT !.left = left, !.kept = Append(@, emitted + 1)]
      BY <2>3 DEF Launch
    <3>2. commit \in Commit
      BY DEF TypeOK
    <3>3. commit'.publish = commit.publish
      BY <3>1, <3>2 DEF Commit
    <3> QED BY <1>3, <3>1, <3>3
  <2>4. CASE EndCommit
    <3>1. promises' = promises /\ ~commit'.publish
      BY <2>4 DEF EndCommit, NoCommit
    <3> QED BY <1>3, <3>1
  <2>5. CASE UNCHANGED <<promises, commit>>
    BY <1>3, <2>5
  <2> QED
    BY <2>1, <2>2, <2>3, <2>4, <2>5
       DEF Next, Engine, OutputThread, FrontEnd, vars, UtilityReply, Die, OpenChannel, Take,
           SendOverShm, SendOverZmq, Count, SendDead, Subscribe, ReaderFails, ReadShm, ReadZmq,
           engineVars
<1>5. SUFFICES
        /\ \A i \in DOMAIN wire' : wire'[i].via = "shm" => delivered'
        /\ \A i, j \in DOMAIN wire' :
             i < j /\ wire'[i].via = "shm" /\ wire'[j].via = "zmq" => shm' = "gone"
        /\ \A i, j, k \in DOMAIN wire' :
             i < j /\ j < k /\ wire'[i].via = "shm" /\ wire'[j].via = "zmq" => wire'[k].via = "zmq"
  BY <1>4 DEF Latched, DemotionIsFinal
\* What another hop on the wire makes of the three.
<1>6. ASSUME NEW id, NEW v \in {"shm", "zmq"}, wire' = Append(wire, [id |-> id, via |-> v])
      PROVE  /\ DOMAIN wire' = 1 .. Len(wire) + 1
             /\ \A i \in 1 .. Len(wire) : wire'[i] = wire[i]
             /\ wire'[Len(wire) + 1].via = v
  <2>1. \A e : /\ Len(Append(wire, e)) = Len(wire) + 1
               /\ DOMAIN Append(wire, e) = 1 .. Len(wire) + 1
               /\ \A i \in 1 .. Len(wire) : Append(wire, e)[i] = wire[i]
               /\ Append(wire, e)[Len(wire) + 1] = e
    BY <1>2
  <2> QED BY <1>6, <2>1
<1>7. CASE SendOverShm
  <2>1. wire' = Append(wire, [id |-> item.id, via |-> "shm"]) /\ delivered' = TRUE
        /\ shm = "live" /\ shm' = shm
    BY <1>7 DEF SendOverShm, PublishShm
  <2>2. \A i, j \in DOMAIN wire : ~(i < j /\ wire[i].via = "shm" /\ wire[j].via = "zmq")
    BY <2>1, <1>3
  <2>3. \A i, j \in DOMAIN wire' : ~(i < j /\ wire'[i].via = "shm" /\ wire'[j].via = "zmq")
    BY <1>2, <1>6, <2>1, <2>2
  <2> QED BY <2>1, <2>3
<1>8. CASE SendOverZmq
  <2>1. wire' = Append(wire, [id |-> item.id, via |-> "zmq"]) /\ delivered' = delivered
        /\ (delivered => shm' = "gone") /\ (shm = "gone" => shm' = "gone")
    BY <1>8 DEF SendOverZmq, SendZmq
  <2>2. /\ DOMAIN wire' = 1 .. Len(wire) + 1
        /\ \A i \in 1 .. Len(wire) : wire'[i] = wire[i]
        /\ wire'[Len(wire) + 1].via = "zmq"
    BY <1>6, <2>1
  <2>3. \A i \in DOMAIN wire' : wire'[i].via = "shm" => i \in DOMAIN wire /\ delivered'
    BY <1>2, <1>3, <2>1, <2>2
  <2>4. \A i, j \in DOMAIN wire' :
           i < j /\ wire'[i].via = "shm" /\ wire'[j].via = "zmq" => shm' = "gone"
    BY <2>1, <2>3
  <2>5. \A k \in DOMAIN wire' : k \in DOMAIN wire \/ wire'[k].via = "zmq"
    BY <1>2, <2>2
  <2>6. \A i, j, k \in DOMAIN wire' :
           i < j /\ j < k /\ wire'[i].via = "shm" /\ wire'[j].via = "zmq" => wire'[k].via = "zmq"
    BY <1>2, <1>3, <2>2, <2>5
  <2> QED BY <2>3, <2>4, <2>6
<1>9. CASE UNCHANGED wire /\ ~SendOverShm /\ ~SendOverZmq
  <2>1. delivered' = delivered /\ (shm = "gone" => shm' = "gone")
    BY <1>9
       DEF Next, Engine, OutputThread, FrontEnd, vars, Schedule, UpdateDecide, BeginCommit, Launch,
           EndCommit, UtilityReply, Die, OpenChannel, Take, Count,
           SendDead, Subscribe, ReaderFails, ReadShm, ReadZmq, threadVars
  <2> QED BY <1>3, <1>9, <2>1
<1>10. UNCHANGED wire \/ SendOverShm \/ SendOverZmq
  <2>1. CASE UpdateDecide
    BY <2>1 DEF UpdateDecide, PublishReady
  <2>2. CASE Launch
    BY <2>2, <1>3 DEF Launch
  <2> QED
    BY <2>1, <2>2
       DEF Next, Engine, OutputThread, FrontEnd, vars, Schedule, BeginCommit, EndCommit,
           UtilityReply, Die, OpenChannel, Take, Count, SendDead, Subscribe, ReaderFails, ReadShm,
           ReadZmq
<1> QED BY <1>7, <1>8, <1>9, <1>10

\* DemotionIsFinal: in the set-ups without an inline publish, where the output
\* thread is the one sender, the stream leaves shared memory at most once after it
\* has carried a batch (the latch of shm_ipc.py). Nothing is claimed of the inline
\* publish: the crate does not look at the latch.
THEOREM PathDemotion == Spec => []DemotionIsFinal
<1>1. Init => Latched /\ DemotionIsFinal
  BY EmptySeq DEF Init, Latched, DemotionIsFinal, NoCommit
<1>2. (TypeOK /\ Room) /\ (Latched /\ DemotionIsFinal) /\ [Next]_vars
        => (Latched /\ DemotionIsFinal)'
  BY LatchedStep
<1> QED BY <1>1, <1>2, TypeInit, TypeStep, PTL DEF Spec

------------------------------------------------------------------------------
(* Every set-up: an inline publish beside a runner, and replies to utility   *)
(* calls. The order is lost there, and what remains is that nothing is sent  *)
(* twice, and that nothing is lost while a step has at most one launch.      *)

\* The batches sent, then those on their way to it.
Everything == Ids(wire) \o Unsent

\* No batch is in two places, or twice in one.
NothingTwice == IsInjective(Everything) /\ ToSet(Everything) \subseteq 1 .. emitted

\* A commit has not kept more records than it has had launches.
Kept == commit.left + Len(commit.kept) <= MaxLaunches

\* With at most one launch a step every batch has its place. Of two records
\* that a longer commit kept, the second goes with the commit.
NothingLost ==
  MaxLaunches <= 1 => ToSet(Everything) = 1 .. emitted /\ Len(Everything) = emitted

LEMMA Joined ==
  ASSUME NEW s \in Seq(Int), NEW t \in Seq(Int)
  PROVE  /\ s \o t \in Seq(Int) /\ Len(s \o t) = Len(s) + Len(t)
         /\ ToSet(s \o t) = ToSet(s) \cup ToSet(t)
         /\ IsInjective(s \o t)
              <=> IsInjective(s) /\ IsInjective(t) /\ ToSet(s) \cap ToSet(t) = {}
<1> DEFINE u == s \o t
           m == Len(s)
           n == Len(t)
<1>1. /\ u \in Seq(Int) /\ Len(u) = m + n /\ m \in Nat /\ n \in Nat
      /\ \A i \in 1 .. m + n : u[i] = IF i <= m THEN s[i] ELSE t[i - m]
      /\ DOMAIN s = 1 .. m /\ DOMAIN t = 1 .. n
  BY ConcatProperties, LenProperties
<1>2. DOMAIN u = 1 .. m + n
  BY <1>1, LenProperties
<1> HIDE DEF u, m, n
<1>3. /\ \A i \in 1 .. m : i \in 1 .. m + n /\ u[i] = s[i]
      /\ \A j \in 1 .. n : m + j \in 1 .. m + n /\ u[m + j] = t[j]
  <2>1. ASSUME NEW i \in 1 .. m PROVE i \in 1 .. m + n /\ u[i] = s[i]
    BY <1>1
  <2>2. ASSUME NEW j \in 1 .. n PROVE m + j \in 1 .. m + n /\ u[m + j] = t[j]
    <3>1. m + j \in 1 .. m + n /\ ~(m + j <= m) /\ (m + j) - m = j
      BY <1>1
    <3> QED BY <1>1, <3>1
  <2> QED BY <2>1, <2>2
<1>4. \A k \in 1 .. m + n : k \in 1 .. m \/ \E j \in 1 .. n : k = m + j
  <2>1. ASSUME NEW k \in 1 .. m + n, k \notin 1 .. m PROVE \E j \in 1 .. n : k = m + j
    <3>1. k - m \in 1 .. n /\ k = m + (k - m)
      BY <1>1, <2>1
    <3> QED BY <3>1
  <2> QED BY <2>1
<1>5. ToSet(u) = ToSet(s) \cup ToSet(t)
  <2>1. /\ ToSet(u) = {u[k] : k \in 1 .. m + n}
        /\ ToSet(s) = {s[i] : i \in 1 .. m} /\ ToSet(t) = {t[j] : j \in 1 .. n}
    BY <1>1, <1>2 DEF ToSet
  <2>2. ASSUME NEW x PROVE x \in ToSet(u) <=> x \in ToSet(s) \/ x \in ToSet(t)
    <3>1. ASSUME x \in ToSet(u) PROVE x \in ToSet(s) \/ x \in ToSet(t)
      <4>1. PICK k \in 1 .. m + n : x = u[k]
        BY <2>1, <3>1
      <4>2. CASE k \in 1 .. m
        BY <1>3, <2>1, <4>1, <4>2
      <4>3. CASE k \notin 1 .. m
        BY <1>3, <1>4, <2>1, <4>1, <4>3
      <4> QED BY <4>2, <4>3
    <3>2. ASSUME x \in ToSet(s) PROVE x \in ToSet(u)
      <4>1. PICK i \in 1 .. m : x = s[i]
        BY <2>1, <3>2
      <4> QED BY <1>3, <2>1, <4>1
    <3>3. ASSUME x \in ToSet(t) PROVE x \in ToSet(u)
      <4>1. PICK j \in 1 .. n : x = t[j]
        BY <2>1, <3>3
      <4> QED BY <1>3, <2>1, <4>1
    <3> QED BY <3>1, <3>2, <3>3
  <2> QED BY <2>2
<1>6. ASSUME IsInjective(u)
      PROVE  IsInjective(s) /\ IsInjective(t) /\ ToSet(s) \cap ToSet(t) = {}
  <2>1. IsInjective(s)
    BY <1>1, <1>2, <1>3, <1>6 DEF IsInjective
  <2>2. IsInjective(t)
    <3>1. ASSUME NEW i \in 1 .. n, NEW j \in 1 .. n, t[i] = t[j] PROVE i = j
      <4>1. u[m + i] = u[m + j]
        BY <1>3, <3>1
      <4>2. m + i = m + j
        BY <1>2, <1>3, <1>6, <4>1 DEF IsInjective
      <4> QED BY <1>1, <4>2
    <3> QED BY <1>1, <3>1 DEF IsInjective
  <2>3. ASSUME NEW i \in 1 .. m, NEW j \in 1 .. n, s[i] = t[j] PROVE FALSE
    <3>1. u[i] = u[m + j]
      BY <1>3, <2>3
    <3>2. i = m + j
      BY <1>2, <1>3, <1>6, <3>1 DEF IsInjective
    <3> QED BY <1>1, <3>2
  <2> QED BY <1>1, <2>1, <2>2, <2>3 DEF ToSet
<1>7. ASSUME IsInjective(s), IsInjective(t), ToSet(s) \cap ToSet(t) = {}
      PROVE  IsInjective(u)
  <2>1. \A i \in 1 .. m, j \in 1 .. n : s[i] # t[j]
    BY <1>1, <1>7 DEF ToSet
  <2>2. ASSUME NEW i \in 1 .. m + n, NEW j \in 1 .. m + n, u[i] = u[j] PROVE i = j
    <3>1. CASE i \in 1 .. m /\ j \in 1 .. m
      BY <1>1, <1>3, <1>7, <2>2, <3>1 DEF IsInjective
    <3>2. CASE i \notin 1 .. m /\ j \notin 1 .. m
      <4>1. PICK a \in 1 .. n, b \in 1 .. n : i = m + a /\ j = m + b
        BY <1>4, <2>2, <3>2
      <4>2. t[a] = t[b]
        BY <1>3, <2>2, <4>1
      <4>3. a = b
        BY <1>1, <1>7, <4>2 DEF IsInjective
      <4> QED BY <4>1, <4>3
    <3>3. CASE i \in 1 .. m /\ j \notin 1 .. m
      <4>1. PICK b \in 1 .. n : j = m + b
        BY <1>4, <2>2, <3>3
      <4>2. s[i] = t[b]
        BY <1>3, <2>2, <3>3, <4>1
      <4> QED BY <2>1, <3>3, <4>2
    <3>4. CASE i \notin 1 .. m /\ j \in 1 .. m
      <4>1. PICK a \in 1 .. n : i = m + a
        BY <1>4, <2>2, <3>4
      <4>2. t[a] = s[j]
        BY <1>3, <2>2, <3>4, <4>1
      <4> QED BY <2>1, <3>4, <4>2
    <3> QED BY <3>1, <3>2, <3>3, <3>4
  <2> QED BY <1>2, <2>2 DEF IsInjective
<1>8. u \in Seq(Int) /\ Len(u) = m + n /\ ToSet(u) = ToSet(s) \cup ToSet(t)
      /\ (IsInjective(u) <=> IsInjective(s) /\ IsInjective(t) /\ ToSet(s) \cap ToSet(t) = {})
  BY <1>1, <1>5, <1>6, <1>7
<1> QED BY <1>8 DEF u, m, n

LEMMA Single ==
  ASSUME NEW e \in Int
  PROVE  /\ <<e>> \in Seq(Int) /\ Len(<<e>>) = 1 /\ ToSet(<<e>>) = {e}
         /\ IsInjective(<<e>>)
<1>1. <<e>> \in Seq(Int) /\ Len(<<e>>) = 1 /\ DOMAIN <<e>> = {1} /\ <<e>>[1] = e
  OBVIOUS
<1> QED BY <1>1 DEF ToSet, IsInjective

\* A batch that is new is put somewhere in between.
LEMMA Inserted ==
  ASSUME NEW s \in Seq(Int), NEW t \in Seq(Int), NEW e \in Int
  PROVE  /\ (s \o <<e>>) \o t \in Seq(Int) /\ Len((s \o <<e>>) \o t) = Len(s \o t) + 1
         /\ ToSet((s \o <<e>>) \o t) = ToSet(s \o t) \cup {e}
         /\ e \notin ToSet(s \o t) /\ IsInjective(s \o t) => IsInjective((s \o <<e>>) \o t)
<1> DEFINE o == <<e>>
<1>1. o \in Seq(Int) /\ Len(o) = 1 /\ ToSet(o) = {e} /\ IsInjective(o)
  BY Single
<1> HIDE DEF o
<1>2. /\ s \o o \in Seq(Int) /\ Len(s \o o) = Len(s) + 1
      /\ ToSet(s \o o) = ToSet(s) \cup {e}
      /\ IsInjective(s \o o) <=> IsInjective(s) /\ ToSet(s) \cap {e} = {}
  BY <1>1, Joined
<1>3. /\ (s \o o) \o t \in Seq(Int) /\ Len((s \o o) \o t) = Len(s \o o) + Len(t)
      /\ ToSet((s \o o) \o t) = ToSet(s \o o) \cup ToSet(t)
      /\ IsInjective((s \o o) \o t)
           <=> IsInjective(s \o o) /\ IsInjective(t) /\ ToSet(s \o o) \cap ToSet(t) = {}
  BY <1>1, <1>2, Joined
<1>4. /\ s \o t \in Seq(Int) /\ Len(s \o t) = Len(s) + Len(t)
      /\ ToSet(s \o t) = ToSet(s) \cup ToSet(t)
      /\ IsInjective(s \o t)
           <=> IsInjective(s) /\ IsInjective(t) /\ ToSet(s) \cap ToSet(t) = {}
  BY Joined
<1>5. Len(s) \in Nat /\ Len(t) \in Nat
  BY LenProperties
<1>6. Len((s \o o) \o t) = Len(s \o t) + 1
  BY <1>2, <1>3, <1>4, <1>5
<1>7. ToSet((s \o o) \o t) = ToSet(s \o t) \cup {e}
  BY <1>2, <1>3, <1>4
<1>8. e \notin ToSet(s \o t) /\ IsInjective(s \o t) => IsInjective((s \o o) \o t)
  BY <1>2, <1>3, <1>4
<1> QED BY <1>3, <1>6, <1>7, <1>8 DEF o

LEMMA IdsAppend ==
  ASSUME NEW T, NEW s \in Seq(T), NEW e \in T, \A x \in T : x.id \in Int
  PROVE  Ids(Append(s, e)) = Ids(s) \o <<e.id>>
<1>1. /\ Append(s, e) \in Seq(T) /\ Len(Append(s, e)) = Len(s) + 1
      /\ \A i \in 1 .. Len(s) : Append(s, e)[i] = s[i]
      /\ Append(s, e)[Len(s) + 1] = e /\ Len(s) \in Nat /\ e.id \in Int
  BY AppendProperties, LenProperties
<1>2. /\ Ids(s) \in Seq(Int) /\ Len(Ids(s)) = Len(s)
      /\ \A i \in 1 .. Len(s) : Ids(s)[i] = s[i].id
  BY IdsIs
<1>3. /\ Ids(Append(s, e)) \in Seq(Int) /\ Len(Ids(Append(s, e))) = Len(s) + 1
      /\ \A i \in 1 .. Len(s) + 1 : Ids(Append(s, e))[i] = Append(s, e)[i].id
  BY <1>1, IdsIs
<1>4. /\ Ids(s) \o <<e.id>> = Append(Ids(s), e.id)
      /\ Append(Ids(s), e.id) \in Seq(Int) /\ Len(Append(Ids(s), e.id)) = Len(s) + 1
      /\ \A i \in 1 .. Len(s) : Append(Ids(s), e.id)[i] = s[i].id
      /\ Append(Ids(s), e.id)[Len(s) + 1] = e.id
  BY <1>1, <1>2, AppendProperties, AppendIsConcat
<1>5. ASSUME NEW i \in 1 .. Len(s) + 1
      PROVE  Ids(Append(s, e))[i] = Append(Ids(s), e.id)[i]
  <2>1. CASE i \in 1 .. Len(s)
    BY <1>1, <1>3, <1>4, <2>1
  <2>2. CASE i = Len(s) + 1
    BY <1>1, <1>3, <1>4, <2>2
  <2>3. i \in 1 .. Len(s) \/ i = Len(s) + 1
    BY <1>1
  <2> QED BY <2>1, <2>2, <2>3
<1>6. Ids(Append(s, e)) = Append(Ids(s), e.id)
  BY <1>3, <1>4, <1>5, SeqEqual
<1> QED BY <1>4, <1>6

\* What a queue holds once an item is put behind it, or its first is taken.
LEMMA QueuedAppend ==
  ASSUME NEW q \in Seq(Item), \A i \in DOMAIN q : q[i].id # Dead, NEW e \in Item
  PROVE  Queued(Append(q, e)) = IF e.id = Dead THEN Queued(q) ELSE Queued(q) \o <<e.id>>
<1> DEFINE p == Append(q, e)
<1>1. /\ p \in Seq(Item) /\ Len(q) \in Nat /\ Len(p) = Len(q) + 1 /\ p[Len(q) + 1] = e
      /\ \A i \in 1 .. Len(q) : p[i] = q[i]
      /\ Waiting(q) = Len(q) /\ Waiting(p) = IF e.id = Dead THEN Len(q) ELSE Len(q) + 1
  BY WaitingAppend, AppendProperties
<1> HIDE DEF p
<1>2. /\ Queued(q) \in Seq(Int) /\ Len(Queued(q)) = Waiting(q)
      /\ \A i \in 1 .. Waiting(q) : Queued(q)[i] = q[i].id
  BY QueuedIs
<1>3. /\ Queued(p) \in Seq(Int) /\ Len(Queued(p)) = Waiting(p)
      /\ \A i \in 1 .. Waiting(p) : Queued(p)[i] = p[i].id
  BY <1>1, QueuedIs
<1>4. CASE e.id = Dead
  <2>1. Len(Queued(p)) = Len(Queued(q)) /\ \A i \in 1 .. Len(Queued(p)) : Queued(p)[i] = Queued(q)[i]
    BY <1>1, <1>2, <1>3, <1>4
  <2>2. Queued(p) = Queued(q)
    BY <1>2, <1>3, <2>1, SeqEqual
  <2> QED BY <1>4, <2>2 DEF p
<1>5. CASE e.id # Dead
  <2>1. e.id \in Int
    BY Sets
  <2>2. /\ Queued(q) \o <<e.id>> = Append(Queued(q), e.id)
        /\ Append(Queued(q), e.id) \in Seq(Int) /\ Len(Append(Queued(q), e.id)) = Len(q) + 1
        /\ \A i \in 1 .. Len(q) : Append(Queued(q), e.id)[i] = q[i].id
        /\ Append(Queued(q), e.id)[Len(q) + 1] = e.id
    BY <1>1, <1>2, <2>1, AppendProperties, AppendIsConcat
  <2>3. ASSUME NEW i \in 1 .. Len(q) + 1 PROVE Queued(p)[i] = Append(Queued(q), e.id)[i]
    <3>1. CASE i \in 1 .. Len(q)
      BY <1>1, <1>3, <1>5, <2>2, <3>1
    <3>2. CASE i = Len(q) + 1
      BY <1>1, <1>3, <1>5, <2>2, <3>2
    <3>3. i \in 1 .. Len(q) \/ i = Len(q) + 1
      BY <1>1
    <3> QED BY <3>1, <3>2, <3>3
  <2>4. Queued(p) = Append(Queued(q), e.id)
    BY <1>1, <1>3, <1>5, <2>2, <2>3, SeqEqual
  <2> QED BY <1>5, <2>2, <2>4 DEF p
<1> QED BY <1>4, <1>5

LEMMA QueuedTail ==
  ASSUME NEW q \in Seq(Item), q # <<>>, \A i \in DOMAIN q : q[i].id = Dead => i = Len(q)
  PROVE  /\ Head(q) \in Item /\ Tail(q) \in Seq(Item)
         /\ Head(q).id = Dead => Queued(q) = <<>> /\ Queued(Tail(q)) = <<>>
         /\ Head(q).id # Dead => Queued(q) = <<Head(q).id>> \o Queued(Tail(q))
<1> DEFINE t == Tail(q)
           h == Head(q)
<1>1. /\ h \in Item /\ t \in Seq(Item) /\ h = q[1] /\ h.id \in Int
      /\ Len(q) \in Nat \ {0}
      /\ \A i \in 1 .. Len(q) - 1 : t[i] = q[i + 1]
      /\ h.id = Dead => t = <<>> /\ Waiting(q) = 0 /\ Waiting(t) = 0
      /\ h.id # Dead => Waiting(q) > 0 /\ Waiting(t) = Waiting(q) - 1
  <2>1. h \in Item /\ h.id \in Int
    BY HeadTailProperties, Sets
  <2> QED BY <2>1, WaitingTail
<1> HIDE DEF t, h
<1>2. /\ Queued(q) \in Seq(Int) /\ Len(Queued(q)) = Waiting(q)
      /\ Waiting(q) \in Nat /\ Waiting(q) <= Len(q)
      /\ \A i \in 1 .. Waiting(q) : Queued(q)[i] = q[i].id
  BY QueuedIs
<1>3. /\ Queued(t) \in Seq(Int) /\ Len(Queued(t)) = Waiting(t)
      /\ \A i \in 1 .. Waiting(t) : Queued(t)[i] = t[i].id
  BY <1>1, QueuedIs
<1>4. ASSUME h.id = Dead PROVE Queued(q) = <<>> /\ Queued(t) = <<>>
  <2>1. Len(Queued(q)) = 0 /\ Len(Queued(t)) = 0
    BY <1>1, <1>2, <1>3, <1>4
  <2>2. \A s \in Seq(Int) : Len(s) = 0 => s = <<>>
    BY EmptySeq
  <2> QED BY <1>2, <1>3, <2>1, <2>2, Zenon
<1>5. ASSUME h.id # Dead PROVE Queued(q) = <<h.id>> \o Queued(t)
  <2>1. <<h.id>> \in Seq(Int) /\ Len(<<h.id>>) = 1 /\ <<h.id>>[1] = h.id
    BY <1>1
  <2> DEFINE o == <<h.id>>
  <2> HIDE DEF o
  <2>2. /\ o \in Seq(Int) /\ Len(o) = 1 /\ o[1] = h.id
        /\ o \o Queued(t) \in Seq(Int) /\ Len(o \o Queued(t)) = 1 + Len(Queued(t))
        /\ \A i \in 1 .. 1 + Len(Queued(t)) :
             (o \o Queued(t))[i] = IF i <= 1 THEN o[i] ELSE Queued(t)[i - 1]
    <3>1. o \in Seq(Int) /\ Len(o) = 1 /\ o[1] = h.id
      BY <2>1 DEF o
    <3>2. /\ o \o Queued(t) \in Seq(Int)
          /\ Len(o \o Queued(t)) = Len(o) + Len(Queued(t))
          /\ \A i \in 1 .. Len(o) + Len(Queued(t)) :
               (o \o Queued(t))[i] = IF i <= Len(o) THEN o[i] ELSE Queued(t)[i - Len(o)]
      BY <3>1, <1>3, ConcatProperties
    <3> QED BY <3>1, <3>2
  <2>3. Len(o \o Queued(t)) = Waiting(q) /\ Waiting(q) > 0 /\ Waiting(t) = Waiting(q) - 1
    BY <1>1, <1>2, <1>3, <1>5, <2>2
  <2>4. ASSUME NEW i \in 1 .. Waiting(q) PROVE Queued(q)[i] = (o \o Queued(t))[i]
    <3>0. i \in 1 .. 1 + Len(Queued(t)) /\ Queued(q)[i] = q[i].id
      BY <1>2, <1>3, <2>3
    <3>1. CASE i = 1
      BY <3>0, <3>1, <1>1, <2>2
    <3>2. CASE i # 1
      <4>1. i - 1 \in 1 .. Waiting(t) /\ i - 1 \in 1 .. Len(q) - 1 /\ ~(i <= 1) /\ (i - 1) + 1 = i
        BY <3>2, <1>1, <1>2, <2>3
      <4>2. (o \o Queued(t))[i] = t[i - 1].id
        BY <3>0, <4>1, <1>3, <2>2
      <4> QED BY <3>0, <4>1, <4>2, <1>1
    <3> QED BY <3>1, <3>2
  <2>5. Queued(q) = o \o Queued(t)
    BY <1>2, <2>2, <2>3, <2>4, SeqEqual
  <2> QED BY <2>5 DEF o
<1> QED BY <1>1, <1>4, <1>5 DEF t, h

\* What the sentinel and the item held keep to in every set-up, and what a
\* commit has kept.
Sentinel == SentinelIsLast /\ HeldItem /\ Kept

LEMMA SentinelStep ==
  ASSUME TypeOK, Sentinel, [Next]_vars
  PROVE  Sentinel'
<1> USE DEF Dead
<1>a. /\ Len(commit.kept) \in Nat /\ commit.kept \in Seq(Batches) /\ commit.left \in Nat
      /\ Len(queue) \in Nat /\ DOMAIN queue = 1 .. Len(queue) /\ queue \in Seq(Item)
      /\ item.id \in Int /\ NoItem.id = -1
  BY LenProperties, Sets, Launches DEF TypeOK
<1>d. alive => item.id # 0 /\ \A i \in DOMAIN queue : queue[i].id # 0
  BY DEF Sentinel, SentinelIsLast
<1>g. SentinelIsLast /\ HeldItem /\ Kept
  BY DEF Sentinel
<1>h. /\ NoCommit.kept = <<>> /\ NoCommit.left = 0 /\ Len(<<>>) = 0
      /\ MaxLaunches \in Nat /\ MaxLaunches' = MaxLaunches
  <2>1. setup' = setup
    BY DEF Next, Engine, OutputThread, FrontEnd, vars, Schedule, UpdateDecide, BeginCommit,
       Launch, EndCommit, UtilityReply, Die, OpenChannel, Take, SendOverShm, SendOverZmq, Count,
       SendDead, Subscribe, ReaderFails, ReadShm, ReadZmq
  <2> QED BY <2>1, Launches DEF NoCommit, MaxLaunches
<1>k. commit' = NoCommit => Kept'
  BY <1>h DEF Kept
<1>u. ASSUME UNCHANGED <<alive, commit, queue, item>>, counted' = counted \/ item.id > 0
      PROVE  Sentinel'
  BY <1>u, <1>g, <1>h DEF Sentinel, SentinelIsLast, HeldItem, Kept
\* An item of the engine is put behind the queue.
<1>q. ASSUME alive, NEW e \in Item, queue' = Append(queue, e), UNCHANGED <<item, counted>>,
             alive' = (e.id # 0), commit' = NoCommit
      PROVE  Sentinel'
  <2>1. /\ Len(queue') = Len(queue) + 1 /\ DOMAIN queue' = 1 .. Len(queue) + 1
        /\ queue'[Len(queue) + 1] = e /\ \A i \in 1 .. Len(queue) : queue'[i] = queue[i]
    BY <1>a, <1>d, <1>q, WaitingAppend
  <2>2. \A i \in DOMAIN queue' : queue'[i].id = 0 => i = Len(queue') /\ ~alive'
    <3>1. ASSUME NEW i \in 1 .. Len(queue) + 1, queue'[i].id = 0
          PROVE  i = Len(queue) + 1 /\ ~alive'
      <4>1. i \in 1 .. Len(queue) \/ i = Len(queue) + 1
        BY <1>a
      <4> QED BY <4>1, <3>1, <2>1, <1>a, <1>d, <1>q
    <3> QED BY <3>1, <2>1
  <2>3. SentinelIsLast'
    BY <2>2, <1>d, <1>q DEF SentinelIsLast
  <2>4. HeldItem'
    BY <1>q, <1>g DEF HeldItem
  <2> QED BY <2>3, <2>4, <1>q, <1>k DEF Sentinel
<1>1. CASE Schedule
  BY <1>1, <1>u DEF Schedule, threadVars
<1>2. CASE UpdateDecide
  <2>1. alive /\ alive' = alive /\ commit' = NoCommit /\ UNCHANGED <<item, counted>>
        /\ emitted + 1 \in Batches
    BY <1>2, Sets DEF UpdateDecide, threadVars, TypeOK
  <2>2. CASE UNCHANGED queue
    BY <1>2, <1>u, <2>2 DEF UpdateDecide, threadVars
  <2>3. ASSUME NEW f \in {1, 2}, Enqueue(Batch(emitted + 1, f)) PROVE Sentinel'
    <3>1. Batch(emitted + 1, f) \in Item /\ Batch(emitted + 1, f).id # 0
      BY <2>1, Sets
    <3> QED BY <1>q, <2>1, <2>3, <3>1 DEF Enqueue
  <2> QED BY <1>2, <2>2, <2>3 DEF UpdateDecide
<1>3. CASE BeginCommit
  <2>1. alive /\ UNCHANGED <<alive, queue, item, counted>> /\ promises # <<>>
        /\ commit' = [ left |-> Head(promises).steps,
                       publish |-> Head(promises).publish, kept |-> <<>> ]
    BY <1>3 DEF BeginCommit, threadVars
  <2>2. Head(promises).steps \in 0 .. MaxLaunches
    BY <2>1, HeadTailProperties, Launches DEF TypeOK
  <2>3. Kept'
    BY <2>1, <2>2, <1>h DEF Kept
  <2> QED BY <2>1, <2>3, <1>g DEF Sentinel, SentinelIsLast, HeldItem
<1>4. CASE Launch
  <2>1. alive /\ UNCHANGED <<alive, queue, item, counted>> /\ commit.left > 0
    BY <1>4 DEF Launch, threadVars
  <2>2. PICK left \in {0, commit.left - 1} :
          \/ commit' = [commit EXCEPT !.left = left]
          \/ commit' = [commit EXCEPT !.left = left, !.kept = Append(@, emitted + 1)]
    BY <1>4 DEF Launch
  <2>3. commit = [left |-> commit.left, publish |-> commit.publish, kept |-> commit.kept]
    BY DEF TypeOK, Commit
  <2>4. /\ commit'.left = left
        /\ commit'.kept = commit.kept \/ commit'.kept = Append(commit.kept, emitted + 1)
    BY <2>2, <2>3
  <2>5. Len(commit'.kept) \in Nat /\ Len(commit'.kept) <= Len(commit.kept) + 1
    BY <2>4, <1>a
  <2>6. left \in Nat /\ left + 1 <= commit.left
    BY <2>1, <2>2, <1>a
  <2>7. commit.left + Len(commit.kept) <= MaxLaunches
    BY <1>g DEF Kept
  <2>8. commit.left \in Nat /\ Len(commit.kept) \in Nat /\ MaxLaunches \in Nat
    BY <1>a, <1>h
  <2>9. commit'.left + Len(commit'.kept) <= MaxLaunches
    <3>1. commit'.left = left
      BY <2>4
    <3> QED BY <3>1, <2>5, <2>6, <2>7, <2>8
  <2>10. Kept'
    BY <2>9, <1>h DEF Kept
  <2> QED BY <2>1, <2>10, <1>g DEF Sentinel, SentinelIsLast, HeldItem
<1>5. CASE EndCommit
  <2>1. alive /\ alive' = alive /\ commit' = NoCommit /\ UNCHANGED <<item, counted>>
    BY <1>5, <1>g DEF EndCommit, threadVars, SentinelIsLast
  <2>2. CASE UNCHANGED queue
    BY <2>1, <2>2, <1>k, <1>g DEF Sentinel, SentinelIsLast, HeldItem
  <2>3. CASE commit.kept # <<>> /\ Enqueue(Batch(Head(commit.kept), 1))
    <3>1. Head(commit.kept) \in Batches
      BY <2>3, <1>a, HeadTailProperties
    <3>2. Batch(Head(commit.kept), 1) \in Item /\ Batch(Head(commit.kept), 1).id # 0
      BY <3>1, Sets
    <3> QED BY <1>q, <2>1, <2>3, <3>2 DEF Enqueue
  <2> QED BY <1>5, <2>2, <2>3 DEF EndCommit
<1>6. CASE UtilityReply
  <2>1. alive /\ alive' = alive /\ commit' = NoCommit /\ UNCHANGED <<item, counted>>
        /\ emitted + 1 \in Batches /\ queue' = Append(queue, Batch(emitted + 1, 1))
    BY <1>6, Sets DEF UtilityReply, threadVars, TypeOK
  <2>2. Batch(emitted + 1, 1) \in Item /\ Batch(emitted + 1, 1).id # 0
    BY <2>1, Sets
  <2> QED BY <1>q, <2>1, <2>2
<1>7. CASE Die
  <2>1. alive /\ alive' = FALSE /\ commit' = NoCommit /\ UNCHANGED <<item, counted>>
        /\ queue' = Append(queue, Batch(0, 1))
    BY <1>7 DEF Die, threadVars
  <2>2. Batch(0, 1) \in Item /\ Batch(0, 1).id = 0
    BY Sets
  <2> QED BY <1>q, <2>1, <2>2
<1>8. CASE OpenChannel
  BY <1>8, <1>u DEF OpenChannel, engineVars
<1>9. CASE Take
  <2>1. item = NoItem /\ queue # <<>> /\ item' = Head(queue) /\ queue' = Tail(queue)
        /\ UNCHANGED <<alive, commit, counted>>
    BY <1>9 DEF Take, engineVars
  <2>2. \A i \in DOMAIN queue : queue[i].id = 0 => i = Len(queue)
    BY <1>g DEF SentinelIsLast
  <2>3. /\ Head(queue) = queue[1] /\ Len(queue) \in Nat \ {0}
        /\ Len(queue') = Len(queue) - 1 /\ DOMAIN queue' = 1 .. Len(queue) - 1
        /\ \A i \in 1 .. Len(queue) - 1 : queue'[i] = queue[i + 1]
        /\ item'.id = 0 => queue' = <<>>
    BY <2>1, <2>2, <1>a, WaitingTail
  <2>4. item'.id \in Nat /\ ~counted
    <3>1. item' \in Item
      BY <2>1, <1>a, HeadTailProperties
    <3> QED BY <3>1, <2>1, <1>a, <1>g, Sets DEF HeldItem
  <2>5. \A i \in DOMAIN queue' : queue'[i].id = 0 => i = Len(queue') /\ ~alive
    <3>1. ASSUME NEW i \in 1 .. Len(queue) - 1, queue'[i].id = 0
          PROVE  i = Len(queue) - 1 /\ ~alive
      <4>1. i + 1 \in DOMAIN queue /\ queue[i + 1].id = 0
        BY <3>1, <2>3, <1>a
      <4>2. i + 1 = Len(queue) /\ ~alive
        BY <4>1, <1>g DEF SentinelIsLast
      <4> QED BY <4>2, <1>a
    <3> QED BY <3>1, <2>3
  <2>6. item'.id = 0 => ~alive
    <3>1. 1 \in DOMAIN queue
      BY <2>3, <1>a
    <3> QED BY <3>1, <2>1, <2>3, <1>g DEF SentinelIsLast
  <2>7. SentinelIsLast'
    BY <2>1, <2>3, <2>5, <2>6, <1>g DEF SentinelIsLast
  <2>8. HeldItem'
    BY <2>1, <2>4 DEF HeldItem
  <2> QED BY <2>1, <2>7, <2>8, <1>g, <1>h DEF Sentinel, Kept
<1>10. CASE SendOverShm
  BY <1>10, <1>u DEF SendOverShm, engineVars, Sending
<1>11. CASE SendOverZmq
  BY <1>11, <1>u DEF SendOverZmq, engineVars, Sending
<1>12. CASE Count
  <2>1. counted' = FALSE /\ item' = NoItem /\ UNCHANGED <<alive, commit, queue>>
    BY <1>12 DEF Count, engineVars
  <2> QED BY <2>1, <1>a, <1>g, <1>h DEF Sentinel, SentinelIsLast, HeldItem, Kept
<1>13. CASE SendDead
  <2>1. item.id = 0 /\ item' = NoItem /\ UNCHANGED <<alive, commit, queue, counted>>
    BY <1>13 DEF SendDead, engineVars
  <2> QED BY <2>1, <1>a, <1>g, <1>h DEF Sentinel, SentinelIsLast, HeldItem, Kept
<1>14. CASE Subscribe
  BY <1>14, <1>u DEF Subscribe, engineVars, threadVars
<1>15. CASE ReaderFails
  BY <1>15, <1>u DEF ReaderFails, engineVars, threadVars
<1>16. CASE ReadShm
  BY <1>16, <1>u DEF ReadShm, engineVars, threadVars
<1>17. CASE ReadZmq
  BY <1>17, <1>u DEF ReadZmq, engineVars, threadVars
<1>18. CASE UNCHANGED vars
  BY <1>18, <1>u DEF vars, engineVars, threadVars, frontVars
<1> QED
  BY <1>1, <1>2, <1>3, <1>4, <1>5, <1>6, <1>7, <1>8, <1>9, <1>10, <1>11, <1>12, <1>13,
     <1>14, <1>15, <1>16, <1>17, <1>18 DEF Next, Engine, OutputThread, FrontEnd

\* Concatenation under a name of its own, which the provers leave alone.
s ++ t == s \o t

LEMMA Concatenated ==
  /\ \A r, s \in Seq(Int) : r ++ s \in Seq(Int)
  /\ \A r, s, t \in Seq(Int) : (r ++ s) ++ t = r ++ (s ++ t)
  /\ <<>> \in Seq(Int) /\ \A r \in Seq(Int) : r ++ <<>> = r /\ <<>> ++ r = r
<1>1. ASSUME NEW r \in Seq(Int), NEW s \in Seq(Int) PROVE r ++ s \in Seq(Int)
  BY ConcatProperties DEF ++
<1>2. ASSUME NEW r \in Seq(Int), NEW s \in Seq(Int), NEW t \in Seq(Int)
      PROVE  (r ++ s) ++ t = r ++ (s ++ t)
  BY ConcatAssociative DEF ++
<1>3. <<>> \in Seq(Int) /\ \A r \in Seq(Int) : r ++ <<>> = r /\ <<>> ++ r = r
  <2>1. ASSUME NEW r \in Seq(Int) PROVE r ++ <<>> = r /\ <<>> ++ r = r
    BY ConcatEmptySeq DEF ++
  <2> QED BY <2>1, EmptySeq
<1> QED BY <1>1, <1>2, <1>3

\* The parts of what is emitted, in the order of Everything.
HeldIds == IF Sending THEN <<item.id>> ELSE <<>>

Parts ==
  /\ Ids(wire) \in Seq(Int) /\ HeldIds \in Seq(Int) /\ Queued(queue) \in Seq(Int)
  /\ commit.kept \in Seq(Int) /\ Unsent \in Seq(Int) /\ Everything \in Seq(Int)
  /\ Everything = Ids(wire) ++ Unsent
  /\ Everything = Ids(wire) ++ ((HeldIds ++ Queued(queue)) ++ commit.kept)

LEMMA PartsNow == TypeOK => Parts
<1> SUFFICES ASSUME TypeOK PROVE Parts
  OBVIOUS
<1>1. Ids(wire) \in Seq(Int) /\ Queued(queue) \in Seq(Int)
  <2>1. wire \in Seq(Hop) /\ \A e \in Hop : e.id \in Int
    BY Sets DEF TypeOK, Hop
  <2> QED BY <2>1, IdsIs, QueuedIs DEF TypeOK
<1>2. commit.kept \in Seq(Int)
  <2>1. commit.kept \in Seq(Batches) /\ Batches \subseteq Int
    BY Launches, Sets
  <2> QED BY <2>1, SeqMonotonic
<1>3. HeldIds \in Seq(Int)
  <2>1. item.id \in Int
    BY Sets DEF TypeOK
  <2> QED BY <2>1, Single, EmptySeq DEF HeldIds
<1>4. Unsent = (HeldIds ++ Queued(queue)) ++ commit.kept
  BY Zenon DEF Unsent, HeldIds, ++
<1>5. Unsent \in Seq(Int)
  BY <1>1, <1>2, <1>3, <1>4, Concatenated, Zenon
<1>6. Everything = Ids(wire) ++ Unsent
  BY DEF Everything, ++
<1>7. Everything \in Seq(Int)
  BY <1>1, <1>5, <1>6, Concatenated, Zenon
<1> QED BY <1>1, <1>2, <1>3, <1>4, <1>5, <1>6, <1>7 DEF Parts

LEMMA PartsNext == TypeOK' => Parts'
  BY PartsNow, PTL

\* What a step makes of the parts, for the whole: an item goes behind the
\* queue, a record is kept, a batch is sent, a commit hands one record over.
LEMMA Regrouped ==
  ASSUME NEW a \in Seq(Int), NEW h \in Seq(Int), NEW q \in Seq(Int), NEW k \in Seq(Int),
         NEW o \in Seq(Int)
  PROVE  /\ a ++ ((h ++ (q ++ o)) ++ <<>>) = ((a ++ ((h ++ q) ++ <<>>)) ++ o) ++ <<>>
         /\ a ++ ((h ++ q) ++ (k ++ o)) = ((a ++ ((h ++ q) ++ k)) ++ o) ++ <<>>
         /\ (a ++ o) ++ ((<<>> ++ q) ++ k) = a ++ ((o ++ q) ++ k)
         /\ <<>> ++ (o ++ q) = o ++ q
         /\ a ++ ((h ++ q) ++ (o ++ k)) = (a ++ ((h ++ (q ++ o)) ++ <<>>)) ++ k
<1>1. \A r, s \in Seq(Int) : r ++ s \in Seq(Int)
  BY Concatenated, Zenon
<1>2. \A r, s, t \in Seq(Int) : (r ++ s) ++ t = r ++ (s ++ t)
  BY Concatenated, Zenon
<1>3. <<>> \in Seq(Int) /\ \A r \in Seq(Int) : r ++ <<>> = r /\ <<>> ++ r = r
  BY Concatenated, Zenon
<1>4. a ++ ((h ++ (q ++ o)) ++ <<>>) = ((a ++ ((h ++ q) ++ <<>>)) ++ o) ++ <<>>
  <2>1. h ++ q \in Seq(Int) /\ q ++ o \in Seq(Int) /\ h ++ (q ++ o) \in Seq(Int)
    BY <1>1
  <2>2. (h ++ (q ++ o)) ++ <<>> = (h ++ q) ++ o /\ (h ++ q) ++ <<>> = h ++ q
    BY <1>2, <1>3, <2>1
  <2>3. (a ++ (h ++ q)) ++ o = a ++ ((h ++ q) ++ o)
    BY <1>2, <2>1
  <2>4. (a ++ (h ++ q)) ++ o \in Seq(Int)
    BY <1>1, <2>1
  <2>5. ((a ++ (h ++ q)) ++ o) ++ <<>> = (a ++ (h ++ q)) ++ o
    BY <1>3, <2>4
  <2> QED BY <2>2, <2>3, <2>5
<1>5. a ++ ((h ++ q) ++ (k ++ o)) = ((a ++ ((h ++ q) ++ k)) ++ o) ++ <<>>
  <2>1. h ++ q \in Seq(Int) /\ (h ++ q) ++ k \in Seq(Int)
    BY <1>1
  <2>2. (h ++ q) ++ (k ++ o) = ((h ++ q) ++ k) ++ o
    BY <1>2, <2>1
  <2>3. a ++ (((h ++ q) ++ k) ++ o) = (a ++ ((h ++ q) ++ k)) ++ o
    BY <1>2, <2>1
  <2>4. (a ++ ((h ++ q) ++ k)) ++ o \in Seq(Int)
    BY <1>1, <2>1
  <2>5. ((a ++ ((h ++ q) ++ k)) ++ o) ++ <<>> = (a ++ ((h ++ q) ++ k)) ++ o
    BY <1>3, <2>4
  <2> QED BY <2>2, <2>3, <2>5
<1>6. (a ++ o) ++ ((<<>> ++ q) ++ k) = a ++ ((o ++ q) ++ k)
  <2>1. <<>> ++ q = q /\ q ++ k \in Seq(Int)
    BY <1>1, <1>3
  <2>2. (a ++ o) ++ (q ++ k) = a ++ (o ++ (q ++ k)) /\ (o ++ q) ++ k = o ++ (q ++ k)
    BY <1>2, <2>1
  <2> QED BY <2>1, <2>2
<1>7. <<>> ++ (o ++ q) = o ++ q
  BY <1>1, <1>3
<1>8. a ++ ((h ++ q) ++ (o ++ k)) = (a ++ ((h ++ (q ++ o)) ++ <<>>)) ++ k
  <2>1. h ++ q \in Seq(Int) /\ q ++ o \in Seq(Int) /\ h ++ (q ++ o) \in Seq(Int)
    BY <1>1
  <2>2. (h ++ (q ++ o)) ++ <<>> = h ++ (q ++ o) /\ (h ++ q) ++ o = h ++ (q ++ o)
    BY <1>2, <1>3, <2>1
  <2>3. (h ++ q) ++ (o ++ k) = (h ++ (q ++ o)) ++ k
    <3>1. (h ++ q) ++ (o ++ k) = ((h ++ q) ++ o) ++ k
      BY <1>2, <2>1
    <3> QED BY <2>2, <3>1
  <2>4. a ++ ((h ++ (q ++ o)) ++ k) = (a ++ (h ++ (q ++ o))) ++ k
    BY <1>2, <2>1
  <2> QED BY <2>2, <2>3, <2>4
<1> QED BY <1>4, <1>5, <1>6, <1>7, <1>8

\* A step leaves everything where it is or passes it on, puts in the batch it
\* emits, or ends a commit that has kept more than the one record it hands over.
LEMMA Moves ==
  ASSUME TypeOK, Room, Sentinel, [Next]_vars
  PROVE  \/ emitted' = emitted /\ Everything' = Everything
         \/ /\ emitted' = emitted + 1
            /\ \E s, t \in Seq(Int) :
                 Everything = s ++ t /\ Everything' = (s ++ <<emitted + 1>>) ++ t
         \/ /\ emitted' = emitted /\ MaxLaunches > 1
            /\ \E t \in Seq(Int) : Everything = Everything' ++ t
<1> USE DEF Dead
<1> DEFINE A == Ids(wire)
           H == HeldIds
           Q == Queued(queue)
           K == commit.kept
           new == <<emitted + 1>>
<1>1. TypeOK' /\ Parts /\ Parts'
  BY TypeStep, PartsNow, PartsNext
<1>2. /\ A \in Seq(Int) /\ H \in Seq(Int) /\ Q \in Seq(Int) /\ K \in Seq(Int)
      /\ Unsent \in Seq(Int) /\ Everything \in Seq(Int)
      /\ Everything = A ++ Unsent
      /\ Everything = A ++ ((H ++ Q) ++ K)
      /\ Everything' = A' ++ ((H' ++ Q') ++ K')
      /\ Everything' = A' ++ Unsent'
  BY <1>1 DEF Parts
<1>3. /\ emitted \in Int /\ emitted + 1 \in Int /\ new \in Seq(Int) /\ <<>> \in Seq(Int)
      /\ queue \in Seq(Item) /\ item.id \in Int /\ NoItem.id = -1
      /\ wire \in Seq(Hop) /\ \A e \in Hop : e.id \in Int
  BY Single, EmptySeq, Sets DEF TypeOK, Hop
<1>4. SentinelIsLast /\ HeldItem /\ Kept
  BY DEF Sentinel
<1>5. NoCommit.kept = <<>>
  BY DEF NoCommit
<1>h. UNCHANGED <<item, counted>> => H' = H
  BY DEF HeldIds, Sending
<1>w. ASSUME NEW v \in {"shm", "zmq"}, NEW n \in Batches,
             wire' = Append(wire, [id |-> n, via |-> v])
      PROVE  A' = A ++ <<n>>
  <2> DEFINE e == [id |-> n, via |-> v]
  <2>1. e \in Hop /\ e.id = n
    BY DEF Hop
  <2> HIDE DEF e
  <2>2. Ids(Append(wire, e)) = Ids(wire) ++ <<e.id>>
    BY <1>3, <2>1, IdsAppend DEF ++
  <2>3. wire' = Append(wire, e)
    BY <1>w DEF e
  <2>4. Ids(wire)' = Ids(wire')
    BY DEF Ids
  <2> QED BY <2>1, <2>2, <2>3, <2>4
<1>q. ASSUME alive, NEW n \in Batches, NEW f \in {1, 2}, queue' = Append(queue, Batch(n, f))
      PROVE  Q' = Q ++ <<n>>
  <2> DEFINE e == Batch(n, f)
  <2>1. e \in Item /\ e.id = n /\ n # 0
    BY Sets
  <2> HIDE DEF e
  <2>2. \A i \in DOMAIN queue : queue[i].id # 0
    BY <1>4, <1>q DEF SentinelIsLast
  <2>3. Queued(Append(queue, e)) = Queued(queue) ++ <<e.id>>
    BY <1>3, <2>1, <2>2, QueuedAppend DEF ++
  <2>4. queue' = Append(queue, e) /\ Queued(queue)' = Queued(queue')
    BY <1>q DEF e, Queued, Ids
  <2> QED BY <2>1, <2>3, <2>4
\* Nothing moves.
<1>u. ASSUME emitted' = emitted, A' = A, H' = H, Q' = Q, K' = K
      PROVE  emitted' = emitted /\ Everything' = Everything
  BY <1>2, <1>u
<1>v. ASSUME UNCHANGED <<emitted, wire, item, counted, queue>>, K' = K
      PROVE  emitted' = emitted /\ Everything' = Everything
  <2>1. A' = A /\ Q' = Q
    BY <1>v DEF Ids, Queued
  <2> QED BY <1>h, <1>u, <1>v, <2>1
\* The batch emitted goes behind the queue.
<1>e. ASSUME emitted' = emitted + 1, A' = A, H' = H, Q' = Q ++ new, K = <<>>, K' = <<>>
      PROVE  \E s, t \in Seq(Int) :
               Everything = s ++ t /\ Everything' = (s ++ new) ++ t
  <2>1. A ++ ((H ++ (Q ++ new)) ++ <<>>) = ((A ++ ((H ++ Q) ++ <<>>)) ++ new) ++ <<>>
    <3>1. A \in Seq(Int) /\ H \in Seq(Int) /\ Q \in Seq(Int) /\ new \in Seq(Int)
      BY <1>2, <1>3
    <3> HIDE DEF A, H, Q, new
    <3> QED BY <3>1, <1>3, Regrouped
  <2>2. Everything' = (Everything ++ new) ++ <<>>
    BY <1>2, <1>e, <2>1, Zenon
  <2>3. Everything = Everything ++ <<>>
    BY <1>2, Concatenated, Zenon
  <2> QED BY <1>2, <1>3, <2>2, <2>3
\* It goes onto the wire, before what has still to be sent.
<1>p. ASSUME emitted' = emitted + 1, A' = A ++ new, H' = H, Q' = Q, K' = K
      PROVE  \E s, t \in Seq(Int) :
               Everything = s ++ t /\ Everything' = (s ++ new) ++ t
  <2>1. Everything' = (A ++ new) ++ ((H ++ Q) ++ K)
    BY <1>2, <1>p, Zenon
  <2>2. Everything = A ++ ((H ++ Q) ++ K) /\ (H ++ Q) ++ K \in Seq(Int)
    <3>1. H ++ Q \in Seq(Int)
      BY <1>2, Concatenated, Zenon
    <3> QED BY <1>2, <3>1, Concatenated, Zenon
  <2> QED BY <1>2, <2>1, <2>2
<1>6. CASE UpdateDecide
  <2>1. /\ alive /\ emitted' = emitted + 1 /\ emitted + 1 \in Batches
        /\ K = <<>> /\ K' = <<>> /\ K' = K /\ UNCHANGED <<item, counted>>
    BY <1>5, <1>6, Sets DEF UpdateDecide, threadVars, TypeOK
  <2>2. CASE PublishShm(emitted + 1) /\ UNCHANGED queue
    <3>1. A' = A ++ new
      BY <1>w, <2>1, <2>2 DEF PublishShm
    <3>2. Q' = Q
      BY <2>2 DEF Queued, Ids
    <3> QED BY <1>h, <1>p, <2>1, <3>1, <3>2
  <2>3. ASSUME NEW f \in {1, 2}, Enqueue(Batch(emitted + 1, f)), UNCHANGED wire
        PROVE  \E s, t \in Seq(Int) :
                 Everything = s ++ t /\ Everything' = (s ++ new) ++ t
    <3>1. Q' = Q ++ new
      BY <1>q, <2>1, <2>3 DEF Enqueue
    <3>2. A' = A
      BY <2>3 DEF Ids
    <3> QED BY <1>e, <1>h, <2>1, <3>1, <3>2
  <2> QED BY <1>6, <2>1, <2>2, <2>3 DEF UpdateDecide
<1>7. CASE Launch
  <2>1. /\ emitted' = emitted + 1 /\ emitted + 1 \in Batches
        /\ UNCHANGED <<item, counted, queue>>
    <3>1. commit.left > 0 /\ emitted' = emitted + 1 /\ UNCHANGED <<item, counted, queue>>
      BY <1>7 DEF Launch, threadVars
    <3>2. emitted + 1 \in 1 .. MaxBatches
      <4>1. emitted \in Nat /\ commit.left \in Nat /\ MaxBatches \in Nat
        BY Launches, Sets DEF TypeOK
      <4> QED BY <3>1, <4>1 DEF Room
    <3> QED BY <3>1, <3>2 DEF Batches
  <2>2. H' = H /\ Q' = Q
    BY <1>h, <2>1 DEF Queued, Ids
  <2>3. commit = [left |-> commit.left, publish |-> commit.publish, kept |-> commit.kept]
    BY DEF TypeOK, Commit
  <2>4. \/ PublishShm(emitted + 1) /\ K' = K
        \/ UNCHANGED wire /\ K' = Append(K, emitted + 1)
    <3>1. PICK left \in {0, commit.left - 1} :
            \/ PublishShm(emitted + 1) /\ commit' = [commit EXCEPT !.left = left]
            \/ /\ commit' = [commit EXCEPT !.left = left, !.kept = Append(@, emitted + 1)]
               /\ UNCHANGED wire
      BY <1>7 DEF Launch
    <3> QED BY <2>3, <3>1
  <2>5. CASE PublishShm(emitted + 1) /\ K' = K
    <3>1. A' = A ++ new
      BY <1>w, <2>1, <2>5 DEF PublishShm
    <3> QED BY <1>p, <2>1, <2>2, <2>5, <3>1
  <2>6. CASE UNCHANGED wire /\ K' = Append(K, emitted + 1)
    <3>1. A' = A
      BY <2>6 DEF Ids
    <3>2. K' = K ++ new
      BY <1>2, <1>3, <2>6, AppendIsConcat DEF ++
    <3>3. A ++ ((H ++ Q) ++ (K ++ new)) = ((A ++ ((H ++ Q) ++ K)) ++ new) ++ <<>>
      <4>1. /\ A \in Seq(Int) /\ H \in Seq(Int) /\ Q \in Seq(Int) /\ K \in Seq(Int)
            /\ new \in Seq(Int)
        BY <1>2, <1>3
      <4> HIDE DEF A, H, Q, K, new
      <4> QED BY <4>1, Regrouped
    <3>4. Everything' = (Everything ++ new) ++ <<>>
      BY <1>2, <2>2, <3>1, <3>2, <3>3, Zenon
    <3>5. Everything = Everything ++ <<>>
      BY <1>2, Concatenated, Zenon
    <3> QED BY <1>2, <1>3, <2>1, <3>4, <3>5
  <2> QED BY <2>4, <2>5, <2>6
<1>8. CASE UtilityReply
  <2>1. /\ alive /\ emitted' = emitted + 1 /\ emitted + 1 \in Batches
        /\ queue' = Append(queue, Batch(emitted + 1, 1))
        /\ K = <<>> /\ K' = <<>> /\ UNCHANGED <<wire, item, counted>>
    BY <1>5, <1>8, Sets DEF UtilityReply, threadVars, TypeOK
  <2>2. Q' = Q ++ new /\ A' = A
    BY <1>q, <2>1 DEF Ids
  <2> QED BY <1>e, <1>h, <2>1, <2>2
<1>9. CASE Die
  <2>1. alive /\ UNCHANGED <<emitted, wire, item, counted, commit>>
        /\ queue' = Append(queue, Batch(0, 1))
    BY <1>9 DEF Die, threadVars
  <2>2. Q' = Q
    <3>1. Batch(0, 1) \in Item /\ Batch(0, 1).id = 0
      BY Sets
    <3>2. \A i \in DOMAIN queue : queue[i].id # 0
      BY <1>4, <2>1 DEF SentinelIsLast
    <3>3. Queued(Append(queue, Batch(0, 1))) = Queued(queue)
      BY <1>3, <3>1, <3>2, QueuedAppend DEF ++
    <3> QED BY <2>1, <3>3 DEF Queued, Ids
  <2>3. A' = A
    BY <2>1 DEF Ids
  <2> QED BY <1>h, <1>u, <2>1, <2>2, <2>3
<1>10. CASE EndCommit
  <2>1. alive /\ K' = <<>> /\ UNCHANGED <<emitted, wire, item, counted>>
    BY <1>4, <1>5, <1>10 DEF EndCommit, threadVars, SentinelIsLast
  <2>2. CASE K = <<>> /\ UNCHANGED queue
    BY <1>v, <2>1, <2>2
  <2>3. CASE K # <<>> /\ Enqueue(Batch(Head(K), 1))
    <3> DEFINE o == <<Head(K)>>
               t == Tail(K)
    <3>1. /\ Head(K) \in Batches /\ Head(K) \in Int /\ o \in Seq(Int) /\ t \in Seq(Int)
          /\ K = o ++ t /\ Len(t) = Len(K) - 1
      <4>1. K \in Seq(Batches)
        BY Launches
      <4>2. Head(K) \in Batches /\ Tail(K) \in Seq(Int) /\ Len(Tail(K)) = Len(K) - 1
        BY <1>2, <2>3, <4>1, HeadTailProperties
      <4>3. Head(K) \in Int /\ <<Head(K)>> \in Seq(Int)
        BY <4>2, Sets, Single
      <4>4. K = <<Head(K)>> ++ Tail(K)
        BY <1>2, <2>3 DEF ++
      <4> QED BY <4>2, <4>3, <4>4
    <3>2. Q' = Q ++ o
      BY <1>q, <2>1, <2>3, <3>1 DEF Enqueue
    <3>3. A' = A
      BY <2>1 DEF Ids
    <3> HIDE DEF o, t
    <3>4. A ++ ((H ++ Q) ++ (o ++ t)) = (A ++ ((H ++ (Q ++ o)) ++ <<>>)) ++ t
      BY <1>2, <3>1, Regrouped
    <3>5. Everything' = A ++ ((H ++ (Q ++ o)) ++ <<>>)
      BY <1>2, <1>h, <2>1, <3>2, <3>3, Zenon
    <3>6. Everything = Everything' ++ t
      BY <1>2, <3>1, <3>4, <3>5, Zenon
    <3>7. CASE MaxLaunches > 1
      BY <2>1, <3>1, <3>6, <3>7
    <3>8. CASE ~(MaxLaunches > 1)
      <4>1. Len(K) \in Nat /\ Len(K) > 0 /\ commit.left \in Nat /\ MaxLaunches \in Nat
            /\ commit.left + Len(K) <= MaxLaunches
        BY <1>2, <1>4, <2>3, EmptySeq, Launches DEF Kept
      <4>2. Len(t) = 0
        BY <3>1, <3>8, <4>1
      <4>3. t = <<>>
        <5>1. \A s \in Seq(Int) : Len(s) = 0 => s = <<>>
          BY EmptySeq
        <5> QED BY <3>1, <4>2, <5>1, Zenon
      <4>4. Everything' \in Seq(Int)
        BY <1>1 DEF Parts
      <4>5. Everything' = Everything
        BY <3>6, <4>3, <4>4, Concatenated, Zenon
      <4> QED BY <2>1, <4>5
    <3> QED BY <3>7, <3>8
  <2> QED BY <1>10, <2>2, <2>3 DEF EndCommit
<1>11. CASE Take
  <2>1. /\ item = NoItem /\ queue # <<>> /\ item' = Head(queue) /\ queue' = Tail(queue)
        /\ UNCHANGED <<emitted, wire, commit, counted>>
    BY <1>11 DEF Take, engineVars
  <2>2. ~Sending /\ H = <<>> /\ ~counted
    BY <1>3, <1>4, <2>1 DEF Sending, HeldIds, HeldItem
  <2>3. \A i \in DOMAIN queue : queue[i].id = 0 => i = Len(queue)
    BY <1>4 DEF SentinelIsLast
  <2>4. /\ Head(queue) \in Item
        /\ Head(queue).id = 0 => Queued(queue) = <<>> /\ Queued(Tail(queue)) = <<>>
        /\ Head(queue).id # 0 => Queued(queue) = <<Head(queue).id>> ++ Queued(Tail(queue))
    BY <1>3, <2>1, <2>3, QueuedTail DEF ++
  <2>5. Queued(queue)' = Queued(Tail(queue)) /\ Queued(Tail(queue)) \in Seq(Int) /\ A' = A
    <3>1. Queued(queue)' = Queued(Tail(queue)) /\ A' = A
      BY <2>1 DEF Queued, Ids
    <3> QED BY <1>1, <3>1 DEF Parts
  <2>6. CASE Head(queue).id = 0
    <3>1. H' = <<>>
      BY <2>1, <2>6 DEF HeldIds, Sending
    <3> QED BY <1>u, <2>1, <2>2, <2>4, <2>5, <2>6, <3>1
  <2>7. CASE Head(queue).id # 0
    <3> DEFINE o == <<Head(queue).id>>
    <3>1. Head(queue).id > 0 /\ Head(queue).id \in Int
      BY <2>4, <2>7, Sets
    <3>2. H' = o /\ o \in Seq(Int)
      BY <2>1, <2>2, <3>1, Single DEF HeldIds, Sending
    <3>3. Q = o ++ Q'
      BY <2>4, <2>5, <2>7
    <3>4. Q' \in Seq(Int)
      BY <2>5
    <3> HIDE DEF o
    <3>5. <<>> ++ (o ++ Q') = o ++ Q'
      BY <1>3, <3>2, <3>4, Regrouped
    <3>6. H ++ Q = H' ++ Q'
      BY <2>2, <3>2, <3>3, <3>5
    <3>7. Everything' = Everything
      BY <1>2, <2>1, <2>5, <3>6, Zenon
    <3> QED BY <2>1, <3>7
  <2> QED BY <2>6, <2>7
<1>12. CASE SendOverShm \/ SendOverZmq
  <2>1. /\ Sending /\ counted' = TRUE /\ UNCHANGED <<emitted, commit, queue, item>>
        /\ \E v \in {"shm", "zmq"} : wire' = Append(wire, [id |-> item.id, via |-> v])
    BY <1>12 DEF SendOverShm, SendOverZmq, PublishShm, SendZmq, engineVars
  <2> DEFINE o == <<item.id>>
  <2>2. item.id \in Batches /\ o \in Seq(Int)
    <3>1. item.id > 0 /\ item \in Item
      BY <1>3, <2>1 DEF Sending, TypeOK
    <3> QED BY <1>3, <3>1, Sets, Single
  <2>3. A' = A ++ o
    BY <1>w, <2>1, <2>2
  <2>4. H = o /\ H' = <<>> /\ Q' = Q
    BY <2>1 DEF HeldIds, Sending, Queued, Ids
  <2> HIDE DEF o
  <2>5. (A ++ o) ++ ((<<>> ++ Q) ++ K) = A ++ ((o ++ Q) ++ K)
    <3>1. A \in Seq(Int) /\ Q \in Seq(Int) /\ K \in Seq(Int)
      BY <1>2
    <3> HIDE DEF A, Q, K
    <3> QED BY <3>1, <2>2, Regrouped
  <2>6. Everything' = Everything
    BY <1>2, <2>1, <2>3, <2>4, <2>5, Zenon
  <2> QED BY <2>1, <2>6
<1>13. CASE Count
  <2>1. counted /\ item' = NoItem /\ counted' = FALSE /\ UNCHANGED <<emitted, wire, queue, commit>>
    BY <1>13 DEF Count, engineVars
  <2>2. H = <<>> /\ H' = <<>> /\ A' = A /\ Q' = Q
    BY <1>3, <2>1 DEF HeldIds, Sending, Ids, Queued
  <2> QED BY <1>u, <2>1, <2>2
<1>14. CASE SendDead
  <2>1. item.id = 0 /\ item' = NoItem /\ UNCHANGED <<emitted, wire, queue, commit>>
    BY <1>14 DEF SendDead, engineVars
  <2>2. H = <<>> /\ H' = <<>> /\ A' = A /\ Q' = Q
    BY <1>3, <2>1 DEF HeldIds, Sending, Ids, Queued
  <2> QED BY <1>u, <2>1, <2>2
<1>15. CASE BeginCommit
  <2>1. K' = <<>> /\ K = <<>> /\ UNCHANGED <<emitted, wire, item, counted, queue>>
    BY <1>5, <1>15 DEF BeginCommit, threadVars
  <2> QED BY <1>v, <2>1
<1>16. CASE UNCHANGED <<emitted, wire, item, counted, queue, commit>>
  BY <1>v, <1>16
<1> QED
  BY <1>6, <1>7, <1>8, <1>9, <1>10, <1>11, <1>12, <1>13, <1>14, <1>15, <1>16
     DEF Next, Engine, OutputThread, FrontEnd, vars, Schedule, OpenChannel, Subscribe,
         ReaderFails, ReadShm, ReadZmq, engineVars, threadVars, frontVars

LEMMA EverySetup == Spec => [](TypeOK /\ NothingTwice /\ NothingLost)
<1> DEFINE Inv == TypeOK /\ Room /\ Sentinel /\ NothingTwice /\ NothingLost
<1>1. Init => Inv
  <2> SUFFICES ASSUME Init PROVE Inv
    OBVIOUS
  <2>1. TypeOK /\ Room /\ MaxLaunches \in Nat
    BY TypeInit, Launches
  <2>2. /\ wire = <<>> /\ item = NoItem /\ ~counted /\ queue = <<>> /\ alive /\ emitted = 0
        /\ commit.left = 0 /\ commit.kept = <<>> /\ NoItem.id = -1 /\ ~(-1 > Dead)
    BY DEF Init, NoCommit, NoItem, Batch, Dead
  <2>3. Sentinel
    <3>1. DOMAIN queue = {} /\ Len(commit.kept) = 0
      BY <2>2
    <3> QED BY <2>1, <2>2, <3>1 DEF Sentinel, SentinelIsLast, HeldItem, Kept, Dead
  <2>4. Ids(wire) = <<>> /\ HeldIds = <<>> /\ Queued(queue) = <<>>
    BY <2>2 DEF Ids, HeldIds, Sending, Queued
  <2>5. Everything = <<>>
    <3>1. Everything = <<>> ++ ((<<>> ++ <<>>) ++ <<>>)
      BY <2>1, <2>2, <2>4, PartsNow DEF Parts
    <3>2. <<>> ++ <<>> = <<>>
      BY Concatenated, Zenon
    <3> QED BY <3>1, <3>2
  <2>6. ToSet(Everything) = {} /\ Len(Everything) = 0 /\ IsInjective(Everything)
    BY <2>5 DEF ToSet, IsInjective
  <2> QED BY <2>1, <2>2, <2>3, <2>6 DEF NothingTwice, NothingLost
<1>2. Inv /\ [Next]_vars => Inv'
  <2> SUFFICES ASSUME TypeOK, Room, Sentinel, NothingTwice, NothingLost, [Next]_vars PROVE Inv'
    OBVIOUS
  <2>1. TypeOK' /\ Room' /\ Sentinel' /\ Parts /\ Parts'
    BY TypeStep, SentinelStep, PartsNow, PartsNext
  <2>2. MaxLaunches' = MaxLaunches /\ MaxLaunches \in Nat /\ emitted \in Nat
    <3>1. setup' = setup
      BY DEF Next, Engine, OutputThread, FrontEnd, vars, Schedule, UpdateDecide, BeginCommit,
         Launch, EndCommit, UtilityReply, Die, OpenChannel, Take, SendOverShm, SendOverZmq,
         Count, SendDead, Subscribe, ReaderFails, ReadShm, ReadZmq
    <3> QED BY <3>1, Launches, Sets DEF TypeOK, MaxLaunches
  <2>3. NothingTwice' /\ NothingLost'
    <3>1. CASE emitted' = emitted /\ Everything' = Everything
      BY <2>2, <3>1 DEF NothingTwice, NothingLost
    <3>2. ASSUME emitted' = emitted + 1, NEW s \in Seq(Int), NEW t \in Seq(Int),
                 Everything = s ++ t, Everything' = (s ++ <<emitted + 1>>) ++ t
          PROVE  NothingTwice' /\ NothingLost'
      <4>1. /\ Len(Everything') = Len(Everything) + 1
            /\ ToSet(Everything') = ToSet(Everything) \cup {emitted + 1}
            /\ emitted + 1 \notin ToSet(Everything) /\ IsInjective(Everything)
                 => IsInjective(Everything')
        BY <2>2, <3>2, Inserted DEF ++
      <4>2. emitted + 1 \notin ToSet(Everything)
        BY <2>2 DEF NothingTwice
      <4>3. 1 .. emitted' = 1 .. emitted \cup {emitted + 1}
        BY <2>2, <3>2
      <4> QED BY <2>2, <3>2, <4>1, <4>2, <4>3 DEF NothingTwice, NothingLost
    <3>3. ASSUME emitted' = emitted, MaxLaunches > 1, NEW t \in Seq(Int),
                 Everything = Everything' ++ t
          PROVE  NothingTwice' /\ NothingLost'
      <4>1. Everything' \in Seq(Int)
        BY <2>1 DEF Parts
      <4>2. /\ ToSet(Everything) = ToSet(Everything') \cup ToSet(t)
            /\ IsInjective(Everything) => IsInjective(Everything')
        BY <3>3, <4>1, Joined DEF ++
      <4> QED BY <2>2, <3>3, <4>2 DEF NothingTwice, NothingLost
    <3> QED BY <3>1, <3>2, <3>3, Moves
  <2> QED BY <2>1, <2>3
<1>3. Inv => TypeOK /\ NothingTwice /\ NothingLost
  OBVIOUS
<1> HIDE DEF Inv
<1> QED BY <1>1, <1>2, <1>3, PTL DEF Spec

\* NothingTwice: in every set-up, also where an inline publish overtakes what
\* is queued, no batch is sent twice, or sent and still queued or kept: the
\* crate, the commit and the output thread never have the same batch
\* (rust_sched.py, runner.rs, shm_ipc.py).
THEOREM PathNeverDoubles == Spec => []NothingTwice
  BY EverySetup, PTL

\* AllAccountedFor: with at most one launch a step no batch is lost inside the
\* engine process, whatever publishes inline and whoever replies to utility
\* calls; the order of the wire is not claimed.
THEOREM PathLosesNothing ==
  ASSUME \A s \in Setups : s.launches <= 1
  PROVE  Spec => []AllAccountedFor
<1>1. TypeOK /\ NothingLost => AllAccountedFor
  <2> SUFFICES ASSUME TypeOK, NothingLost PROVE AllAccountedFor
    OBVIOUS
  <2>1. MaxLaunches <= 1
    BY DEF TypeOK, MaxLaunches
  <2>2. ToSet(Everything) = 1 .. emitted /\ Len(Everything) = emitted
    BY <2>1 DEF NothingLost
  <2>3. Ids(wire) \in Seq(Int) /\ Unsent \in Seq(Int) /\ Len(Ids(wire)) = Len(wire)
    <3>1. wire \in Seq(Hop) /\ \A e \in Hop : e.id \in Int
      BY Sets DEF TypeOK, Hop
    <3> QED BY <3>1, PartsNow, IdsIs DEF Parts
  <2>4. /\ Len(Everything) = Len(Ids(wire)) + Len(Unsent)
        /\ ToSet(Everything) = ToSet(Ids(wire)) \cup ToSet(Unsent)
    BY <2>3, Joined DEF Everything
  <2> QED BY <2>2, <2>3, <2>4 DEF AllAccountedFor
<1> QED BY <1>1, EverySetup, PTL

==============================================================================
