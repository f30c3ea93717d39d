--------------------------- MODULE RequestChannel ---------------------------
(***************************************************************************)
(* The front end -> engine request path: ShmInput and InputSink of the     *)
(* front end's patch, the reader thread of vtl/patches/shm_ipc.py and the  *)
(* crate's subscriber (input.rs).                                          *)
(*                                                                         *)
(*   front end      one task per message; it looks at the live flag,       *)
(*                  publishes, notifies, or clears the flag and uses ZMQ   *)
(*   shared-memory thread, ZMQ thread                                      *)
(*                  each takes records off its transport and dispatches:   *)
(*                  ADD to input_queue, ABORT to aborts_queue and then to  *)
(*                  input_queue                                            *)
(*   engine thread  takes input_queue in order and, between two of its     *)
(*                  phases, all of aborts_queue                            *)
(*                                                                         *)
(* An id is used for one request.  The abort of a request is sent once its *)
(* ADD has been (the stream that is dropped exists from then on).          *)
(***************************************************************************)
EXTENDS Naturals, Sequences, SequencesExt, FiniteSets

CONSTANTS Req,
          Readers,    \* values of rustSub to consider
          BufferSize  \* SUBSCRIBER_MAX_BUFFER_SIZE

ASSUME RequestAssumption == Readers \subseteq BOOLEAN /\ BufferSize \in Nat \ {0}

Add(x) == [kind |-> "add", id |-> x]
Abort(x) == [kind |-> "abort", id |-> x]
Msg == [kind : {"add", "abort"}, id : Req]
Threads == {"shm", "zmq"}

VARIABLES
  rustSub,   \* VTL_SHM_IPC_RUST_SUB: the crate's subscriber, not Python's
  task,      \* of a message: "none", "checked", "notify", "zmq" or "sent"
  live,      \* InputSink's flag
  via,       \* history: the transport a message was handed to, or "none"
  ring,      \* unread records of the subscriber
  signal,    \* the listener's latched notification
  reader,    \* the shm thread: "starting", "draining", "parked" or "dead"
  stranded,  \* history: records unread when the subscriber was dropped
  zmq,       \* unread messages of the stock socket
  held,      \* of a thread: the aborts it has still to put on input_queue
  aborts, input,      \* aborts_queue, input_queue
  taken,     \* history: what the engine thread took off input_queue
  rejected,  \* answered by _handle_request_preproc_error
  scheduled  \* requests the scheduler has

frontVars == <<task, live, via>>
readerVars == <<signal, reader, stranded>>
queueVars == <<held, aborts, input, rejected>>
engineVars == <<taken, scheduled>>
vars == <<rustSub, frontVars, ring, readerVars, zmq, queueVars, engineVars>>

Init ==
  /\ rustSub \in Readers
  /\ task = [m \in Msg |-> "none"] /\ live = TRUE
  /\ via = [m \in Msg |-> "none"]
  /\ ring = << >> /\ signal = FALSE /\ reader = "starting" /\ stranded = {}
  /\ zmq = << >> /\ held = [t \in Threads |-> << >>]
  /\ aborts = << >> /\ input = << >> /\ rejected = {}
  /\ taken = << >> /\ scheduled = {}

------------------------------------------------------------------------------
(* The front end.                                                          *)

\* try_send_shm begins with a look at the live flag.
Check(m) ==
  /\ task[m] = "none"
  /\ m.kind = "abort" => task[Add(m.id)] = "sent"
  /\ task' = [task EXCEPT ![m] = IF live THEN "checked" ELSE "zmq"]
  /\ UNCHANGED <<rustSub, live, via, ring, readerVars, zmq, queueVars, engineVars>>

\* A send that reached one receiver.
Deliverable == reader \in {"draining", "parked"} /\ Len(ring) < BufferSize

\* Mutant: a published record goes over ZMQ as well.
PublishAndFallBack(m) ==
  /\ task[m] = "checked"
  /\ IF Deliverable THEN ring' = Append(ring, m) ELSE UNCHANGED ring
  /\ live' = FALSE
  /\ task' = [task EXCEPT ![m] = "zmq"]
  /\ via' = [via EXCEPT ![m] = "shm"]
  /\ UNCHANGED <<rustSub, readerVars, zmq, queueVars, engineVars>>

\* ShmInput::send, and what try_send_shm makes of its answer.
Publish(m) ==
  /\ task[m] = "checked"
  /\ IF Deliverable
     THEN /\ ring' = Append(ring, m)
          /\ task' = [task EXCEPT ![m] = "notify"]
          /\ via' = [via EXCEPT ![m] = "shm"]
          /\ UNCHANGED live
     ELSE /\ live' = FALSE
          /\ task' = [task EXCEPT ![m] = "zmq"]
          /\ UNCHANGED <<ring, via>>
  /\ UNCHANGED <<rustSub, readerVars, zmq, queueVars, engineVars>>

\* The notification is latched by the listener; several make one.
Notify(m) ==
  /\ task[m] = "notify"
  /\ task' = [task EXCEPT ![m] = "sent"]
  /\ signal' = TRUE
  /\ UNCHANGED <<rustSub, live, via, ring, reader, stranded, zmq, queueVars, engineVars>>

SendZmq(m) ==
  /\ task[m] = "zmq"
  /\ zmq' = Append(zmq, m)
  /\ task' = [task EXCEPT ![m] = "sent"]
  /\ via' = [via EXCEPT ![m] = "zmq"]
  /\ UNCHANGED <<rustSub, live, ring, readerVars, queueVars, engineVars>>

------------------------------------------------------------------------------
(* The two input threads.                                                  *)

\* The Python loop waits before it looks, the crate's looks first.
Start ==
  /\ reader = "starting"
  /\ reader' = IF rustSub THEN "draining" ELSE "parked"
  /\ UNCHANGED <<rustSub, frontVars, ring, signal, stranded, zmq, queueVars, engineVars>>

\* Mutant: an abort only goes to aborts_queue.
DispatchEagerly(t, m) ==
  /\ held[t] = << >>
  /\ CASE m.kind = "abort" -> /\ aborts' = Append(aborts, m)
                              /\ UNCHANGED <<held, input, rejected>>
       [] m.kind = "add" ->
            \/ /\ input' = Append(input, m)
               /\ UNCHANGED <<held, aborts, rejected>>
            \/ /\ rejected' = rejected \cup {m}
               /\ UNCHANGED <<held, aborts, input>>

\* dispatch(): an ADD is preprocessed, and queued or answered with an error;
\* an abort goes to aborts_queue first, and is held for input_queue.
Dispatch(t, m) ==
  /\ held[t] = << >>
  /\ \/ /\ m.kind = "abort"
        /\ aborts' = Append(aborts, m)
        /\ held' = [held EXCEPT ![t] = <<m>>]
        /\ UNCHANGED <<input, rejected>>
     \/ /\ m.kind = "add"
        /\ input' = Append(input, m)
        /\ UNCHANGED <<held, aborts, rejected>>
     \/ /\ m.kind = "add"
        /\ rejected' = rejected \cup {m}
        /\ UNCHANGED <<held, aborts, input>>

QueueAbort(t) ==
  /\ held[t] # << >>
  /\ input' = input \o held[t]
  /\ held' = [held EXCEPT ![t] = << >>]
  /\ UNCHANGED <<rustSub, frontVars, ring, readerVars, zmq, aborts, rejected, engineVars>>

\* Mutant: the thread waits for a notification before every record.
AfterRecord == "parked"

\* The thread drains before it waits again.
StillDraining == "draining"

Receive ==
  /\ reader = "draining" /\ ring # << >>
  /\ Dispatch("shm", Head(ring))
  /\ ring' = Tail(ring)
  /\ reader' = StillDraining
  /\ UNCHANGED <<rustSub, frontVars, signal, stranded, zmq, engineVars>>

\* blocking_wait_one, when nothing is left, and its return.
Wait ==
  /\ reader = "draining" /\ ring = << >> /\ held["shm"] = << >>
  /\ reader' = "parked"
  /\ UNCHANGED <<rustSub, frontVars, ring, signal, stranded, zmq, queueVars, engineVars>>

Wake ==
  /\ reader = "parked" /\ signal
  /\ signal' = FALSE /\ reader' = "draining"
  /\ UNCHANGED <<rustSub, frontVars, ring, stranded, zmq, queueVars, engineVars>>

\* The channel fails, or never opens: the subscriber goes with what it holds.
Die ==
  /\ reader # "dead" /\ held["shm"] = << >>
  /\ reader' = "dead"
  /\ stranded' = stranded \cup Range(ring)
  /\ ring' = << >>
  /\ UNCHANGED <<rustSub, frontVars, signal, zmq, queueVars, engineVars>>

ReceiveZmq ==
  /\ zmq # << >>
  /\ Dispatch("zmq", Head(zmq))
  /\ zmq' = Tail(zmq)
  /\ UNCHANGED <<rustSub, frontVars, ring, readerVars, engineVars>>

------------------------------------------------------------------------------
(* The engine thread.  An abort of an unknown request is ignored.          *)

TakeInput ==
  /\ input # << >>
  /\ LET m == Head(input)
     IN  scheduled' = IF m.kind = "add" THEN scheduled \cup {m.id}
                                        ELSE scheduled \ {m.id}
  /\ taken' = Append(taken, Head(input))
  /\ input' = Tail(input)
  /\ UNCHANGED <<rustSub, frontVars, ring, readerVars, zmq, held, aborts, rejected>>

TakeAborts ==
  /\ aborts # << >>
  /\ scheduled' = scheduled \ {m.id : m \in Range(aborts)}
  /\ aborts' = << >>
  /\ UNCHANGED <<rustSub, frontVars, ring, readerVars, zmq, held, input, rejected, taken>>

\* A request comes to its own end.
Complete(x) ==
  /\ x \in scheduled
  /\ scheduled' = scheduled \ {x}
  /\ UNCHANGED <<rustSub, frontVars, ring, readerVars, zmq, queueVars, taken>>

------------------------------------------------------------------------------
FrontEnd(m) == Check(m) \/ Publish(m) \/ Notify(m) \/ SendZmq(m)
ShmThread == Start \/ Receive \/ QueueAbort("shm") \/ Wait \/ Wake
ZmqThread == ReceiveZmq \/ QueueAbort("zmq")

Next ==
  \/ \E m \in Msg : FrontEnd(m)
  \/ ShmThread \/ Die \/ ZmqThread
  \/ TakeInput \/ TakeAborts
  \/ \E x \in Req : Complete(x)

Spec == Init /\ [][Next]_vars

\* A task that has begun finishes, and the threads run.
FairSpec == /\ Spec
            /\ \A m \in Msg : WF_vars(Publish(m) \/ Notify(m) \/ SendZmq(m))
            /\ WF_vars(ShmThread) /\ WF_vars(ZmqThread) /\ WF_vars(TakeInput)

------------------------------------------------------------------------------
TypeOK ==
  /\ rustSub \in Readers
  /\ task \in [Msg -> {"none", "checked", "notify", "zmq", "sent"}]
  /\ live \in BOOLEAN /\ signal \in BOOLEAN
  /\ via \in [Msg -> {"none", "shm", "zmq"}]
  /\ ring \in Seq(Msg) /\ Len(ring) <= BufferSize
  /\ reader \in {"starting", "draining", "parked", "dead"}
  /\ stranded \subseteq Msg /\ rejected \subseteq Msg
  /\ zmq \in Seq(Msg) /\ aborts \in Seq(Msg) /\ input \in Seq(Msg)
  /\ taken \in Seq(Msg) /\ held \in [Threads -> Seq(Msg)]
  /\ scheduled \subseteq Req

\* A message that was handed to a transport and is not under way any more.
Gone(m) ==
  /\ via[m] # "none" /\ m \notin stranded
  /\ \A q \in {ring, zmq, held["shm"], held["zmq"], aborts, input} :
       m \notin Range(q)

\* Once the abort of a request has gone through, over the transport its ADD
\* took, the request does not run, however far behind the ADD was.
AbortEndsRequest ==
  \A x \in Req :
    Gone(Abort(x)) /\ via[Abort(x)] = via[Add(x)] => x \notin scheduled

Count(q, m) == Cardinality({i \in DOMAIN q : q[i] = m})
Once(S, m) == IF m \in S THEN 1 ELSE 0

\* Every message handed to a transport is in exactly one place, once: unread,
\* held, queued, taken, answered with an error, or lost with the subscriber.
\* None is dropped on the way and none is handled twice.
EachInOnePlace ==
  \A m \in Msg :
    Count(ring, m) + Count(zmq, m) + Count(held["shm"], m) + Count(held["zmq"], m)
      + Count(input, m) + Count(taken, m) + Once(stranded, m) + Once(rejected, m)
    = IF via[m] = "none" THEN 0 ELSE 1

\* Neither transport, nor the change from one to the other, loses or doubles
\* a message.
Accounted == TypeOK /\ EachInOnePlace

\* An ADD that was sent is taken by the engine or answered with an error,
\* unless the subscriber went with it unread: no notification is missed, and
\* after the thread's death requests go on over ZMQ.
EveryAddHandled ==
  \A x \in Req :
    (task[Add(x)] # "none") ~>
      (Add(x) \in Range(taken) \cup rejected \cup stranded)
=============================================================================
