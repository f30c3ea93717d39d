--------------------------- MODULE OutputChannel ---------------------------
(***************************************************************************)
(* The engine -> front end output path of vtl/patches/shm_ipc.py with the  *)
(* inline publish of rust_sched.py and the crate (python.rs, out.rs).      *)
(*                                                                         *)
(* Three parties run concurrently:                                         *)
(*   engine thread  schedules step k+1, then updates step k; a batch is    *)
(*                  published inline by the crate when that is safe, and   *)
(*                  goes to output_queue otherwise                         *)
(*   output thread  takes output_queue and sends each item over shared     *)
(*                  memory, or over ZMQ when that does not work            *)
(*   front end      one reader per transport, into one channel             *)
(*                                                                         *)
(* A batch is its number in the order of emission.                         *)
(***************************************************************************)
EXTENDS Integers, Sequences, SequencesExt

CONSTANTS Setups,      \* the settings to consider
          BufferSize,  \* SUBSCRIBER_MAX_BUFFER_SIZE
          MaxBatches   \* bound: batches emitted

\* inline     VTL_SHM_IPC_RUST_PUB: the crate owns the publisher
\* launches   most bursts of one runner step, 0 without a runner
\* utilities  replies to utility calls also use output_queue
Setup == [inline : BOOLEAN, launches : Nat, utilities : BOOLEAN]

ASSUME ChannelAssumption ==
  /\ Setups \subseteq Setup /\ Setups # {}
  /\ {BufferSize, MaxBatches} \subseteq Nat \ {0}

Depth == 2        \* batch queue: schedule(k+1) runs before update(k)
Dead == 0         \* ENGINE_CORE_DEAD

VARIABLES
  setup,        \* the settings of this process
  alive,        \* the engine thread runs
  emitted,      \* batches emitted so far
  promises,     \* scheduled steps not yet updated, oldest first
  commit,       \* the runner commit under way: launches left, records kept
  enqueued, published,  \* shm_ipc.PUB
  queue,        \* output_queue
  item,         \* what the output thread holds, NoItem between two items
  counted,      \* the item has been sent; only published is still to be bumped
  opened,       \* the crate's channel is open; nothing closes it
  shm,          \* the output thread's publisher: "unset", "live" or "gone"
  delivered,    \* its shm_delivered
  subscriber,   \* the front end's shm reader: "none", "up" or "down"
  ring, zmq,    \* unread on the two transports
  wire,         \* history: every batch sent, with its transport
  received      \* what the front end's channel was given

engineVars == <<alive, emitted, promises, commit, enqueued>>
threadVars == <<item, counted, published, opened, shm, delivered>>
frontVars == <<subscriber, received>>
vars == <<setup, engineVars, queue, threadVars, frontVars, ring, zmq, wire>>

\* An item of output_queue. A record of the crate is one frame; a msgpack
\* object with tensors outside the message has more (2 stands for them).
Batch(id, frames) == [id |-> id, frames |-> frames]
NoItem == Batch(-1, 1)

NoCommit == [left |-> 0, publish |-> FALSE, kept |-> <<>>]
NoPromise == [publish |-> FALSE, steps |-> 0]

Inline == setup.inline
MaxLaunches == setup.launches
Utilities == setup.utilities

Init ==
  /\ setup \in Setups
  /\ alive = TRUE /\ emitted = 0 /\ promises = <<>> /\ commit = NoCommit
  /\ enqueued = 0 /\ published = 0
  /\ queue = <<>> /\ item = NoItem /\ counted = FALSE
  /\ opened = FALSE /\ shm = "unset" /\ delivered = FALSE
  /\ subscriber = "none" /\ ring = <<>> /\ zmq = <<>>
  /\ wire = <<>> /\ received = <<>>

\* OutChannel::send: a loan and a send that reached one receiver. No subscriber
\* and a full buffer look the same.
Deliverable == subscriber = "up" /\ Len(ring) < BufferSize

PublishShm(id) ==
  /\ ring' = Append(ring, id)
  /\ wire' = Append(wire, [id |-> id, via |-> "shm"])
  /\ UNCHANGED zmq

SendZmq(id) ==
  /\ zmq' = Append(zmq, id)
  /\ wire' = Append(wire, [id |-> id, via |-> "zmq"])
  /\ UNCHANGED ring

-----------------------------------------------------------------------------
(* The engine thread.                                                      *)

\* Mutant: the item the output thread holds is not counted as backlog.
PublishReadyUnlessQueued == Inline /\ opened /\ queue = <<>>

\* out_publish_ready
PublishReady == Inline /\ opened /\ enqueued = published

\* schedule(): a step the runner may take carries the answer of
\* out_publish_ready from now (runner_stash); more than one launch needs it.
Schedule ==
  /\ alive /\ commit = NoCommit /\ Len(promises) < Depth
  /\ \E steps \in 0 .. MaxLaunches :
       /\ steps > 1 => PublishReady
       /\ promises' = Append(promises,
            IF steps = 0 THEN NoPromise
                         ELSE [publish |-> PublishReady, steps |-> steps])
  /\ UNCHANGED <<setup, alive, emitted, commit, enqueued, queue, threadVars, frontVars,
                 ring, zmq, wire>>

Enqueue(i) == queue' = Append(queue, i) /\ enqueued' = enqueued + 1

\* update_from_output through decide(): the gate is read now, the record is
\* published with the crate's lock held, or the step's one item is queued.
\* A batch that does not pack is an object, of one frame or several.
UpdateDecide ==
  /\ alive /\ commit = NoCommit /\ promises # <<>> /\ Head(promises) = NoPromise
  /\ emitted < MaxBatches
  /\ emitted' = emitted + 1
  /\ promises' = Tail(promises)
  /\ \/ /\ PublishReady /\ Deliverable
        /\ PublishShm(emitted + 1)
        /\ UNCHANGED <<queue, enqueued>>
     \/ /\ \E frames \in {1, 2} : Enqueue(Batch(emitted + 1, frames))
        /\ UNCHANGED <<ring, zmq, wire>>
  /\ UNCHANGED <<setup, alive, commit, threadVars, frontVars>>

\* update_from_output through runner_commit.
BeginCommit ==
  /\ alive /\ commit = NoCommit /\ promises # <<>> /\ Head(promises) # NoPromise
  /\ emitted + Head(promises).steps <= MaxBatches
  /\ commit' = [ left |-> Head(promises).steps,
                 publish |-> Head(promises).publish, kept |-> <<>> ]
  /\ promises' = Tail(promises)
  /\ UNCHANGED <<setup, alive, emitted, enqueued, queue, threadVars, frontVars,
                 ring, zmq, wire>>

\* One turn of the loop of Runner::commit: pack a launch, publish its record,
\* keep it when that was not asked for or not delivered. Once every request
\* has stopped the launches left are skipped.
Launch ==
  /\ alive /\ commit.left > 0
  /\ emitted' = emitted + 1
  /\ \E left \in {0, commit.left - 1} :
       IF commit.publish /\ Deliverable
       THEN /\ PublishShm(emitted + 1)
            /\ commit' = [commit EXCEPT !.left = left]
       ELSE /\ commit' = [commit EXCEPT !.left = left,
                                        !.kept = Append(@, emitted + 1)]
            /\ UNCHANGED <<ring, zmq, wire>>
  /\ UNCHANGED <<setup, alive, promises, enqueued, queue, threadVars, frontVars>>

\* runner_consume and r9_apply: one record of the step can be returned.
EndCommit ==
  /\ commit # NoCommit /\ commit.left = 0
  /\ IF commit.kept = <<>> THEN UNCHANGED <<queue, enqueued>>
                           ELSE Enqueue(Batch(Head(commit.kept), 1))
  /\ commit' = NoCommit
  /\ UNCHANGED <<setup, alive, emitted, promises, threadVars, frontVars, ring, zmq, wire>>

\* The engine's reply to a utility call goes straight to output_queue, past
\* update_from_output and its bump_enqueued.
UtilityReply ==
  /\ Utilities /\ alive /\ commit = NoCommit /\ emitted < MaxBatches
  /\ emitted' = emitted + 1
  /\ queue' = Append(queue, Batch(emitted + 1, 1))
  /\ UNCHANGED <<setup, alive, promises, commit, enqueued, threadVars, frontVars,
                 ring, zmq, wire>>

\* The engine core dies between two steps and says so through the queue.
Die ==
  /\ alive /\ commit = NoCommit
  /\ alive' = FALSE
  /\ queue' = Append(queue, Batch(Dead, 1))
  /\ UNCHANGED <<setup, emitted, promises, commit, enqueued, threadVars, frontVars,
                 ring, zmq, wire>>

-----------------------------------------------------------------------------
(* The output thread: _process_output_sockets.                             *)

\* The channel is opened by the crate when Inline, by Python when the crate
\* cannot, or not at all.
OpenChannel ==
  /\ shm = "unset"
  /\ shm' \in {"live", "gone"}
  /\ opened' \in IF Inline /\ shm' = "live" THEN BOOLEAN ELSE {FALSE}
  /\ UNCHANGED <<setup, engineVars, queue, item, counted, published, delivered,
                 frontVars, ring, zmq, wire>>

Take ==
  /\ shm # "unset" /\ item = NoItem /\ queue # <<>>
  /\ item' = Head(queue) /\ queue' = Tail(queue)
  /\ UNCHANGED <<setup, engineVars, counted, published, opened, shm, delivered,
                 frontVars, ring, zmq, wire>>

Sending == item.id > Dead /\ ~counted

SendOverShm ==
  /\ Sending /\ shm = "live" /\ item.frames = 1 /\ Deliverable
  /\ PublishShm(item.id)
  /\ delivered' = TRUE /\ counted' = TRUE
  /\ UNCHANGED <<setup, engineVars, queue, item, published, opened, shm, frontVars>>

\* Mutant: every batch tries shared memory again.
SendOverZmqUnlatched ==
  /\ Sending /\ ~(shm = "live" /\ item.frames = 1 /\ Deliverable)
  /\ SendZmq(item.id)
  /\ counted' = TRUE
  /\ UNCHANGED <<setup, engineVars, queue, item, published, opened, shm, delivered, frontVars>>

\* Mutant: the batch that trips the latch is dropped.
SendOverZmqDropsTripping ==
  /\ Sending /\ ~(shm = "live" /\ item.frames = 1 /\ Deliverable)
  /\ shm' = IF delivered THEN "gone" ELSE shm
  /\ IF shm = "live" /\ delivered THEN UNCHANGED <<ring, zmq, wire>> ELSE SendZmq(item.id)
  /\ counted' = TRUE
  /\ UNCHANGED <<setup, engineVars, queue, item, published, opened, delivered, frontVars>>

\* The batch goes over ZMQ when the publish failed, was not delivered or was
\* not tried. shm stays for the next batch only if it never delivered one.
SendOverZmq ==
  /\ Sending
  /\ \/ shm = "gone" /\ UNCHANGED shm
     \/ shm = "live" /\ shm' = "gone"  \* the publish raised
     \/ /\ shm = "live" /\ ~(item.frames = 1 /\ Deliverable)
        /\ shm' = IF delivered THEN "gone" ELSE "live"
  /\ SendZmq(item.id)
  /\ counted' = TRUE
  /\ UNCHANGED <<setup, engineVars, queue, item, published, opened, delivered, frontVars>>

\* PUB.published += 1, whatever put the item into the queue.
Count ==
  /\ counted
  /\ published' = published + 1
  /\ counted' = FALSE /\ item' = NoItem
  /\ UNCHANGED <<setup, engineVars, queue, opened, shm, delivered, frontVars, ring, zmq, wire>>

\* The DEAD record is additive: the sentinel always goes over ZMQ. The loop
\* ends with it, and nothing is queued behind it.
SendDead ==
  /\ item.id = Dead
  /\ ring' = IF shm = "live" /\ Deliverable THEN Append(ring, Dead) ELSE ring
  /\ zmq' = Append(zmq, Dead)
  /\ item' = NoItem
  /\ UNCHANGED <<setup, engineVars, queue, counted, published, opened, shm, delivered,
                 frontVars, wire>>

-----------------------------------------------------------------------------
(* The front end: one reader thread per transport.                         *)

Subscribe ==
  /\ subscriber = "none" /\ subscriber' = "up"
  /\ UNCHANGED <<setup, engineVars, queue, threadVars, received, ring, zmq, wire>>

\* run_output_loop returns, on an error or on a dropped receiver: what it has
\* not read is lost, and publishes find no subscriber from here on.
ReaderFails ==
  /\ subscriber = "up" /\ subscriber' = "down" /\ ring' = <<>>
  /\ UNCHANGED <<setup, engineVars, queue, threadVars, received, zmq, wire>>

ReadShm ==
  /\ subscriber = "up" /\ ring # <<>>
  /\ received' = Append(received, [id |-> Head(ring), via |-> "shm"])
  /\ ring' = Tail(ring)
  /\ subscriber' = IF Head(ring) = Dead THEN "down" ELSE "up"
  /\ UNCHANGED <<setup, engineVars, queue, threadVars, zmq, wire>>

\* Mutant: the ZMQ loop stops once the shared-memory reader is up.
ReadZmqUnlessShm ==
  /\ zmq # <<>> /\ subscriber # "up"
  /\ received' = Append(received, [id |-> Head(zmq), via |-> "zmq"])
  /\ zmq' = Tail(zmq)
  /\ UNCHANGED <<setup, engineVars, queue, threadVars, subscriber, ring, wire>>

ReadZmq ==
  /\ zmq # <<>>
  /\ received' = Append(received, [id |-> Head(zmq), via |-> "zmq"])
  /\ zmq' = Tail(zmq)
  /\ UNCHANGED <<setup, engineVars, queue, threadVars, subscriber, ring, wire>>

-----------------------------------------------------------------------------
Engine == Schedule \/ UpdateDecide \/ BeginCommit \/ Launch \/ EndCommit \/ UtilityReply \/ Die
OutputThread == OpenChannel \/ Take \/ SendOverShm \/ SendOverZmq \/ Count \/ SendDead
FrontEnd == Subscribe \/ ReaderFails \/ ReadShm \/ ReadZmq

Next == Engine \/ OutputThread \/ FrontEnd

Spec == Init /\ [][Next]_vars

\* Every thread runs on: the two readers and the output thread never wait for
\* each other (DiscardData, an unbounded ZMQ queue and mpsc channel), and the
\* loop of a commit ends. The engine owes no next step.
Fairness ==
  /\ WF_vars(OutputThread)
  /\ WF_vars(Launch) /\ WF_vars(EndCommit)
  /\ WF_vars(ReadShm) /\ WF_vars(ReadZmq)

FairSpec == Spec /\ Fairness

-----------------------------------------------------------------------------
(* Properties.                                                             *)

Ids(s) == [i \in DOMAIN s |-> s[i].id]

\* The batches of a queue; the sentinel is the last item, nothing follows it.
Queued(q) == IF q # <<>> /\ q[Len(q)].id = Dead THEN SubSeq(Ids(q), 1, Len(q) - 1)
             ELSE Ids(q)

\* Emitted and not sent: what the output thread holds, the queue, then the
\* records a commit has kept for it.
Unsent == (IF Sending THEN <<item.id>> ELSE <<>>) \o Queued(queue) \o commit.kept

Batches == 1 .. MaxBatches
Record == 0 .. MaxBatches     \* a batch or the sentinel
Item == [id: Record, frames: {1, 2}]
Promise == [publish: BOOLEAN, steps: 0 .. MaxLaunches]
Commit == [left: 0 .. MaxLaunches, publish: BOOLEAN, kept: Seq(Batches)]
Hop == [id: Batches, via: {"shm", "zmq"}]
Arrival == [id: Record, via: {"shm", "zmq"}]

TypeOK ==
  /\ setup \in Setups
  /\ alive \in BOOLEAN /\ counted \in BOOLEAN /\ opened \in BOOLEAN /\ delivered \in BOOLEAN
  /\ emitted \in Record
  /\ promises \in Seq(Promise)
  /\ commit \in Commit
  /\ enqueued \in Nat /\ published \in Nat
  /\ queue \in Seq(Item)
  /\ item \in Item \cup {NoItem}
  /\ shm \in {"unset", "live", "gone"}
  /\ subscriber \in {"none", "up", "down"}
  /\ ring \in Seq(Record) /\ zmq \in Seq(Record)
  /\ wire \in Seq(Hop)
  /\ received \in Seq(Arrival)

\* No batch overtakes another on its way out: an inline publish never passes
\* an item the output thread holds or has yet to take.
WireInOrder == \A i, j \in DOMAIN wire : i < j => wire[i].id < wire[j].id

\* No batch is lost or sent twice inside the engine process: each is on the
\* wire once or still on its way to it, whichever thread has it.
AllAccountedFor ==
  /\ ToSet(Ids(wire)) \cup ToSet(Unsent) = 1 .. emitted
  /\ Len(wire) + Len(Unsent) = emitted

\* The path neither reorders, loses nor doubles what it was given.
Accounted == TypeOK /\ WireInOrder /\ AllAccountedFor

\* Where the output thread does all the sending (~Inline), the stream changes
\* transport for good at most once after shared memory has carried a batch:
\* no batch follows over shared memory one that went over ZMQ behind another
\* over shared memory.
DemotionIsFinal ==
  ~Inline =>
  \A i, j, k \in DOMAIN wire :
     i < j /\ j < k /\ wire[i].via = "shm" /\ wire[j].via = "zmq" => wire[k].via = "zmq"

\* The output path is the ordered, exactly-once stream of OutputStream, and
\* what is queued goes out.
Stream == INSTANCE OutputStream WITH pending <- Unsent, sent <- Ids(wire)
ImplementsStream == Stream!Spec

\* Every batch reaches the front end, unless its shared-memory reader died.
EveryBatchArrives ==
  \A b \in Batches : emitted >= b ~> b \in ToSet(Ids(received)) \/ subscriber = "down"
=============================================================================
