--------------------------- MODULE MCConnectorSplit ---------------------------
(***************************************************************************)
(* Instances of ConnectorSplit for TLC: two requests whose texts differ    *)
(* from the first block on.  The queues of a step are rebuilt by Rebuilt   *)
(* of WaitingQueue from every outcome of short ones, and the two orders of *)
(* the waiting queue are compared.                                         *)
(***************************************************************************)
EXTENDS ConnectorSplit

CONSTANTS r1, r2

MCReq2 == {r1, r2}

\* The two texts share nothing.
Text(r) == IF r = r2 THEN "b" ELSE "a"
MCBlockHash == [r \in Req |-> [i \in 1 .. MaxLen |-> <<Text(r), i>>]]
MCKeys == {MCBlockHash[r][i] : r \in Req, i \in 1 .. MaxLen}
MCPromptLen == [r \in Req |-> 2]

Queue == INSTANCE WaitingQueue

\* A request is fresh, resumed or has more of its text cached than its prompt.
Jobs == {[prompt |-> p, tokens |-> p + g, computed |-> c, cached |-> h] :
           p \in {3, 8}, g \in {0, 2}, c \in {0, 4}, h \in {0, 5, 8}}
View(job, free, planned) ==
  [prompt   |-> [i \in 1 .. 3 |-> job[i].prompt],
   tokens   |-> [i \in 1 .. 3 |-> job[i].tokens],
   computed |-> [i \in 1 .. 3 |-> job[i].computed],
   cached   |-> [i \in 1 .. 3 |-> job[i].cached],
   readable |-> [i \in 1 .. 3 |-> TRUE],
   free |-> free, total |-> 20, block_size |-> 2, tight |-> 90, planned |-> planned]

\* The crate and the policy patch, which a step of stock vLLM falls back to,
\* order the queue alike, whatever the pressure on the pool; with the manager
\* patch off, alike while the pool is not under pressure.
ASSUME OrdersAgree ==
  \A a, b, c \in Jobs : \A free \in {0, 1, 2, 3} :
    LET job == <<a, b, c>>
    IN  /\ LET v == View(job, free, TRUE)
           IN  Queue!ReorderWaiting(v, <<2, 1, 3>>) = Queue!PolicyOrder(v, <<2, 1, 3>>)
        /\ LET v == View(job, free, FALSE)
           IN  free = 3 => Queue!ReorderWaiting(v, <<2, 1, 3>>) = Queue!PolicyOrder(v, <<2, 1, 3>>)

\* Requests 1 to 4 wait, 5 and 6 run; the prompts fall from the first to the last.
Backwards ==
  [prompt |-> [i \in 1 .. 4 |-> 9 - i], tokens |-> [i \in 1 .. 4 |-> 9 - i],
   computed |-> [i \in 1 .. 4 |-> 0], cached |-> [i \in 1 .. 4 |-> 0],
   free |-> 20, total |-> 20, block_size |-> 2, tight |-> 90]
Splits == {[skipped |-> SubSeq(<<1, 2, 3, 4>>, 1, k), waiting |-> SubSeq(<<1, 2, 3, 4>>, k + 1, 4),
            blocked |-> b, decoding |-> run] :
             k \in 0 .. 3, b \in SUBSET {1, 2}, run \in BOOLEAN}
Decided(order) ==
  {[consumed |-> n, parked |-> p, stale |-> st, preempted |-> << >>] :
     n \in 0 .. Len(order), p \in SUBSET Elements(order), st \in SUBSET Elements(order)}
  \cup {[consumed |-> 0, parked |-> {}, stale |-> {}, preempted |-> <<6, 5>>]}

\* P of every rebuild of every short pair of queues.
EveryRebuild(P(_, _, _, _)) ==
  \A s \in {x \in Splits : x.blocked \subseteq Elements(x.skipped)} :
  \A cap \in 0 .. 2 : \A sjf \in BOOLEAN :
  \A asked \in SUBSET Elements(Queue!Offered(s, cap)) :
    LET order == Queue!Ordered(s, cap, asked, sjf, Backwards)
    IN  \A d \in {x \in Decided(order) :
                    /\ x.parked \cap x.stale = {}
                    /\ x.parked \cup x.stale \subseteq Elements(SubSeq(order, 1, x.consumed))} :
          P(s, cap, d, Queue!Rebuilt(s, cap, asked, sjf, Backwards, d))

\* The queues are cleared and rebuilt from what the crate decided: every
\* request that waited or was preempted is admitted or in one queue, once.
NobodyLost(s, cap, d, k) ==
  LET after == k.admitted \o k.waiting \o k.skipped
  IN  /\ Len(after) = 4 + Len(d.preempted)
      /\ Elements(after) = 1 .. 4 \cup Elements(d.preempted)

\* A burst waits for exactly the requests the crate was offered and left, the
\* preempted and the skipped, never for what the cap withheld.
BurstsWaitForTheOffered(s, cap, d, k) ==
  Queue!BurstMustWait(k) <=>
    \/ d.preempted # << >> \/ k.skipped # << >>
    \/ Elements(Queue!Offered(s, cap)) \ Elements(k.admitted) # {}

ASSUME QueuesAreWhole == EveryRebuild(NobodyLost)
ASSUME WithheldIsDiscounted == EveryRebuild(BurstsWaitForTheOffered)

\* A cap of one makes the order first come first served while requests run.
ASSUME CapOfOneIsArrivalOrder ==
  \A s \in {x \in Splits : x.decoding} :
    Queue!Ordered(s, 1, {}, TRUE, Backwards) = Queue!Ordered(s, 1, {}, FALSE, Backwards)
===============================================================================
