---------------------------- MODULE WaitingQueue ----------------------------
(***************************************************************************)
(* The waiting queue of a step: the shortest-prefill-first reordering, by  *)
(* the crate (ScheduleCore::reorder_waiting) and by the policy patch that  *)
(* a step of stock vLLM falls back to (sched_policy.py with the signals of *)
(* kv_cache_manager.py), the candidates a step offers the crate, and the   *)
(* queues it leaves.  Operators, no variables.                             *)
(*                                                                         *)
(* A view v of a step has, by request, prompt, tokens and computed, cached,*)
(* the tokens at the front of its text that are in the cache, and readable,*)
(* FALSE if the policy patch fails to walk the cache; and of the pool free,*)
(* total, block_size, tight (a percentage), and planned, FALSE if the      *)
(* manager patch is off.                                                   *)
(*                                                                         *)
(* The queues s of a step are skipped and waiting; blocked is the set of   *)
(* requests whose transfer is not over.                                    *)
(***************************************************************************)
EXTENDS Integers, FiniteSets, SequencesExt

Saturated(n) == IF n < 0 THEN 0 ELSE n
DivCeil(n, d) == (n + d - 1) \div d

------------------------------------------------------------------------------
(***************************************************************************)
(* The order                                                               *)
(***************************************************************************)

\* find_longest_cache_hit: whole blocks, no more than limit tokens.
Hit(v, r, limit) ==
  LET most == IF v.cached[r] < limit THEN v.cached[r] ELSE limit
  IN  (most \div v.block_size) * v.block_size
PeekCacheHit(v, r) == Hit(v, r, Saturated(v.tokens[r] - 1))

\* The uncached prompt: what is left of a request that has progress, or what
\* the cache does not hold.
Remaining(v, r) ==
  Saturated(v.prompt[r] - IF v.computed[r] > 0 THEN v.computed[r] ELSE PeekCacheHit(v, r))

\* get_usage over the threshold; an empty pool is not in use.
Tight(v) == v.total > 0 /\ 100 * (v.total - v.free) >= v.tight * v.total

\* A request that does not fit the free blocks goes behind those that do.
Demoted(v, remaining) ==
  IF Tight(v) /\ DivCeil(remaining, v.block_size) > v.free THEN 1 ELSE 0

Below(a, b) == \E i \in DOMAIN a : a[i] < b[i] /\ \A j \in 1 .. i - 1 : a[j] = b[j]

\* reorder_waiting: the keys, the index last, are sorted and applied.
Key(v, q, i) == <<Demoted(v, Remaining(v, q[i])), Remaining(v, q[i]), i>>
ReorderWaiting(v, q) ==
  LET place(i) == Cardinality({j \in DOMAIN q : ~ Below(Key(v, q, i), Key(v, q, j))})
  IN  IF Len(q) < 2 THEN q
      ELSE [n \in DOMAIN q |-> q[CHOOSE i \in DOMAIN q : place(i) = n]]

\* _plan_request and _remaining_prefill; a failed walk leaves the prompt.
PlanRequest(v, r) ==
  CASE v.computed[r] # 0 -> Saturated(v.prompt[r] - v.computed[r])
    [] v.computed[r] = 0 /\ v.readable[r] ->
         Saturated(v.prompt[r] - Hit(v, r, v.tokens[r] - 1))
    [] OTHER -> v.prompt[r]

\* _reorder_waiting: a stable sort.
PolicyKey(v, r) ==
  LET remaining == PlanRequest(v, r)
  IN  <<IF v.planned THEN Demoted(v, remaining) ELSE 0, remaining>>
PolicyOrder(v, q) ==
  LET behind(r, out) == SelectSeq(out, LAMBDA o : Below(PolicyKey(v, r), PolicyKey(v, o)))
      ahead(r, out)  == SelectSeq(out, LAMBDA o : ~ Below(PolicyKey(v, r), PolicyKey(v, o)))
  IN  FoldLeft(LAMBDA out, r : ahead(r, out) \o <<r>> \o behind(r, out), << >>, q)

------------------------------------------------------------------------------
(***************************************************************************)
(* The queues of a step                                                    *)
(***************************************************************************)

Only(q, S) == SelectSeq(q, LAMBDA r : r \in S)
Without(q, S) == SelectSeq(q, LAMBDA r : r \notin S)

\* assemble_candidates.
Candidates(s) == Without(s.skipped \o s.waiting, s.blocked)
StepSkipped(s) == Only(s.skipped \o s.waiting, s.blocked)

\* mixed_prefill_cap: with requests running, only the first cap candidates are
\* offered and the others withheld.  0 is no cap.
Capped(s, cap) == s.decoding /\ cap > 0 /\ Len(Candidates(s)) > cap
Offered(s, cap) == IF Capped(s, cap) THEN SubSeq(Candidates(s), 1, cap) ELSE Candidates(s)
Withheld(s, cap) ==
  IF Capped(s, cap) THEN SubSeq(Candidates(s), cap + 1, Len(Candidates(s))) ELSE << >>

\* What phase 2 is given: the offered candidates but those of which the
\* connector said to ask again, in the crate's order.
Ordered(s, cap, later, sjf, v) ==
  LET q == Without(Offered(s, cap), later) IN IF sjf THEN ReorderWaiting(v, q) ELSE q

\* The rebuild.  Phase 2 consumed the front of that order, admitting all of it
\* but what it parked and what it handed back stale; preempted requests are
\* put back one by one, each before the one before it.
Rebuilt(s, cap, later, sjf, v, d) ==
  LET order    == Ordered(s, cap, later, sjf, v)
      consumed == SubSeq(order, 1, d.consumed)
      left     == SubSeq(order, d.consumed + 1, Len(order))
  IN  [admitted |-> Without(consumed, d.parked \cup d.stale),
       waiting  |-> Reverse(d.preempted) \o left \o Withheld(s, cap),
       skipped  |-> StepSkipped(s) \o Only(Offered(s, cap), later)
                    \o Only(consumed, d.parked) \o Only(consumed, d.stale),
       withheld |-> Len(Withheld(s, cap))]

\* The queue-empty guard of a burst, less what the cap withheld.
BurstMustWait(k) == Len(k.waiting) > k.withheld \/ k.skipped # << >>
=============================================================================
