---------------------------- MODULE StopDecision ----------------------------
(***************************************************************************)
(* When a request stops (update.rs): the decision for one token, for the   *)
(* tokens of one step, and for the launches of one runner step, which are  *)
(* decided one after the other although all of them have been run.         *)
(*                                                                         *)
(* The immutable half of a request's condition is a record: min and max    *)
(* tokens, the end-of-sequence token (NoToken if it has none), the stop    *)
(* tokens.  A verdict is how many of the tokens offered survive, the       *)
(* status, and the token a stop was due to.                                *)
(***************************************************************************)
EXTENDS Integers, Sequences

NoToken == -1
NoReason == -1

Verdict(accepted, status, reason) ==
  [accepted |-> accepted, status |-> status, reason |-> reason]

\* The first of the branches that applies.  The counters include the token.
Ends(p, token, numOutput, numTokens, maxModelLen) ==
  /\ numOutput >= p.min
  /\ \/ token = p.eos \/ token \in p.stops
     \/ numTokens >= maxModelLen \/ numOutput >= p.max

CheckStop(p, token, accepted) ==
  CASE token = p.eos     -> Verdict(accepted, "stopped", NoReason)
    [] token # p.eos /\ token \in p.stops -> Verdict(accepted, "stopped", token)
    [] OTHER             -> Verdict(accepted, "length", NoReason)

\* The tokens at which the request would end.
Endings(p, tokens, numOutput, numTokens, maxModelLen) ==
  {i \in DOMAIN tokens : Ends(p, tokens[i], numOutput + i, numTokens + i, maxModelLen)}

\* apply_tokens: trimmed at the first stop.
ApplyTokens(p, tokens, numOutput, numTokens, maxModelLen) ==
  LET at == Endings(p, tokens, numOutput, numTokens, maxModelLen)
      i  == CHOOSE j \in at : \A h \in at : j <= h
  IN  IF at = {} THEN Verdict(Len(tokens), "running", NoReason)
                 ELSE CheckStop(p, tokens[i], i)

------------------------------------------------------------------------------
(* A runner step of several launches.  offered[row] is what the device     *)
(* computed for a row, width tokens a launch; conditions[row], outputs[row]*)
(* and lengths[row] are the row's condition and counters before the step.  *)

\* What is decided before the first launch is packed.
NothingYet(rows) ==
  [live |-> rows, out |-> [r \in rows |-> Verdict(0, "running", NoReason)]]

\* The tokens of launch number n + 1 of a row: gather_sampled.
LaunchTokens(offered, row, n, width) ==
  SubSeq(offered[row], n * width + 1, (n + 1) * width)

\* merge_step_verdicts: the launch's verdicts of the rows that were live go
\* into the totals, and the rows that stopped leave.
MergeStepVerdicts(s, n, width, verdict) ==
  [live |-> {r \in s.live : verdict[r].status = "running"},
   out  |-> [r \in DOMAIN s.out |->
               IF r \in s.live
               THEN [verdict[r] EXCEPT !.accepted = n * width + @]
               ELSE s.out[r]]]

\* Runner::commit: launch by launch, each decided on the store's counters,
\* which the launches before it have moved.
CommitLaunch(s, n, offered, width, conditions, outputs, lengths, maxModelLen) ==
  MergeStepVerdicts(s, n, width,
    [r \in s.live |->
       ApplyTokens(conditions[r], LaunchTokens(offered, r, n, width),
                   outputs[r] + n * width, lengths[r] + n * width, maxModelLen)])

\* What a step of n launches must decide: for every row the same as if all its
\* tokens had been applied at once, and only rows that go on are live.
AsOneStep(s, rows, n, offered, width, conditions, outputs, lengths, maxModelLen) ==
  /\ s.out = [r \in rows |->
                ApplyTokens(conditions[r], SubSeq(offered[r], 1, n * width),
                            outputs[r], lengths[r], maxModelLen)]
  /\ s.live = {r \in rows : s.out[r].status = "running"}
=============================================================================
