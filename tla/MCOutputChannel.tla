-------------------------- MODULE MCOutputChannel --------------------------
(***************************************************************************)
(* Instances of OutputChannel for TLC: the crate publishes inline and no   *)
(* runner commits, or everything goes through output_queue, utility        *)
(* replies and the records of runner steps included.                       *)
(***************************************************************************)
EXTENDS OutputChannel

InlineSetup == [inline |-> TRUE, launches |-> 0, utilities |-> FALSE]
QueuedSetup == [inline |-> FALSE, launches |-> 1, utilities |-> TRUE]
MCSetups == {InlineSetup, QueuedSetup}

\* The crate publishes inline and a runner commits, one launch a step.
RunnerSetup == [inline |-> TRUE, launches |-> 1, utilities |-> FALSE]
MCRunnerSetup == {RunnerSetup}
=============================================================================
