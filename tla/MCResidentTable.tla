-------------------------- MODULE MCResidentTable --------------------------
(***************************************************************************)
(* Instances of ResidentTable for TLC: two requests of different lengths   *)
(* for the two records, four for the queues, three for the preemption.     *)
(***************************************************************************)
EXTENDS ResidentTable

TwoRequests == {1, 2}
TwoPrompts == 1 :> 2 @@ 2 :> 3
TwoMaxTokens == 1 :> 7 @@ 2 :> 3

ThreeRequests == 1 .. 3
ThreePrompts == 1 :> 2 @@ 2 :> 2 @@ 3 :> 5
ThreeMaxTokens == 1 :> 2 @@ 2 :> 2 @@ 3 :> 1

\* The first prompt takes two chunks, the second needs three blocks at once.
FourRequests == 1 .. 4
FourPrompts == 1 :> 16 @@ 2 :> 2 @@ 3 :> 2 @@ 4 :> 2
FourMaxTokens == 1 :> 1 @@ 2 :> 3 @@ 3 :> 2 @@ 4 :> 1
==============================================================================
