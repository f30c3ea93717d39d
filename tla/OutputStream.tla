---------------------------- MODULE OutputStream ----------------------------
(***************************************************************************)
(* What the engine's output path promises, whatever carries it: every      *)
(* batch the engine emits goes out once, in the order of emission.         *)
(*                                                                         *)
(* Batches are numbered 1, 2, ... as they are emitted.                     *)
(***************************************************************************)
EXTENDS Naturals, Sequences

VARIABLES emitted,  \* how many batches the engine has emitted
          pending,  \* those not sent yet
          sent      \* those sent, in the order they were sent

vars == <<emitted, pending, sent>>

Init == emitted = 0 /\ pending = <<>> /\ sent = <<>>

Emit ==
  /\ emitted' = emitted + 1
  /\ pending' = Append(pending, emitted + 1)
  /\ UNCHANGED sent

Send ==
  /\ pending # <<>>
  /\ sent' = Append(sent, Head(pending))
  /\ pending' = Tail(pending)
  /\ UNCHANGED emitted

\* A batch may skip the queue when the queue is empty.
EmitAndSend ==
  /\ pending = <<>>
  /\ emitted' = emitted + 1
  /\ sent' = Append(sent, emitted + 1)
  /\ UNCHANGED pending

Next == Emit \/ Send \/ EmitAndSend

Spec == Init /\ [][Next]_vars /\ WF_vars(Send)
=============================================================================
