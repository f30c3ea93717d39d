---------------------------- MODULE MCSpeculation ----------------------------
(***************************************************************************)
(* An instance of Speculation for TLC: two cells, and scheduling functions *)
(* that tell every state and every argument apart.                         *)
(***************************************************************************)
EXTENDS Speculation, SequencesExt

MCCells == {1, 2}
MCValues == {0, 1}
MCOrders == {1, 2}
MCParams == {1}

\* The decisions name the state and the call they were computed from.
MCDecision(m, call) == <<"direct", m, call>>
MCProbe(m, call) == <<"probe", m>>
MCAdmission(m, left) == <<"admitted", left>>
MCMemory == [MCCells -> MCValues]
MCCall == [gen : 0 .. MaxGen, slots : MCOrders, params : MCParams]
MCCarries == {MCProbe(m, call) : m \in MCMemory, call \in MCCall}
MCDecisions ==
  {MCDecision(m, call) : m \in MCMemory, call \in MCCall}
    \cup {MCAdmission(m, left) : m \in MCMemory, left \in MCCarries}

\* The running order decides which cell a step writes: its neighbour's value,
\* flipped.
MCResult(m, call) ==
  [m EXCEPT ![call.slots] = 1 - m[3 - call.slots]]
MCAdmitResult(m, left) == [m EXCEPT ![1] = 1 - m[2]]

\* Undo is the reverse pass of Journal::rollback.
ASSUME UndoIsTheReversePass ==
  LET entries == [cell : MCCells, old : MCValues]
      restore(e, m) == [m EXCEPT ![e.cell] = e.old]
  IN  \A n \in 0 .. 3 : \A j \in [1 .. n -> entries] : \A m \in MCMemory :
        Undo(m, j) = FoldRight(restore, j, m)
==============================================================================
