----------------------------- MODULE BlockQueue -----------------------------
(***************************************************************************)
(* What the block layer promises its callers: transfers are served one at  *)
(* a time in the order in which they were submitted, a task has at most    *)
(* one of them, and each of them ends.                                     *)
(***************************************************************************)
EXTENDS Sequences, SequencesExt

CONSTANT Tasks

VARIABLE pending      \* the tasks whose transfer has not ended, oldest first

Init == pending = <<>>

Submit(t) ==
  /\ ~Contains(pending, t)
  /\ pending' = Append(pending, t)

Finish ==
  /\ pending # <<>>
  /\ pending' = Tail(pending)

Next == Finish \/ \E t \in Tasks : Submit(t)

FifoSpec == Init /\ [][Next]_pending

Spec == FifoSpec /\ WF_pending(Finish)
=============================================================================
