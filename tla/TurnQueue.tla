----------------------------- MODULE TurnQueue -----------------------------
(***************************************************************************)
(* What lists of elements promise to their users: every list is a FIFO     *)
(* queue from which an element can also leave early, and an element is in  *)
(* at most one of them.                                                    *)
(***************************************************************************)
EXTENDS SequencesExt

CONSTANTS Lists, Elements

VARIABLE queue   \* per list: its elements, first in line first

Init == queue = [l \in Lists |-> <<>>]

Join(l, e) ==
  /\ \A k \in Lists : ~Contains(queue[k], e)
  /\ queue' = [queue EXCEPT ![l] = Append(@, e)]

Leave(l, e) ==
  /\ Contains(queue[l], e)
  /\ queue' = [queue EXCEPT ![l] = Remove(@, e)]

Next == \E l \in Lists, e \in Elements : Join(l, e) \/ Leave(l, e)

Spec == Init /\ [][Next]_queue
=============================================================================
