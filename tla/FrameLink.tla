----------------------------- MODULE FrameLink -----------------------------
(***************************************************************************)
(* What the codec promises to a connection: one frame at a time is handed  *)
(* over, frames arrive whole, unchanged and in order, and a PING carries   *)
(* the time at which its frame began to leave.  When the sender is gone,   *)
(* the receiver learns whether a frame was cut.                            *)
(***************************************************************************)
EXTENDS Integers, Sequences

CONSTANTS None, Ended, Cut

VARIABLES
  clock,     \* the time at the sender
  waiting,   \* the frame that was handed over and did not begin to leave
  queue,     \* the frames that began to leave and did not arrive
  cut,       \* whether the sender left in the middle of a frame
  arrived    \* what the receiver was told last

vars == <<clock, waiting, queue, cut, arrived>>

Stamped(frame) ==
  IF frame.header.ping = None THEN frame ELSE [frame EXCEPT !.header.ping = clock]

Init ==
  /\ waiting = None
  /\ queue = <<>>
  /\ cut = FALSE
  /\ arrived = None

HandOver ==
  /\ waiting = None
  /\ waiting' # None
  /\ UNCHANGED <<clock, queue, cut, arrived>>

BeginToLeave ==
  /\ waiting # None
  /\ waiting' = None
  /\ queue' = Append(queue, Stamped(waiting))
  /\ UNCHANGED <<clock, cut, arrived>>

Arrive ==
  /\ queue # <<>>
  /\ arrived' = Head(queue)
  /\ queue' = Tail(queue)
  /\ UNCHANGED <<clock, waiting, cut>>

Tick ==
  /\ clock' # clock
  /\ UNCHANGED <<waiting, queue, cut, arrived>>

\* The sender leaves.  Frames that are not out yet are lost, the last ones
\* first.
Leave ==
  /\ waiting' = None
  /\ \E n \in 0 .. Len(queue) : queue' = SubSeq(queue, 1, n)
  /\ cut' \in BOOLEAN
  /\ UNCHANGED <<clock, arrived>>

\* The receiver learns of it, after all that arrives.
Notice ==
  /\ queue = <<>>
  /\ arrived' = IF cut THEN Cut ELSE Ended
  /\ UNCHANGED <<clock, waiting, queue, cut>>

Next == HandOver \/ BeginToLeave \/ Arrive \/ Tick \/ Leave \/ Notice

Spec == Init /\ [][Next]_vars
=============================================================================
