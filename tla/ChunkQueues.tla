----------------------------- MODULE ChunkQueues -----------------------------
(***************************************************************************)
(* What the buffers of received data promise: the chunk of a frame arrives *)
(* as it was sent, is queued by at most one stream, and is read from there *)
(* in order, once, and unchanged for as long as the application keeps it.  *)
(***************************************************************************)
EXTENDS Sequences

CONSTANTS Lists, Chunks, None

VARIABLES
  arriving,  \* the chunk that is being received, or None
  queue,     \* per list: the chunks that wait
  kept       \* per list: the chunk that the application reads, or None

vars == <<arriving, queue, kept>>

Init ==
  /\ arriving = None
  /\ queue = [l \in Lists |-> <<>>]
  /\ kept = [l \in Lists |-> None]

Arrive(chunk) ==
  /\ arriving = None
  /\ arriving' = chunk
  /\ UNCHANGED <<queue, kept>>

\* Lost with the connection, or not wanted.
Forget ==
  /\ arriving' = None
  /\ UNCHANGED <<queue, kept>>

Deliver(l) ==
  /\ arriving # None
  /\ arriving' = None
  /\ queue' = IF arriving = <<>> THEN queue ELSE [queue EXCEPT ![l] = Append(@, arriving)]
  /\ UNCHANGED kept

Read(l) ==
  /\ queue[l] # <<>> /\ kept[l] = None
  /\ kept' = [kept EXCEPT ![l] = Head(queue[l])]
  /\ queue' = [queue EXCEPT ![l] = Tail(@)]
  /\ UNCHANGED arriving

Finish(l) ==
  /\ kept' = [kept EXCEPT ![l] = None]
  /\ UNCHANGED <<arriving, queue>>

Discard(l) ==
  /\ queue[l] # <<>>
  /\ queue' = [queue EXCEPT ![l] = Tail(@)]
  /\ UNCHANGED <<arriving, kept>>

Next ==
  \/ \E chunk \in Chunks : Arrive(chunk)
  \/ Forget
  \/ \E l \in Lists : Deliver(l) \/ Read(l) \/ Finish(l) \/ Discard(l)

Spec == Init /\ [][Next]_vars
=============================================================================
