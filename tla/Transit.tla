------------------------------- MODULE Transit -------------------------------
(***************************************************************************)
(* One direction of a connection, end to end: the writers of one peer, its *)
(* flow control, the link, and the flow control and readers of the other   *)
(* peer.  The two directions of a connection are two copies of this, which *)
(* share no state but the task of a stream (see `breaks' and `awake' in    *)
(* module Outbound).                                                       *)
(***************************************************************************)
EXTENDS Outbound, Inbound

vars == <<outboundVars, inboundVars, linkVars>>

TypeOK == OutboundTypeOK /\ InboundTypeOK /\ LinkTypeOK

Init == OutboundInit /\ InboundInit /\ LinkInit

\* The application that writes.
Writer(s) ==
  /\ \/ \E n \in 1 .. MaxWritten : write(s, n)
     \/ park_writer(s)
     \/ \E waits \in BOOLEAN : close_writing(s, waits)
  /\ UNCHANGED inboundVars

\* The application that reads.
Reader(s) ==
  /\ \/ read_pending(s)
     \/ read_chunk(s)
     \/ read_end(s)
     \/ close_reading(s)
  /\ UNCHANGED outboundVars

\* The sender's connection polls the stream for what to send.  A stream whose
\* round trip time is not known yet has no allowance, whatever the others have.
PollOutbound(s) ==
  /\ error = "none"
  /\ \/ poll_idle(s)
     \/ \E allowance \in Allowances : poll_blocked(s, allowance)
     \/ \E allowance \in Allowances, breaks \in BOOLEAN :
          poll_data(s, allowance, breaks)
     \/ \E breaks \in BOOLEAN : poll_fin_write(s, breaks)
  /\ UNCHANGED inboundVars

\* The receiver's connection polls the stream for what to send.
PollInbound(s) ==
  /\ error = "none"
  /\ poll_inbound_idle(s) \/ poll_credit(s) \/ poll_fin_read(s)
  /\ UNCHANGED outboundVars

\* The connections hand the frames that arrive to the stream.
ReceiveAtWriter(s) ==
  /\ error = "none"
  /\ received_window_update(s) \/ received_fin_read(s)
  /\ UNCHANGED inboundVars

ReceiveAtReader(s) ==
  /\ error = "none"
  /\ received(s)
  /\ UNCHANGED outboundVars

Next ==
  \E s \in Streams :
    \/ Writer(s)
    \/ Reader(s)
    \/ PollOutbound(s)
    \/ PollInbound(s)
    \/ ReceiveAtWriter(s)
    \/ ReceiveAtReader(s)

Spec == Init /\ [][Next]_vars

(***************************************************************************)
(* Fairness.  A connection is a task that the application keeps polling:   *)
(* it polls every stream that is scheduled, and its transport delivers     *)
(* every frame.  Nothing is assumed of streams that are not woken.         *)
(***************************************************************************)
ConnectionFairness ==
  \A s \in Streams :
    /\ WF_vars(s \in awake /\ PollOutbound(s))
    /\ WF_vars(s \in rxAwake /\ PollInbound(s))
    /\ WF_vars(ReceiveAtWriter(s))
    /\ WF_vars(ReceiveAtReader(s))

\* The reader is an application that goes on reading until it sees the end or
\* drops its half; the writer may do anything.
Fairness ==
  /\ ConnectionFairness
  /\ \A s \in Streams :
       WF_vars((read_chunk(s) \/ read_end(s)) /\ UNCHANGED outboundVars)

FairSpec == Spec /\ Fairness

-----------------------------------------------------------------------------
(* The accounting.                                                         *)

\* Two peers that follow the code never see a protocol violation: none of the
\* StreamErrors of outbound.rs and inbound.rs is ever raised.
NoProtocolError == error = "none"

\* "The sender's `unacked_s` is never smaller than the receiver's"
\* (TRANSIT_CONTROL.md): bytes in transit, credit in transit and FIN_READ in
\* transit all leave the sender with the larger count.
SenderNeverSmaller == \A s \in Streams : rxUnacked[s] <= txUnacked[s]

\* The running `used' of both pools, which Window::set adjusts one stream at a
\* time, is the sum of what the streams borrow; so `used - old' in Window::set
\* never underflows.
PoolsInSync ==
  /\ txUsed = PoolUsage(txUnacked)
  /\ rxUsed = PoolUsage(rxUnacked)

\* The sender never borrows more than the pool, and so the receiver's check
\* in `count' (inbound.rs) cannot trip.
PoolsNotOverdrawn == ~is_overdrawn(txUsed) /\ ~is_overdrawn(rxUsed)

BufferedBytes ==
  {b \in Streams \X (1 .. MaxWritten) :
     \E i \in 1 .. Len(unread[b[1]]) :
        unread[b[1]][i].from < b[2] /\ b[2] <= unread[b[1]][i].to}

\* "The receiver's memory is at most `streams * B + P_rx`" (TRANSIT_CONTROL.md):
\* the bytes held in the ready_data of all streams never exceed that.
MemoryBounded ==
  Cardinality(BufferedBytes) <= Cardinality(Streams) * B + PoolSize

-----------------------------------------------------------------------------
(* The turn queue.                                                         *)

\* No lost turn: while the pool has room and streams wait for it, the first
\* in line is scheduled.  Every branch of plan, pass_turn, a window update and
\* FIN_READ has to keep the wake-up going.
NoLostTurn ==
  has_room(txUsed) /\ turns # <<>> => Head(turns) \in awake

Before(q, s, t) ==
  \E i, j \in 1 .. Len(q) : i < j /\ q[i] = s /\ q[j] = t

Borrows(s) == borrowed_at(txUnacked'[s]) > borrowed_at(txUnacked[s])

\* "Free room never lets a stream skip the queue" (turns.rs): a step lets a
\* stream borrow only if nobody is ahead of it, and two waiting streams swap
\* places only because the one ahead has just borrowed.
TurnsInOrder ==
  [][\A s \in Streams :
       /\ Borrows(s) => turns = <<>> \/ Head(turns) = s
       /\ \A t \in Streams \ {s} :
            /\ Before(turns, s, t)
            /\ Before(turns', t, s)
            => Borrows(s)]_vars

-----------------------------------------------------------------------------
(* Wake-ups.                                                               *)

\* Credit cannot deadlock: a stream that has data to send and sleeps filled
\* its base window, and then something is still under way that will wake it:
\* a frame in one of the directions, data the reader has not read, or a
\* scheduled task at the receiver that is going to return credit or FIN_READ.
NoCreditDeadlock ==
  \A s \in Streams :
    Waiting(s) > 0 /\ s \notin awake =>
      /\ base_room(txUnacked[s]) = 0
      /\ \/ toReader[s] # <<>>
         \/ toWriter[s] # <<>>
         \/ unread[s] # <<>>
         \/ s \in rxAwake

\* No application waits for a wake-up that will not come: a parked writer has
\* data that is not sent yet, a parked reader has nothing to read.  In
\* particular, replacing a state that holds a waker loses no waiter.
NobodyForgotten ==
  /\ \A s \in parkedWriters : Waiting(s) > 0
  /\ \A s \in parkedReaders : inb[s] = "open" /\ unread[s] = <<>>

-----------------------------------------------------------------------------
(* What the application gets.                                              *)

\* The next chunk starts right after the last byte read: nothing is lost,
\* duplicated or reordered between the sink and the stream.
ReadsInOrder ==
  \A s \in Streams : unread[s] # <<>> => Head(unread[s]).from = readTo[s]

\* A reader that saw the end of the stream has read everything the writer
\* wrote, and the writer had closed: FIN_WRITE never overtakes data.
EndIsComplete ==
  \A s \in Streams :
    reader[s] = "ended" => readTo[s] = written[s] /\ out[s] = "closed"

WriterEnd == [s \in Streams |-> IF out[s] = "open" THEN "open" ELSE "closed"]

Ends == INSTANCE Pipes WITH writer <- WriterEnd

\* What the applications see through RammuxSink and RammuxStream is a pipe per
\* stream: windows, turns, frames and FINs below it show in no other way.
ImplementsPipes == Ends!Spec

\* Every byte written is read, unless the reader is dropped.
WrittenIsRead ==
  \A s \in Streams : \A n \in 1 .. MaxWritten :
    written[s] >= n ~> readTo[s] >= n \/ reader[s] = "dropped"

First(s) == turns # <<>> /\ Head(turns) = s

\* A turn comes, whatever the others do and though nobody has to read: a stream
\* that waits with its base window full, so that only the pool can help, gets
\* a share again and again if the pool has room again and again.  It waits in
\* vain only behind a stream that goes on for ever with its own base window,
\* which keeps its place in the queue (Ledger::plan).
TurnComes ==
  \A s \in Streams :
    /\ <>[](InQueue(turns, s) /\ base_room(txUnacked[s]) = 0)
    /\ []<>has_room(txUsed)
    => \/ []<><<Borrows(s)>>_vars
       \/ \E t \in Streams \ {s} :
            <>[]First(t) /\ []<><<sent'[t] > sent[t]>>_vars

\* A closed direction finishes: both FINs are sent and received.
ClosesDown ==
  \A s \in Streams :
    out[s] # "open" ~> outFin[s].received /\ inFin[s].received

-----------------------------------------------------------------------------
(* The inductive invariant.  Positions make the sums of the accounting     *)
(* differences: the frames of a queue are contiguous, so what it carries   *)
(* is the distance between its two ends.                                   *)

\* The frames of `q' cover the positions a .. b without gaps.
Chain(q, a, b) ==
  /\ a <= b
  /\ q = <<>> => a = b
  /\ q # <<>> => q[1].from = a /\ q[Len(q)].to = b
  /\ \A i \in 1 .. Len(q) : a <= q[i].from /\ q[i].from <= q[i].to /\ q[i].to <= b
  /\ \A i, j \in 1 .. Len(q) : i < j => q[i].to <= q[j].from
  /\ \A i \in 1 .. Len(q) - 1 : q[i].to = q[i + 1].from

\* Only the last frame of `q' carries a FIN, and it does iff `fin'.
FinLast(q, fin) ==
  \A i \in 1 .. Len(q) : q[i].fin <=> (fin /\ i = Len(q))

\* The positions up to which data arrived at the reader, and up to which
\* credit arrived at the writer and was sent to it.
Arrived(s)  == IF toReader[s] = <<>> THEN sent[s] ELSE toReader[s][1].from
Returned(s) == IF toWriter[s] = <<>> THEN credited(s) ELSE toWriter[s][1].from
Promised(s) == IF toWriter[s] = <<>> THEN credited(s)
               ELSE toWriter[s][Len(toWriter[s])].to

\* What is on its way to the reader, and where the reader is.
DataInv(s) ==
  /\ Chain(toReader[s], Arrived(s), sent[s])
  /\ sent[s] <= written[s]
  /\ FinLast(toReader[s], outFin[s].sent)
  /\ outFin[s].sent /\ toReader[s] = <<>> <=> after_fin_write(s)
  /\ inb[s] # "closed" => Chain(unread[s], readTo[s], Arrived(s))
  /\ inb[s] = "closed" => unread[s] = <<>>
  /\ inb[s] = "half" => unread[s] # <<>>
  /\ readTo[s] <= Arrived(s)

\* What is on its way to the writer, and where the writer is.
CreditInv(s) ==
  /\ credit[s] <= readTo[s]
  /\ Chain(toWriter[s], Returned(s), Promised(s))
  /\ Promised(s) <= sent[s]
  /\ ~inFin[s].sent => Promised(s) = credited(s)
  /\ FinLast(toWriter[s], inFin[s].sent)
  /\ inFin[s].sent /\ toWriter[s] = <<>> <=> outFin[s].received
  /\ txUnacked[s] = IF outFin[s].received THEN 0 ELSE sent[s] - Returned(s)
  /\ rxUnacked[s] = IF inFin[s].sent THEN 0 ELSE Arrived(s) - credited(s)
  /\ inFin[s].sent => credit[s] = 0

\* A FIN belongs to a closed direction, and a reader that was not dropped
\* closes only after it read everything.
CloseInv(s) ==
  /\ outFin[s].sent \/ outFin[s].received => out[s] = "closed"
  /\ inFin[s].sent \/ inFin[s].received => inb[s] = "closed"
  /\ reader[s] # "dropped" /\ out[s] = "closed" => sent[s] = written[s]
  /\ reader[s] # "dropped" /\ inb[s] = "closed" =>
        inFin[s].received /\ readTo[s] = written[s]
  /\ reader[s] = "ended" => inb[s] = "closed"

\* Whoever sleeps has nothing it could do.
SleepInv(s) ==
  /\ s \notin awake => base_room(txUnacked[s]) = 0 \/ Waiting(s) = 0
  /\ s \notin rxAwake /\ inb[s] = "closed" => inFin[s].sent
  /\ s \notin rxAwake /\ inb[s] # "closed" => credit[s] < T_c

StreamInv ==
  \A s \in Streams : DataInv(s) /\ CreditInv(s) /\ CloseInv(s) /\ SleepInv(s)

IInv ==
  /\ TypeOK
  /\ NoProtocolError
  /\ StreamInv
  /\ PoolsInSync
  /\ PoolsNotOverdrawn
  /\ NoLostTurn
  /\ NobodyForgotten
=============================================================================
