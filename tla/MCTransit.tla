------------------------------ MODULE MCTransit ------------------------------
(***************************************************************************)
(* Small instances of Transit.  The full specification is checked on one   *)
(* stream; the runs with several streams leave out steps of the            *)
(* application that do not matter to what they ask.                        *)
(***************************************************************************)
EXTENDS Transit, TLC

Symmetry == Permutations(Streams)

\* Both sides' connections.
Connections(s) ==
  \/ PollOutbound(s)
  \/ PollInbound(s)
  \/ ReceiveAtWriter(s)
  \/ ReceiveAtReader(s)

Traffic(s) ==
  \/ \E n \in 1 .. MaxWritten : write(s, n) /\ UNCHANGED inboundVars
  \/ read_chunk(s) /\ UNCHANGED outboundVars
  \/ Connections(s)

\* Streams that carry data and never close.
TrafficSpec == Init /\ [][\E s \in Streams : Traffic(s)]_vars

\* Streams that carry data and close in any way; nobody parks.
Closing(s) ==
  \/ Traffic(s)
  \/ close_writing(s, FALSE) /\ UNCHANGED inboundVars
  \/ close_reading(s) /\ UNCHANGED outboundVars
  \/ read_end(s) /\ UNCHANGED outboundVars

ClosingSpec == Init /\ [][\E s \in Streams : Closing(s)]_vars

(***************************************************************************)
(* Streams that carry data for ever.  Positions are names of bytes and no  *)
(* step depends on them but through their differences, so the bytes whose  *)
(* credit is back are forgotten and the rest is numbered from 0 again.     *)
(* MaxWritten then bounds the bytes that are not credited or not sent yet. *)
(***************************************************************************)
Shift(q, k) ==
  [i \in DOMAIN q |-> [q[i] EXCEPT !.from = @ - k, !.to = @ - k]]

Renumber(s) ==
  LET k == Returned(s)
  IN  /\ k > 0
      /\ written'  = [written EXCEPT ![s] = @ - k]
      /\ sent'     = [sent EXCEPT ![s] = @ - k]
      /\ readTo'   = [readTo EXCEPT ![s] = @ - k]
      /\ toReader' = [toReader EXCEPT ![s] = Shift(@, k)]
      /\ toWriter' = [toWriter EXCEPT ![s] = Shift(@, k)]
      /\ unread'   = [unread EXCEPT ![s] = Shift(@, k)]
      /\ UNCHANGED <<out, outFin, txUnacked, txUsed, turns, awake, parkedWriters>>
      /\ UNCHANGED <<inb, inFin, rxUnacked, rxUsed, credit, reader, rxAwake,
                     parkedReaders, error>>

\* Renumbering comes first: it is invisible, and leaves fewer states.
Endless(s) ==
  \/ Renumber(s)
  \/ (\A t \in Streams : Returned(t) = 0) /\ Traffic(s)

\* Any stream may stop reading at any time.
EndlessSpec ==
  Init /\ [][\E s \in Streams : Endless(s)]_vars /\ ConnectionFairness
=============================================================================
