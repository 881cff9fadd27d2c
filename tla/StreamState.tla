----------------------------- MODULE StreamState -----------------------------
(***************************************************************************)
(* A whole stream at one side of a connection (src/stream.rs): both of its *)
(* directions, as the connection and the application see them.  Module     *)
(* Transit has the flow control of one direction in detail.  Here the pool *)
(* is empty and the data is counted in units of one frame: what matters is *)
(* how the two directions and their FINs combine over the life of a        *)
(* stream.  A stream is a record, and an operation a function of it.       *)
(***************************************************************************)
EXTENDS Integers

CONSTANTS
  Window,     \* base window of both sides, in frames
  MaxChunk    \* bound: frames that one write of the application fills

ASSUME StreamAssumption ==
  /\ Window \in Nat \ {0}
  /\ MaxChunk \in Nat \ {0}

\* credit_threshold (flow.rs); a window is far below 32 K frames.
T_c == IF Window \div 2 > 1 THEN Window \div 2 ELSE 1

FinState == [sent : BOOLEAN, received : BOOLEAN]
NoFin    == [sent |-> FALSE, received |-> FALSE]

Stream ==
  [held    : BOOLEAN,                      \* the connection has a handle to it
   gen     : {0, 1},                       \* tells it from the last one with its ID
   syn     : BOOLEAN,                      \* the next update carries SYN
   out     : {"open", "half", "closed"},   \* OutboundState
   outFin  : FinState,
   ready   : 0 .. MaxChunk,                \* frames of ready_data to send
   unacked : 0 .. Window,                  \* frames in flight
   writer  : BOOLEAN,                      \* the application waits in the WakerSlot
   inb     : {"open", "half", "closed"},   \* InboundState
   inFin   : FinState,
   unread  : Nat,                          \* frames of ready_data to read
   credit  : Nat,                          \* frames read and not credited back
   reader  : BOOLEAN]                      \* the application waits in the WakerSlot

new(is_outbound, generation) ==
  [held |-> TRUE, gen |-> generation, syn |-> is_outbound,
   out |-> "open", outFin |-> NoFin, ready |-> 0, unacked |-> 0, writer |-> FALSE,
   inb |-> "open", inFin |-> NoFin, unread |-> 0, credit |-> 0, reader |-> FALSE]

\* All FINs of both directions are sent and received.
is_dead_when_sent(st) == st.inFin.sent /\ st.outFin.sent
is_dead(st) ==
  /\ st.inFin.sent /\ st.outFin.sent
  /\ st.inFin.received /\ st.outFin.received

\* The record before the first stream with an ID.
NoStream ==
  LET fins == [sent |-> TRUE, received |-> TRUE]
  IN  [new(FALSE, 1) EXCEPT !.held = FALSE, !.out = "closed", !.outFin = fins,
                            !.inb = "closed", !.inFin = fins]

-----------------------------------------------------------------------------
(* The application: RammuxSink and RammuxStream.                           *)

can_write(st) == st.out = "open" /\ st.ready = 0
write(st, n)  == [st EXCEPT !.ready = n]

close_writing(st) ==
  [st EXCEPT !.out = IF st.ready = 0 THEN "closed" ELSE "half"]

can_read(st) == st.inb # "closed" /\ st.unread > 0

poll_read(st) ==
  LET finished == st.inb = "half" /\ st.unread = 1
  IN  [st EXCEPT !.unread = @ - 1, !.credit = @ + 1,
                 !.inb = IF finished THEN "closed" ELSE @,
                 !.inFin.received = finished]

close_reading(st) ==
  [st EXCEPT !.inb = "closed", !.unread = 0, !.reader = FALSE,
             !.inFin.received = st.inb = "half"]

-----------------------------------------------------------------------------
(* StreamUpdates::poll_progress: what both directions have to send goes    *)
(* out in one update.                                                      *)

inbound_ready(st) ==
  IF st.inb = "closed" THEN ~st.inFin.sent ELSE st.credit >= T_c

outbound_ready_once(st) ==
  IF st.out = "closed" THEN st.outFin = NoFin ELSE st.ready > 0 /\ st.unacked < Window
outbound_ready(st) ==
  IF st.out = "closed" THEN ~st.outFin.sent ELSE st.ready > 0 /\ st.unacked < Window

update(st) ==
  [credit    |-> IF inbound_ready(st) /\ st.inb # "closed" THEN st.credit ELSE 0,
   fin_read  |-> inbound_ready(st) /\ st.inb = "closed",
   data      |-> IF outbound_ready(st) /\ st.out # "closed" THEN 1 ELSE 0,
   fin_write |-> outbound_ready(st) /\ st.out # "open"
                   /\ (st.out = "half" => st.ready = 1),
   syn       |-> st.syn]

poll_progress(st) ==
  LET u    == update(st)
      left == st.ready - u.data
  IN  [st EXCEPT !.syn = FALSE,
                 !.credit = IF u.fin_read THEN 0 ELSE @ - u.credit,
                 !.inFin.sent = @ \/ u.fin_read,
                 !.ready = left,
                 !.unacked = @ + u.data,
                 !.writer = @ /\ left > 0,
                 !.out = IF u.fin_write THEN "closed" ELSE @,
                 !.outFin.sent = @ \/ u.fin_write]

-----------------------------------------------------------------------------
(* StreamHandle::received: WINDOW, DATA, FIN_WRITE, FIN_READ, in order.    *)
(* The pool, and the error of exceeding it, are in module Inbound.         *)

after_fin_write(st) == st.inb = "half" \/ st.inFin.received

received_error(st, frame) ==
  CASE frame.credit > 0 /\ st.outFin.received -> "sent window update after FIN_READ"
    [] frame.credit > st.unacked -> "returned more credit than was in flight"
    [] frame.data > 0 /\ after_fin_write(st) -> "sent data after FIN_WRITE"
    [] frame.fin_write /\ after_fin_write(st) -> "sent duplicate FIN_WRITE"
    [] frame.fin_read /\ st.outFin.received -> "sent duplicate FIN_READ"
    [] OTHER -> "none"

\* The data of a direction that the application closed is discarded.
received_data(st, n) ==
  IF st.inb = "open" /\ n > 0
  THEN [st EXCEPT !.unread = @ + n, !.reader = FALSE]
  ELSE st

\* A second FIN_WRITE changes nothing.
received_fin_write_drop(st) ==
  [st EXCEPT !.inb = "closed", !.inFin.received = TRUE, !.unread = 0, !.reader = FALSE]
received_fin_write(st) ==
  IF st.inb = "open" /\ st.unread > 0
  THEN [st EXCEPT !.inb = "half"]
  ELSE IF st.inb = "half" THEN st
  ELSE [st EXCEPT !.inb = "closed", !.inFin.received = TRUE, !.reader = FALSE]

close_reading_side_asleep(st) ==
  [st EXCEPT !.out = "closed", !.ready = 0, !.outFin.received = TRUE]
close_reading_side(st) ==
  [st EXCEPT !.out = "closed", !.ready = 0, !.outFin.received = TRUE,
             !.writer = FALSE]

received_fin_read(st) == [close_reading_side(st) EXCEPT !.unacked = 0]

received(st, frame) ==
  LET credited == [st EXCEPT !.unacked = @ - frame.credit]
      data     == received_data(credited, frame.data)
      finished == IF frame.fin_write THEN received_fin_write(data) ELSE data
  IN  IF frame.fin_read THEN received_fin_read(finished) ELSE finished

\* The connection is gone: what arrived can be read, and then the end.
abort(st) == close_reading_side(received_fin_write(st))
=============================================================================
