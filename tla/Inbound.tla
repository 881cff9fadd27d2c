------------------------------- MODULE Inbound -------------------------------
(***************************************************************************)
(* The receiving direction of the streams of one connection                *)
(* (src/stream/inbound.rs), its pool, and the application's end of it      *)
(* (RammuxStream in src/stream/duplex.rs).                                 *)
(***************************************************************************)
EXTENDS Link

CONSTANT
  MaxCredit     \* the most credit one WINDOW carries, u32::MAX

ASSUME InboundAssumption == MaxCredit \in Nat \ {0}

VARIABLES
  inb,            \* InboundState: "open", "half" (closed) or "closed"
  inFin,          \* FinState of the direction: FIN_READ sent, FIN_WRITE received
  unread,         \* ready_data: the frames received and not read yet
  rxUnacked,      \* Window.unacked
  rxUsed,         \* rx_pool.used
  credit,         \* bytes read and not credited back yet
  readTo,         \* position of the last byte the application read
  reader,         \* RammuxStream: "held", "ended" (it returned None) or "dropped"
  rxAwake,        \* streams whose StreamUpdates is scheduled
  parkedReaders   \* streams whose application waits for data

inboundVars ==
  <<inb, inFin, unread, rxUnacked, rxUsed, credit, readTo, reader, rxAwake,
    parkedReaders>>

T_c == credit_threshold(B)

InboundTypeOK ==
  /\ inb \in [Streams -> {"open", "half", "closed"}]
  /\ inFin \in [Streams -> [sent : BOOLEAN, received : BOOLEAN]]
  /\ unread \in [Streams -> Seq(Frame)]
  /\ rxUnacked \in [Streams -> Nat]
  /\ rxUsed \in Nat
  /\ credit \in [Streams -> Nat]
  /\ readTo \in [Streams -> Nat]
  /\ reader \in [Streams -> {"held", "ended", "dropped"}]
  /\ rxAwake \subseteq Streams
  /\ parkedReaders \subseteq Streams

InboundInit ==
  /\ inb = [s \in Streams |-> "open"]
  /\ inFin = [s \in Streams |-> [sent |-> FALSE, received |-> FALSE]]
  /\ unread = [s \in Streams |-> <<>>]
  /\ rxUnacked = [s \in Streams |-> 0]
  /\ rxUsed = 0
  /\ credit = [s \in Streams |-> 0]
  /\ readTo = [s \in Streams |-> 0]
  /\ reader = [s \in Streams |-> "held"]
  /\ rxAwake = Streams
  /\ parkedReaders = {}

-----------------------------------------------------------------------------
(* The application: RammuxStream::poll_next and its drop.                  *)

\* No data yet.
read_pending(s) ==
  /\ reader[s] = "held"
  /\ inb[s] = "open"
  /\ unread[s] = <<>>
  /\ parkedReaders' = parkedReaders \cup {s}
  /\ UNCHANGED <<inb, inFin, unread, rxUnacked, rxUsed, credit, readTo, reader,
                 rxAwake>>
  /\ UNCHANGED linkVars

\* A chunk.  The last one of a half-closed direction closes it.
read_chunk(s) ==
  LET chunk    == Head(unread[s])
      finished == inb[s] = "half" /\ Tail(unread[s]) = <<>>
  IN  /\ reader[s] = "held"
      /\ inb[s] # "closed"
      /\ unread[s] # <<>>
      /\ unread' = [unread EXCEPT ![s] = Tail(@)]
      /\ inb' = [inb EXCEPT ![s] = IF finished THEN "closed" ELSE @]
      /\ inFin' = [inFin EXCEPT ![s].received = finished]
      /\ credit' = [credit EXCEPT ![s] = @ + Size(chunk)]
      /\ readTo' = [readTo EXCEPT ![s] = chunk.to]
      /\ rxAwake' = IF finished \/ credit'[s] >= T_c
                    THEN rxAwake \cup {s} ELSE rxAwake
      /\ UNCHANGED <<rxUnacked, rxUsed, reader, parkedReaders>>
      /\ UNCHANGED linkVars

\* The end of the stream: None.
read_end(s) ==
  /\ reader[s] = "held"
  /\ inb[s] = "closed"
  /\ reader' = [reader EXCEPT ![s] = "ended"]
  /\ UNCHANGED <<inb, inFin, unread, rxUnacked, rxUsed, credit, readTo, rxAwake,
                 parkedReaders>>
  /\ UNCHANGED linkVars

\* The RammuxStream is dropped before it ended: close_reading.
close_reading(s) ==
  /\ reader[s] = "held"
  /\ reader' = [reader EXCEPT ![s] = "dropped"]
  /\ parkedReaders' = parkedReaders \ {s}
  /\ IF inb[s] = "closed"
     THEN UNCHANGED <<inb, inFin, unread, rxAwake>>
     ELSE /\ inb' = [inb EXCEPT ![s] = "closed"]
          /\ inFin' = [inFin EXCEPT ![s].received = inb[s] = "half"]
          /\ unread' = [unread EXCEPT ![s] = <<>>]
          /\ rxAwake' = rxAwake \cup {s}
  /\ UNCHANGED <<rxUnacked, rxUsed, credit, readTo>>
  /\ UNCHANGED linkVars

-----------------------------------------------------------------------------
(* StreamUpdates::poll_progress, for this direction.                       *)

poll_inbound_idle(s) ==
  /\ IF inb[s] = "closed" THEN inFin[s].sent ELSE credit[s] < T_c
  /\ rxAwake' = rxAwake \ {s}
  /\ UNCHANGED <<inb, inFin, unread, rxUnacked, rxUsed, credit, readTo, reader,
                 parkedReaders>>
  /\ UNCHANGED linkVars

\* The position up to which the bytes were credited back.
credited(s) == readTo[s] - credit[s]

\* What the next WINDOW gives back.
credit_due(s) == Least(credit[s], MaxCredit)

\* WINDOW.
poll_credit(s) ==
  LET n == credit_due(s)
  IN  /\ inb[s] # "closed"
      /\ credit[s] >= T_c
      /\ credit' = [credit EXCEPT ![s] = @ - n]
      /\ rxUnacked' = [rxUnacked EXCEPT ![s] = @ - n]
      /\ rxUsed' = set_used(rxUsed, rxUnacked[s], rxUnacked[s] - n)
      /\ toWriter' = [toWriter EXCEPT ![s] = Append(@,
                   [from |-> credited(s), to |-> credited(s) + n, fin |-> FALSE])]
      /\ rxAwake' = rxAwake \cup {s}
      /\ UNCHANGED <<inb, inFin, unread, readTo, reader, parkedReaders>>
      /\ UNCHANGED <<toReader, error>>

\* FIN_READ, once nothing more will be read.
poll_fin_read(s) ==
  /\ inb[s] = "closed"
  /\ ~inFin[s].sent
  /\ inFin' = [inFin EXCEPT ![s].sent = TRUE]
  /\ credit' = [credit EXCEPT ![s] = 0]
  /\ rxUnacked' = [rxUnacked EXCEPT ![s] = 0]
  /\ rxUsed' = set_used(rxUsed, rxUnacked[s], 0)
  /\ toWriter' = [toWriter EXCEPT ![s] = Append(@,
                    [from |-> credited(s), to |-> credited(s), fin |-> TRUE])]
  /\ rxAwake' = rxAwake \cup {s}
  /\ UNCHANGED <<inb, unread, readTo, reader, parkedReaders>>
  /\ UNCHANGED <<toReader, error>>

-----------------------------------------------------------------------------
(* StreamHandle::received, for this direction: received_data, and then     *)
(* received_fin_write.                                                     *)

\* The data counts against the window until FIN_READ is written.
counts_after_fin_read(s) == ~inFin[s].received
counts(s) ==
  inb[s] = "open" \/ (inb[s] = "closed" /\ ~inFin[s].sent /\ ~inFin[s].received)

after_fin_write(s) == inb[s] = "half" \/ inFin[s].received

\* ready_data with the payload of a frame.
add_chunk_front(s, frame) ==
  IF inb[s] = "open" /\ Size(frame) > 0 THEN <<frame>> \o unread[s] ELSE unread[s]
add_chunk(s, frame) ==
  IF inb[s] = "open" /\ Size(frame) > 0 THEN Append(unread[s], frame) ELSE unread[s]

\* FIN_WRITE finds nothing left to read.
drains_late(frame, chunks)   == FALSE
drains_always(frame, chunks) == frame.fin
drains(frame, chunks)        == frame.fin /\ chunks = <<>>

\* The application is woken for data, and for the end.
wakes_for_data(s, frame) == inb[s] = "open" /\ Size(frame) > 0
wakes_reader(s, frame) ==
  inb[s] = "open" /\ (Size(frame) > 0 \/ drains(frame, add_chunk(s, frame)))

received_error(s, frame, used) ==
  CASE Size(frame) > 0 /\ after_fin_write(s) -> "sent data after FIN_WRITE"
    [] Size(frame) > 0 /\ counts(s) /\ is_overdrawn(used) ->
                                                "exceeded the receive pool"
    [] frame.fin /\ after_fin_write(s) -> "sent duplicate FIN_WRITE"
    [] OTHER -> "none"

received(s) ==
  LET frame   == Head(toReader[s])
      n       == IF counts(s) THEN Size(frame) ELSE 0
      used    == set_used(rxUsed, rxUnacked[s], rxUnacked[s] + n)
      chunks  == add_chunk(s, frame)
      drained == drains(frame, chunks)
  IN  /\ toReader[s] # <<>>
      /\ toReader' = [toReader EXCEPT ![s] = Tail(@)]
      /\ error' = received_error(s, frame, used)
      /\ IF error' = "none"
         THEN /\ rxUnacked' = [rxUnacked EXCEPT ![s] = @ + n]
              /\ rxUsed' = used
              /\ unread' = [unread EXCEPT ![s] = chunks]
              /\ inb' = [inb EXCEPT ![s] =
                           IF ~frame.fin \/ @ = "closed" THEN @
                           ELSE IF drained THEN "closed" ELSE "half"]
              /\ inFin' = [inFin EXCEPT ![s].received =
                             @ \/ (frame.fin /\ (inb[s] = "closed" \/ drained))]
              /\ rxAwake' = IF inb[s] = "open" /\ drained
                            THEN rxAwake \cup {s} ELSE rxAwake
              /\ parkedReaders' = IF wakes_reader(s, frame)
                                  THEN parkedReaders \ {s} ELSE parkedReaders
         ELSE UNCHANGED <<rxUnacked, rxUsed, unread, inb, inFin, rxAwake,
                          parkedReaders>>
      /\ UNCHANGED <<credit, readTo, reader, toWriter>>
=============================================================================
