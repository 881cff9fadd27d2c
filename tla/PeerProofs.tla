----------------------------- MODULE PeerProofs -----------------------------
(***************************************************************************)
(* What one peer keeps, whatever the other does: every operation on a stream *)
(* keeps the invariant of the stream, and every step of the connection keeps *)
(* those of its side and of its downgrade. Nobody is left asleep, an aborted *)
(* stream loses no byte, and the handover of the transport is clean.       *)
(***************************************************************************)
EXTENDS PeerInvariant, TLAPS

\* The provers of a leaf that names none, in the order they are tried.
USE ZenonT(10), SMTT(40), ZenonT(40)

\* The types of the fields.
LEMMA StreamTypes ==
  ASSUME NEW st \in Stream
  PROVE  /\ st.held \in BOOLEAN /\ st.gen \in {0, 1} /\ st.syn \in BOOLEAN
         /\ st.out \in {"open", "half", "closed"} /\ st.inb \in {"open", "half", "closed"}
         /\ st.outFin \in FinState /\ st.inFin \in FinState
         /\ st.outFin.sent \in BOOLEAN /\ st.outFin.received \in BOOLEAN
         /\ st.inFin.sent \in BOOLEAN /\ st.inFin.received \in BOOLEAN
         /\ st.ready \in Nat /\ st.ready <= MaxChunk /\ st.unacked \in Nat /\ st.unacked <= Window
         /\ st.writer \in BOOLEAN /\ st.reader \in BOOLEAN
         /\ st.unread \in Nat /\ st.credit \in Nat
BY SMTT(40) DEF Stream, FinState

\* RammuxSink: a write.
LEMMA WriteStep ==
  ASSUME NEW st, StreamInv(st), can_write(st), NEW n \in 1 .. MaxChunk
  PROVE  StreamInv(write(st, n)) /\ AppStep(st, write(st, n))
<1> DEFINE r == write(st, n)
<1>0. st \in Stream
  BY SMTT(40) DEF StreamInv
<1> USE <1>0
<1>1. /\ r.held = st.held /\ r.gen = st.gen /\ r.syn = st.syn /\ r.out = st.out
      /\ r.outFin = st.outFin /\ r.ready = n /\ r.unacked = st.unacked
      /\ r.writer = st.writer /\ r.inb = st.inb /\ r.inFin = st.inFin
      /\ r.unread = st.unread /\ r.credit = st.credit /\ r.reader = st.reader
  BY SMTT(40) DEF write, Stream
<1> USE <1>1
<1>2. n \in 0 .. MaxChunk /\ n > 0
  BY StreamAssumption, SMTT(40)
<1> USE <1>2
<1>3. r \in Stream
  BY DEF write, Stream
<1> HIDE DEF r
<1>4. StreamInv(r)
  BY <1>3, SMTT(40) DEF StreamInv, can_write
<1>5. AppStep(st, r)
  BY StreamTypes, SMTT(40) DEF AppStep, after_fin_write
<1> QED
  BY <1>4, <1>5, SMTT(40) DEF r

\* RammuxSink: waiting for the data to be sent.
LEMMA ParkWriterStep ==
  ASSUME NEW st, StreamInv(st), st.ready > 0
  PROVE  /\ StreamInv([st EXCEPT !.writer = TRUE])
         /\ AppStep(st, [st EXCEPT !.writer = TRUE])
<1> DEFINE r == [st EXCEPT !.writer = TRUE]
<1>0. st \in Stream
  BY SMTT(40) DEF StreamInv
<1> USE <1>0
<1>1. /\ r.held = st.held /\ r.gen = st.gen /\ r.syn = st.syn /\ r.out = st.out
      /\ r.outFin = st.outFin /\ r.ready = st.ready /\ r.unacked = st.unacked
      /\ r.inb = st.inb /\ r.inFin = st.inFin
      /\ r.unread = st.unread /\ r.credit = st.credit /\ r.reader = st.reader
  BY SMTT(40) DEF Stream
<1> USE <1>1
<1>2. r \in Stream
  BY DEF Stream
<1> HIDE DEF r
<1>3. StreamInv(r)
  BY <1>2, SMTT(40) DEF StreamInv
<1>4. AppStep(st, r)
  BY StreamTypes, SMTT(40) DEF AppStep, after_fin_write
<1> QED
  BY <1>3, <1>4, SMTT(40) DEF r

\* RammuxSink::poll_close: the application closes, and waits or not.
LEMMA CloseWritingStep ==
  ASSUME NEW st, StreamInv(st), st.out = "open", NEW waits \in BOOLEAN
  PROVE  LET r == [close_writing(st) EXCEPT !.writer = waits /\ st.ready > 0]
         IN  StreamInv(r) /\ AppStep(st, r)
<1> DEFINE w == waits /\ st.ready > 0
           r == [close_writing(st) EXCEPT !.writer = w]
<1>0. st \in Stream
  BY SMTT(40) DEF StreamInv
<1> USE <1>0
<1>1. /\ r.held = st.held /\ r.gen = st.gen /\ r.syn = st.syn
      /\ r.out = (IF st.ready = 0 THEN "closed" ELSE "half")
      /\ r.outFin = st.outFin /\ r.ready = st.ready /\ r.unacked = st.unacked
      /\ r.writer = w /\ r.inb = st.inb /\ r.inFin = st.inFin
      /\ r.unread = st.unread /\ r.credit = st.credit /\ r.reader = st.reader
  <2> HIDE DEF w
  <2> QED BY DEF Stream, close_writing
<1> USE <1>1
<1>2. w \in BOOLEAN /\ (w => st.ready > 0)
  OBVIOUS
<1> USE <1>2
<1>3. r \in Stream
  <2> HIDE DEF w
  <2> QED BY DEF Stream, close_writing
<1> HIDE DEF r, w
<1>4. StreamInv(r)
  BY <1>3, StreamTypes, SMTT(40) DEF StreamInv
<1>5. AppStep(st, r)
  BY StreamTypes, SMTT(40) DEF AppStep, after_fin_write
<1> QED
  BY <1>4, <1>5, SMTT(40) DEF r, w

\* RammuxStream::poll_next: a chunk is read, and with the last one of a
\* direction that its sender closed the direction ends.
LEMMA PollReadStep ==
  ASSUME NEW st, StreamInv(st), can_read(st)
  PROVE  StreamInv(poll_read(st)) /\ AppStep(st, poll_read(st))
<1> DEFINE r == poll_read(st)
           finished == st.inb = "half" /\ st.unread = 1
<1>0. st \in Stream /\ finished \in BOOLEAN
  BY SMTT(40) DEF StreamInv
<1> USE <1>0
<1>1. /\ r.held = st.held /\ r.gen = st.gen /\ r.syn = st.syn /\ r.out = st.out
      /\ r.outFin = st.outFin /\ r.ready = st.ready /\ r.unacked = st.unacked
      /\ r.writer = st.writer /\ r.reader = st.reader
      /\ r.inb = (IF finished THEN "closed" ELSE st.inb)
      /\ r.unread = st.unread - 1 /\ r.credit = st.credit + 1
  BY DEF Stream, poll_read
<1> USE <1>1
<1>2. r.inFin = [st.inFin EXCEPT !.received = finished]
  BY DEF Stream, poll_read
<1> HIDE DEF r
<1>3. r.inFin \in FinState /\ r.inFin.sent = st.inFin.sent /\ r.inFin.received = finished
  BY <1>2 DEF Stream, FinState
<1> USE <1>3
<1>4. st.unread > 0 /\ r.unread \in Nat /\ r.credit \in Nat
  BY StreamTypes, SMTT(40) DEF can_read
<1> USE <1>4
<1>5. r \in Stream
  BY DEF Stream, poll_read, r
<1>6. ~st.inFin.sent /\ ~st.inFin.received /\ st.inb # "closed"
  BY SMTT(40) DEF StreamInv, can_read
<1> USE <1>6
<1>7. StreamInv(r)
  BY <1>5, StreamTypes, SMTT(40) DEF StreamInv
<1>8. AppStep(st, r)
  <2>1. after_fin_write(r) <=> after_fin_write(st)
    BY DEF after_fin_write
  <2>2. r.unread + r.credit <= st.unread + st.credit
    BY StreamTypes, SMTT(40)
  <2> QED
    BY <2>1, <2>2 DEF AppStep
<1> QED
  BY <1>7, <1>8, SMTT(40) DEF r

\* RammuxStream: waiting for data.
LEMMA ParkReaderStep ==
  ASSUME NEW st, StreamInv(st), st.inb = "open", st.unread = 0
  PROVE  /\ StreamInv([st EXCEPT !.reader = TRUE])
         /\ AppStep(st, [st EXCEPT !.reader = TRUE])
<1> DEFINE r == [st EXCEPT !.reader = TRUE]
<1>0. st \in Stream
  BY SMTT(40) DEF StreamInv
<1> USE <1>0
<1>1. /\ r.held = st.held /\ r.gen = st.gen /\ r.syn = st.syn /\ r.out = st.out
      /\ r.outFin = st.outFin /\ r.ready = st.ready /\ r.unacked = st.unacked
      /\ r.inb = st.inb /\ r.inFin = st.inFin /\ r.writer = st.writer
      /\ r.unread = st.unread /\ r.credit = st.credit
  BY SMTT(40) DEF Stream
<1> USE <1>1
<1>2. r \in Stream
  BY DEF Stream
<1> HIDE DEF r
<1>3. StreamInv(r)
  BY <1>2, SMTT(40) DEF StreamInv
<1>4. AppStep(st, r)
  BY StreamTypes, SMTT(40) DEF AppStep, after_fin_write
<1> QED
  BY <1>3, <1>4, SMTT(40) DEF r

\* RammuxStream: the application closes or drops the reading half.
LEMMA CloseReadingStep ==
  ASSUME NEW st, StreamInv(st), st.inb # "closed"
  PROVE  StreamInv(close_reading(st)) /\ AppStep(st, close_reading(st))
<1> DEFINE r == close_reading(st)
           half == st.inb = "half"
<1>0. st \in Stream /\ half \in BOOLEAN
  BY SMTT(40) DEF StreamInv
<1> USE <1>0
<1>1. /\ r.held = st.held /\ r.gen = st.gen /\ r.syn = st.syn /\ r.out = st.out
      /\ r.outFin = st.outFin /\ r.ready = st.ready /\ r.unacked = st.unacked
      /\ r.writer = st.writer /\ r.reader = FALSE /\ r.inb = "closed"
      /\ r.unread = 0 /\ r.credit = st.credit
  BY DEF Stream, close_reading
<1> USE <1>1
<1>2. r.inFin = [st.inFin EXCEPT !.received = half]
  BY DEF Stream, close_reading
<1> HIDE DEF r
<1>3. r.inFin \in FinState /\ r.inFin.sent = st.inFin.sent /\ r.inFin.received = half
  BY <1>2 DEF Stream, FinState
<1> USE <1>3
<1>4. 0 \in Nat
  OBVIOUS
<1>5. r \in Stream
  BY <1>4 DEF Stream, close_reading, r
<1>6. ~st.inFin.sent /\ ~st.inFin.received
  BY SMTT(40) DEF StreamInv
<1> USE <1>6
<1>7. StreamInv(r)
  BY <1>5, StreamTypes, SMTT(40) DEF StreamInv
<1>8. AppStep(st, r)
  <2>1. after_fin_write(r) <=> after_fin_write(st)
    BY DEF after_fin_write
  <2>2. r.unread + r.credit <= st.unread + st.credit
    BY StreamTypes, SMTT(40)
  <2> QED
    BY <2>1, <2>2 DEF AppStep
<1> QED
  BY <1>7, <1>8, SMTT(40) DEF r

-----------------------------------------------------------------------------
(* StreamUpdates::poll_progress.                                           *)

Update ==
  [credit : Nat, fin_read : BOOLEAN, data : {0, 1}, fin_write : BOOLEAN, syn : BOOLEAN]

\* The fields of an update.
LEMMA UpdateFields ==
  ASSUME NEW st, StreamInv(st)
  PROVE  LET u == update(st)
             in == inbound_ready(st)
             out == outbound_ready(st)
         IN  /\ u \in Update /\ u.syn = st.syn
             /\ in \in BOOLEAN /\ out \in BOOLEAN
             /\ u.credit = (IF in /\ st.inb # "closed" THEN st.credit ELSE 0)
             /\ u.fin_read <=> in /\ st.inb = "closed"
             /\ u.data = (IF out /\ st.out # "closed" THEN 1 ELSE 0)
             /\ u.fin_write <=> out /\ st.out # "open" /\ (st.out = "half" => st.ready = 1)
<1> DEFINE in == inbound_ready(st)
           out == outbound_ready(st)
           u == update(st)
<1>0. st \in Stream
  BY SMTT(40) DEF StreamInv
<1>1. in \in BOOLEAN /\ out \in BOOLEAN
  <2>1. (st.credit >= T_c) \in BOOLEAN /\ (st.ready > 0 /\ st.unacked < Window) \in BOOLEAN
    OBVIOUS
  <2>2. (~st.inFin.sent) \in BOOLEAN /\ (~st.outFin.sent) \in BOOLEAN
    OBVIOUS
  <2> QED
    BY <2>1, <2>2 DEF inbound_ready, outbound_ready
<1> USE <1>1
<1>2. /\ u.credit = (IF in /\ st.inb # "closed" THEN st.credit ELSE 0)
      /\ u.fin_read = (in /\ st.inb = "closed")
      /\ u.data = (IF out /\ st.out # "closed" THEN 1 ELSE 0)
      /\ u.fin_write = (out /\ st.out # "open" /\ (st.out = "half" => st.ready = 1))
      /\ u.syn = st.syn
  BY DEF update
<1> USE <1>2
<1>3. 0 \in Nat /\ st.credit \in Nat /\ st.syn \in BOOLEAN
  BY <1>0, StreamTypes, SMTT(40)
<1>4. u \in Update
  BY <1>3 DEF update, Update
<1> QED
  BY <1>4

\* poll_progress keeps the invariant, and sends what an update may send.
LEMMA PollProgressStep ==
  ASSUME NEW st, StreamInv(st), st.held, inbound_ready(st) \/ outbound_ready(st)
  PROVE  LET u == update(st)
             r == poll_progress(st)
         IN  /\ StreamInv(r) /\ SendStep(st, r, u) /\ r.held
             /\ u.data = 1 \/ u.credit > 0 \/ u.fin_read \/ u.fin_write
<1> DEFINE u == update(st)
           r == poll_progress(st)
           in == inbound_ready(st)
           out == outbound_ready(st)
<1>0. st \in Stream
  BY SMTT(40) DEF StreamInv
<1> USE <1>0
<1>1. /\ u \in Update /\ u.syn = st.syn
      /\ in \in BOOLEAN /\ out \in BOOLEAN
      /\ u.credit = (IF in /\ st.inb # "closed" THEN st.credit ELSE 0)
      /\ u.fin_read <=> in /\ st.inb = "closed"
      /\ u.data = (IF out /\ st.out # "closed" THEN 1 ELSE 0)
      /\ u.fin_write <=> out /\ st.out # "open" /\ (st.out = "half" => st.ready = 1)
  BY UpdateFields, SMTT(40)
<1> USE <1>1
<1>2. /\ in <=> (IF st.inb = "closed" THEN ~st.inFin.sent ELSE st.credit >= T_c)
      /\ out <=> (IF st.out = "closed" THEN ~st.outFin.sent
                  ELSE st.ready > 0 /\ st.unacked < Window)
  BY SMTT(40) DEF inbound_ready, outbound_ready
<1> USE <1>2
<1>3. T_c \in Nat /\ T_c > 0
  BY StreamAssumption, SMTT(40) DEF T_c
<1> HIDE DEF in, out
<1>4. /\ u.credit \in Nat /\ u.data \in {0, 1} /\ u.fin_read \in BOOLEAN
      /\ u.fin_write \in BOOLEAN
  BY DEF Update
<1> USE <1>4
<1> HIDE DEF u
<1>5. /\ r.held = st.held /\ r.gen = st.gen /\ r.syn = FALSE
      /\ r.out = (IF u.fin_write THEN "closed" ELSE st.out)
      /\ r.ready = st.ready - u.data /\ r.unacked = st.unacked + u.data
      /\ r.writer = (st.writer /\ st.ready - u.data > 0) /\ r.reader = st.reader
      /\ r.inb = st.inb /\ r.unread = st.unread
      /\ r.credit = (IF u.fin_read THEN 0 ELSE st.credit - u.credit)
  BY DEF Stream, poll_progress, u
<1> USE <1>5
<1>6. /\ r.inFin = [st.inFin EXCEPT !.sent = @ \/ u.fin_read]
      /\ r.outFin = [st.outFin EXCEPT !.sent = @ \/ u.fin_write]
  BY DEF Stream, poll_progress, u
<1> HIDE DEF r
<1>7. /\ r.inFin \in FinState /\ r.outFin \in FinState
      /\ r.inFin.received = st.inFin.received /\ r.outFin.received = st.outFin.received
      /\ r.inFin.sent = (st.inFin.sent \/ u.fin_read)
      /\ r.outFin.sent = (st.outFin.sent \/ u.fin_write)
  BY <1>6 DEF Stream, FinState
<1> USE <1>7
<1>8. /\ r.ready \in 0 .. MaxChunk /\ r.unacked \in 0 .. Window /\ r.credit \in Nat
      /\ r.writer \in BOOLEAN
  BY StreamTypes, StreamAssumption, SMTT(40)
<1>9. r \in Stream
  BY <1>8 DEF Stream, poll_progress, r, u
<1>10. /\ u.fin_read \/ u.credit > 0 => ~st.inFin.sent
       /\ u.fin_write \/ u.data > 0 => ~st.outFin.sent
       /\ u.data > 0 => ~st.outFin.received
  BY StreamTypes, SMTT(40) DEF StreamInv
<1>11. SendStep(st, r, u)
  <2>1. r.credit + u.credit <= st.credit
    BY StreamTypes, SMTT(40)
  <2> QED
    BY <1>10, <2>1 DEF SendStep
<1>12. u.data = 1 \/ u.credit > 0 \/ u.fin_read \/ u.fin_write
  BY <1>3, StreamTypes, SMTT(40) DEF in, out
<1>13. StreamInv(r)
  <2>1. /\ r.outFin.sent \/ r.outFin.received => r.out = "closed"
        /\ r.inFin.sent \/ r.inFin.received => r.inb = "closed"
    BY DEF StreamInv
  <2>2. /\ r.inb = "closed" => r.unread = 0
        /\ r.inb = "half" => r.unread > 0
        /\ r.reader => r.inb = "open" /\ r.unread = 0
    BY DEF StreamInv
  <2>3. /\ r.out = "closed" => r.ready = 0
        /\ r.out = "half" => r.ready > 0
    BY StreamTypes, SMTT(40) DEF StreamInv
  <2>4. r.inFin.sent => r.credit = 0
    BY StreamTypes, SMTT(40) DEF StreamInv
  <2>5. r.writer => r.ready > 0
    OBVIOUS
  <2> QED
    BY <1>9, <2>1, <2>2, <2>3, <2>4, <2>5 DEF StreamInv
<1> QED
  BY <1>11, <1>12, <1>13 DEF r, u

-----------------------------------------------------------------------------
(* StreamHandle::received.                                                 *)

\* InboundState: data that arrives.
LEMMA ReceivedDataStep ==
  ASSUME NEW st, StreamInv(st), NEW n \in {0, 1}
  PROVE  LET r == received_data(st, n)
         IN  /\ StreamInv(r) /\ r.unread <= st.unread + n
             /\ r.held = st.held /\ r.gen = st.gen /\ r.syn = st.syn /\ r.out = st.out
             /\ r.outFin = st.outFin /\ r.unacked = st.unacked
             /\ r.inb = st.inb /\ r.inFin = st.inFin /\ r.credit = st.credit
<1> DEFINE r == received_data(st, n)
<1>0. st \in Stream
  BY SMTT(40) DEF StreamInv
<1> USE <1>0
<1>1. CASE st.inb = "open" /\ n > 0
  <2> USE <1>1
  <2>1. r = [st EXCEPT !.unread = @ + n, !.reader = FALSE]
    BY DEF received_data
  <2> USE <2>1
  <2> HIDE DEF r
  <2>2. /\ r.held = st.held /\ r.gen = st.gen /\ r.syn = st.syn /\ r.out = st.out
        /\ r.outFin = st.outFin /\ r.ready = st.ready /\ r.unacked = st.unacked
        /\ r.writer = st.writer /\ r.reader = FALSE /\ r.inb = st.inb /\ r.inFin = st.inFin
        /\ r.unread = st.unread + n /\ r.credit = st.credit
    BY DEF Stream
  <2> USE <2>2
  <2>3. st.unread + n \in Nat /\ st.unread + n <= st.unread + n
    BY StreamTypes, SMTT(40)
  <2> USE <2>3
  <2>4. r \in Stream
    BY DEF Stream
  <2>5. StreamInv(r)
    BY <2>4 DEF StreamInv
  <2> QED
    BY <2>5 DEF r
<1>2. CASE ~(st.inb = "open" /\ n > 0)
  <2>1. r = st
    BY <1>2 DEF received_data
  <2>2. st.unread <= st.unread + n
    BY StreamTypes, SMTT(40)
  <2> QED
    BY <2>1, <2>2
<1> QED
  BY <1>1, <1>2, SMTT(40)

\* InboundState: the other side closed its direction.
LEMMA ReceivedFinWriteStep ==
  ASSUME NEW st, StreamInv(st)
  PROVE  LET r == received_fin_write(st)
         IN  /\ StreamInv(r) /\ after_fin_write(r) /\ r.inb # "open"
             /\ r.held = st.held /\ r.gen = st.gen /\ r.syn = st.syn /\ r.out = st.out
             /\ r.outFin = st.outFin /\ r.unacked = st.unacked
             /\ r.inFin.sent = st.inFin.sent /\ r.unread = st.unread /\ r.credit = st.credit
<1> DEFINE r == received_fin_write(st)
<1>0. st \in Stream
  BY SMTT(40) DEF StreamInv
<1> USE <1>0
<1>1. CASE st.inb = "open" /\ st.unread > 0
  <2> USE <1>1
  <2>1. r = [st EXCEPT !.inb = "half"]
    BY DEF received_fin_write
  <2> USE <2>1
  <2> HIDE DEF r
  <2>2. /\ r.held = st.held /\ r.gen = st.gen /\ r.syn = st.syn /\ r.out = st.out
        /\ r.outFin = st.outFin /\ r.ready = st.ready /\ r.unacked = st.unacked
        /\ r.writer = st.writer /\ r.reader = st.reader /\ r.inb = "half"
        /\ r.inFin = st.inFin /\ r.unread = st.unread /\ r.credit = st.credit
    BY DEF Stream
  <2> USE <2>2
  <2>3. r \in Stream
    BY DEF Stream
  <2>4. StreamInv(r)
    BY <2>3, StreamTypes, SMTT(40) DEF StreamInv
  <2> QED
    BY <2>4 DEF r, after_fin_write
<1>2. CASE st.inb = "half"
  <2> USE <1>2
  <2>1. r = st
    BY DEF received_fin_write
  <2> QED
    BY <2>1 DEF after_fin_write
<1>3. CASE ~(st.inb = "open" /\ st.unread > 0) /\ st.inb # "half"
  <2> USE <1>3
  <2>1. r = [st EXCEPT !.inb = "closed", !.inFin.received = TRUE, !.reader = FALSE]
    BY DEF received_fin_write
  <2> USE <2>1
  <2> HIDE DEF r
  <2>2. /\ r.held = st.held /\ r.gen = st.gen /\ r.syn = st.syn /\ r.out = st.out
        /\ r.outFin = st.outFin /\ r.ready = st.ready /\ r.unacked = st.unacked
        /\ r.writer = st.writer /\ r.reader = FALSE /\ r.inb = "closed"
        /\ r.inFin = [st.inFin EXCEPT !.received = TRUE]
        /\ r.unread = st.unread /\ r.credit = st.credit
    BY DEF Stream
  <2> USE <2>2
  <2>3. r.inFin \in FinState /\ r.inFin.sent = st.inFin.sent /\ r.inFin.received = TRUE
    BY DEF Stream, FinState
  <2> USE <2>3
  <2>4. r \in Stream
    BY DEF Stream
  <2>5. r.unread = 0
    BY StreamTypes, SMTT(40) DEF StreamInv
  <2>6. StreamInv(r)
    BY <2>4, <2>5 DEF StreamInv
  <2> QED
    BY <2>6 DEF r, after_fin_write
<1> QED
  BY <1>1, <1>2, <1>3, SMTT(40)

\* OutboundState: the other side wants no more data.
LEMMA CloseReadingSideStep ==
  ASSUME NEW st, StreamInv(st)
  PROVE  LET r == close_reading_side(st)
         IN  /\ StreamInv(r) /\ r.outFin.received /\ r.out = "closed"
             /\ r.held = st.held /\ r.gen = st.gen /\ r.syn = st.syn
             /\ r.outFin.sent = st.outFin.sent /\ r.unacked = st.unacked
             /\ r.inb = st.inb /\ r.inFin = st.inFin
             /\ r.unread = st.unread /\ r.credit = st.credit
<1> DEFINE r == close_reading_side(st)
<1>0. st \in Stream
  BY SMTT(40) DEF StreamInv
<1> USE <1>0
<1>1. /\ r.held = st.held /\ r.gen = st.gen /\ r.syn = st.syn /\ r.out = "closed"
      /\ r.outFin = [st.outFin EXCEPT !.received = TRUE]
      /\ r.ready = 0 /\ r.unacked = st.unacked
      /\ r.writer = FALSE /\ r.reader = st.reader /\ r.inb = st.inb
      /\ r.inFin = st.inFin /\ r.unread = st.unread /\ r.credit = st.credit
  BY DEF Stream, close_reading_side
<1> USE <1>1
<1> HIDE DEF r
<1>2. r.outFin \in FinState /\ r.outFin.sent = st.outFin.sent /\ r.outFin.received = TRUE
  BY DEF Stream, FinState
<1> USE <1>2
<1>3. 0 \in 0 .. MaxChunk
  BY StreamAssumption, SMTT(40)
<1>4. r \in Stream
  BY <1>3 DEF Stream, close_reading_side, r
<1>5. StreamInv(r)
  BY <1>4 DEF StreamInv
<1> QED
  BY <1>5 DEF r

\* received_fin_read: the writing side is over, and what it had sent need not
\* be acknowledged any more.
LEMMA ReceivedFinReadStep ==
  ASSUME NEW st, StreamInv(st)
  PROVE  LET r == received_fin_read(st)
         IN  /\ StreamInv(r) /\ r.outFin.received /\ r.unacked = 0
             /\ r.held = st.held /\ r.gen = st.gen /\ r.syn = st.syn
             /\ r.outFin.sent = st.outFin.sent
             /\ r.inb = st.inb /\ r.inFin = st.inFin
             /\ r.unread = st.unread /\ r.credit = st.credit
<1> DEFINE s == close_reading_side(st)
           r == [s EXCEPT !.unacked = 0]
<1>1. /\ StreamInv(s) /\ s.outFin.received
      /\ s.held = st.held /\ s.gen = st.gen /\ s.syn = st.syn
      /\ s.outFin.sent = st.outFin.sent
      /\ s.inb = st.inb /\ s.inFin = st.inFin
      /\ s.unread = st.unread /\ s.credit = st.credit
  BY CloseReadingSideStep
<1> USE <1>1
<1> HIDE DEF s
<1>2. s \in Stream
  BY SMTT(40) DEF StreamInv
<1> USE <1>2
<1>3. /\ r.held = s.held /\ r.gen = s.gen /\ r.syn = s.syn /\ r.out = s.out
      /\ r.outFin = s.outFin /\ r.ready = s.ready /\ r.unacked = 0
      /\ r.writer = s.writer /\ r.reader = s.reader /\ r.inb = s.inb
      /\ r.inFin = s.inFin /\ r.unread = s.unread /\ r.credit = s.credit
  BY DEF Stream
<1> USE <1>3
<1>4. 0 \in 0 .. Window
  BY StreamAssumption, SMTT(40)
<1>5. r \in Stream
  BY <1>4 DEF Stream
<1> HIDE DEF r
<1>6. StreamInv(r)
  BY <1>5 DEF StreamInv
<1>7. received_fin_read(st) = r
  BY DEF received_fin_read, r, s
<1> QED
  BY <1>6, <1>7

\* What a frame says of its stream.
Content(frame) ==
  /\ frame.credit \in Nat /\ frame.data \in {0, 1}
  /\ frame.fin_read \in BOOLEAN /\ frame.fin_write \in BOOLEAN

\* StreamHandle::received, for a frame that is no violation.
LEMMA ReceivedStep ==
  ASSUME NEW st, StreamInv(st), NEW frame, Content(frame),
         received_error(st, frame) = "none"
  PROVE  LET r == received(st, frame) IN StreamInv(r) /\ TakeStep(st, r, frame)
<1> DEFINE a == [st EXCEPT !.unacked = @ - frame.credit]
           b == received_data(a, frame.data)
           c == IF frame.fin_write THEN received_fin_write(b) ELSE b
           r == IF frame.fin_read THEN received_fin_read(c) ELSE c
<1>0. st \in Stream
  BY SMTT(40) DEF StreamInv
<1> USE <1>0
<1>1. frame.credit <= st.unacked
  <2>1. received_error(st, frame) # "returned more credit than was in flight"
        /\ received_error(st, frame) # "sent window update after FIN_READ"
    OBVIOUS
  <2>2. ~(frame.credit > st.unacked)
    BY <2>1, SMTT(40) DEF received_error
  <2> QED
    BY <2>2, StreamTypes, SMTT(40) DEF Content
<1>2. st.unacked - frame.credit \in 0 .. Window
  BY <1>1, StreamTypes, StreamAssumption, SMTT(40) DEF Content
<1>3. /\ a.held = st.held /\ a.gen = st.gen /\ a.syn = st.syn /\ a.out = st.out
      /\ a.outFin = st.outFin /\ a.ready = st.ready /\ a.unacked = st.unacked - frame.credit
      /\ a.writer = st.writer /\ a.reader = st.reader /\ a.inb = st.inb
      /\ a.inFin = st.inFin /\ a.unread = st.unread /\ a.credit = st.credit
  BY DEF Stream
<1> USE <1>3
<1>4. a \in Stream
  BY <1>2 DEF Stream
<1> HIDE DEF a
<1>5. StreamInv(a)
  BY <1>4 DEF StreamInv
<1>6. /\ StreamInv(b) /\ b.unread <= a.unread + frame.data
      /\ b.held = a.held /\ b.gen = a.gen /\ b.syn = a.syn
      /\ b.outFin = a.outFin /\ b.unacked = a.unacked
      /\ b.inb = a.inb /\ b.inFin = a.inFin /\ b.credit = a.credit
  BY <1>5, ReceivedDataStep DEF Content
<1> USE <1>6
<1> HIDE DEF b
<1>7. /\ StreamInv(c)
      /\ c.unread = b.unread /\ c.held = b.held /\ c.gen = b.gen /\ c.syn = b.syn
      /\ c.outFin = b.outFin /\ c.unacked = b.unacked
      /\ c.inFin.sent = b.inFin.sent /\ c.credit = b.credit
      /\ after_fin_write(c) <=> after_fin_write(b) \/ frame.fin_write
  BY ReceivedFinWriteStep
<1> USE <1>7
<1> HIDE DEF c
<1>8. /\ StreamInv(r)
      /\ r.unread = c.unread /\ r.held = c.held /\ r.gen = c.gen /\ r.syn = c.syn
      /\ r.outFin.sent = c.outFin.sent /\ r.inFin = c.inFin /\ r.inb = c.inb
      /\ r.credit = c.credit
      /\ r.outFin.received <=> c.outFin.received \/ frame.fin_read
      /\ r.unacked = IF frame.fin_read THEN 0 ELSE c.unacked
  BY ReceivedFinReadStep
<1> USE <1>8
<1>9. received(st, frame) = r
  BY DEF received, r, c, b, a
<1> HIDE DEF r
<1>10. after_fin_write(b) = after_fin_write(st) /\ after_fin_write(r) = after_fin_write(c)
  BY DEF after_fin_write
<1>11. TakeStep(st, r, frame)
  <2>1. r.unread <= st.unread + frame.data
    OBVIOUS
  <2>2. r.unacked = IF frame.fin_read THEN 0 ELSE st.unacked - frame.credit
    OBVIOUS
  <2>3. /\ r.inFin.sent = st.inFin.sent /\ r.outFin.sent = st.outFin.sent
        /\ r.outFin.received <=> st.outFin.received \/ frame.fin_read
        /\ after_fin_write(r) <=> after_fin_write(st) \/ frame.fin_write
    BY <1>10
  <2> QED
    BY <2>1, <2>2, <2>3 DEF TakeStep
<1> QED
  BY <1>9, <1>11

-----------------------------------------------------------------------------
(* The start and the end of a stream at a connection.                      *)

\* StreamHandle::new
LEMMA NewStep ==
  ASSUME NEW syn \in BOOLEAN, NEW g \in {0, 1}
  PROVE  LET r == new(syn, g)
         IN  /\ StreamInv(r) /\ r.held /\ r.gen = g /\ r.syn = syn
             /\ ~r.outFin.sent /\ ~r.outFin.received /\ ~r.inFin.sent
             /\ ~after_fin_write(r)
             /\ r.unacked = 0 /\ r.unread = 0 /\ r.credit = 0
<1> DEFINE r == new(syn, g)
<1>1. /\ r.held = TRUE /\ r.gen = g /\ r.syn = syn /\ r.out = "open" /\ r.outFin = NoFin
      /\ r.ready = 0 /\ r.unacked = 0 /\ r.writer = FALSE /\ r.inb = "open"
      /\ r.inFin = NoFin /\ r.unread = 0 /\ r.credit = 0 /\ r.reader = FALSE
  BY DEF new
<1> USE <1>1
<1>2. NoFin \in FinState /\ NoFin.sent = FALSE /\ NoFin.received = FALSE
  BY DEF NoFin, FinState
<1> USE <1>2
<1>3. 0 \in 0 .. MaxChunk /\ 0 \in 0 .. Window /\ 0 \in Nat
  BY StreamAssumption, SMTT(40)
<1>4. r \in Stream
  BY <1>3 DEF new, Stream
<1> HIDE DEF r
<1>5. StreamInv(r)
  BY <1>4 DEF StreamInv
<1> QED
  BY <1>5 DEF r, after_fin_write

\* An ID that no stream had yet looks like one whose stream is dead.
LEMMA NoStreamInv == StreamInv(NoStream) /\ is_dead(NoStream) /\ ~NoStream.held
                     /\ NoStream.gen = 1 /\ ~NoStream.syn
                     /\ NoStream.unread = 0 /\ NoStream.credit = 0
<1> DEFINE fins == [sent |-> TRUE, received |-> TRUE]
           r    == [new(FALSE, 1) EXCEPT !.held = FALSE, !.out = "closed", !.outFin = fins,
                                         !.inb = "closed", !.inFin = fins]
<1>1. /\ r.held = FALSE /\ r.gen = 1 /\ r.syn = FALSE /\ r.out = "closed" /\ r.outFin = fins
      /\ r.ready = 0 /\ r.unacked = 0 /\ r.writer = FALSE /\ r.inb = "closed"
      /\ r.inFin = fins /\ r.unread = 0 /\ r.credit = 0 /\ r.reader = FALSE
  BY DEF new
<1> USE <1>1
<1>2. fins \in FinState /\ fins.sent = TRUE /\ fins.received = TRUE
  BY DEF FinState
<1> USE <1>2
<1>3. 0 \in 0 .. MaxChunk /\ 0 \in 0 .. Window /\ 0 \in Nat
  BY StreamAssumption, SMTT(40)
<1>4. r \in Stream
  BY <1>3 DEF new, Stream
<1>5. NoStream = r
  BY DEF NoStream
<1> HIDE DEF r, fins
<1>6. StreamInv(r)
  BY <1>4 DEF StreamInv
<1> QED
  BY <1>5, <1>6 DEF is_dead

\* StreamHandle::abort: both halves learn of the end, nobody is left waiting,
\* and no unread data is lost.
LEMMA AbortStep ==
  ASSUME NEW st, StreamInv(st)
  PROVE  LET r == [abort(st) EXCEPT !.held = FALSE]
         IN  StreamInv(r) /\ r.unread = st.unread
<1> DEFINE a == received_fin_write(st)
           b == close_reading_side(a)
           r == [b EXCEPT !.held = FALSE]
<1>1. StreamInv(a) /\ a.inb # "open" /\ a.unread = st.unread
  BY ReceivedFinWriteStep
<1> USE <1>1
<1> HIDE DEF a
<1>2. StreamInv(b) /\ b.out = "closed" /\ b.inb = a.inb /\ b.unread = a.unread
  BY CloseReadingSideStep
<1> USE <1>2
<1> HIDE DEF b
<1>3. b \in Stream
  BY SMTT(40) DEF StreamInv
<1> USE <1>3
<1>4. /\ r.held = FALSE /\ r.gen = b.gen /\ r.syn = b.syn /\ r.out = b.out
      /\ r.outFin = b.outFin /\ r.ready = b.ready /\ r.unacked = b.unacked
      /\ r.writer = b.writer /\ r.reader = b.reader /\ r.inb = b.inb
      /\ r.inFin = b.inFin /\ r.unread = b.unread /\ r.credit = b.credit
  BY DEF Stream
<1> USE <1>4
<1>5. r \in Stream
  BY DEF Stream
<1>6. abort(st) = b
  BY DEF abort, a, b
<1> HIDE DEF r
<1>7. StreamInv(r)
  BY <1>5 DEF StreamInv
<1> QED
  BY <1>6, <1>7 DEF r

\* remove_if_dead, for a stream with a handle.
LEMMA RemoveStep ==
  ASSUME NEW t, StreamInv(t)
  PROVE  LET r == remove_if_dead(t)
         IN  /\ StreamInv(r) /\ r.gen = t.gen /\ r.syn = t.syn /\ r.unacked = t.unacked
             /\ r.inFin = t.inFin /\ r.outFin = t.outFin
             /\ r.unread = t.unread /\ r.credit = t.credit /\ r.inb = t.inb
             /\ after_fin_write(r) <=> after_fin_write(t)
             /\ r.held <=> ~is_dead(t)
             /\ r.held <=> ~is_dead(r)
<1> DEFINE r == remove_if_dead(t)
<1>0. t \in Stream
  BY SMTT(40) DEF StreamInv
<1> USE <1>0
<1>1. (~is_dead(t)) \in BOOLEAN
  OBVIOUS
<1>2. /\ r.held = ~is_dead(t) /\ r.gen = t.gen /\ r.syn = t.syn /\ r.out = t.out
      /\ r.outFin = t.outFin /\ r.ready = t.ready /\ r.unacked = t.unacked
      /\ r.writer = t.writer /\ r.reader = t.reader /\ r.inb = t.inb
      /\ r.inFin = t.inFin /\ r.unread = t.unread /\ r.credit = t.credit
  BY DEF Stream, remove_if_dead
<1> USE <1>2
<1>3. r \in Stream
  BY <1>1 DEF Stream, remove_if_dead
<1> HIDE DEF r
<1>4. is_dead(t) => t.out = "closed" /\ t.inb = "closed"
  BY DEF is_dead, StreamInv
<1>5. StreamInv(r)
  BY <1>3, <1>4 DEF StreamInv
<1>6. (r.held <=> ~is_dead(r)) /\ (after_fin_write(r) <=> after_fin_write(t))
  BY DEF is_dead, after_fin_write
<1> QED
  BY <1>5, <1>6 DEF r

\* A frame of the stream is taken (SYN or not), and the stream goes if it is
\* dead then.
LEMMA TakeRemove ==
  ASSUME NEW b, NEW t, NEW x, StreamInv(t), TakeStep(b, t, x)
  PROVE  LET r == remove_if_dead(t)
         IN  StreamInv(r) /\ TakeStep(b, r, x) /\ (r.held <=> ~is_dead(r))
BY RemoveStep DEF TakeStep

-----------------------------------------------------------------------------
(* Peers, packets and channels.                                            *)

\* There are two peers, and every ID belongs to one of them.
LEMMA OtherPeer ==
  ASSUME NEW p \in Peers
  PROVE  /\ Other(p) \in Peers /\ Other(p) # p /\ Other(Other(p)) = p
         /\ \A q \in Peers : q = p \/ q = Other(p)
         /\ \A id : (initiated_by(id) = Other(p)) = (~(initiated_by(id) = p))
<1>1. \A id : initiated_by(id) = "client" \/ initiated_by(id) = "server"
  BY DEF initiated_by
<1> QED
  BY <1>1 DEF Peers, Other

\* TERM, a stream frame and what an application writes to a recovered
\* transport are told apart.
LEMMA PacketKinds ==
  /\ Term # Raw /\ Term \notin StreamFrame /\ Raw \notin StreamFrame
  /\ \A x \in StreamFrame : x # Term /\ x # Raw
<1>1. Term.term = TRUE /\ DOMAIN Term = {"term"} /\ DOMAIN Raw = {"raw"}
  BY SMTT(40) DEF Term, Raw
<1>2. \A x \in StreamFrame : "id" \in DOMAIN x
  BY SMTT(40) DEF StreamFrame
<1>3. "term" # "raw" /\ "term" # "id" /\ "raw" # "id"
  OBVIOUS
<1> QED
  BY <1>1, <1>2, <1>3

\* A frame is put into the codec.
LEMMA ChanEnqueue ==
  ASSUME NEW w \in Seq(Packet), NEW x \in Packet
  PROVE  Grown(w \o <<>>, w \o <<x>>, x)
BY SMTT(40) DEF Grown

\* The codec writes what it holds.
LEMMA ChanWrite ==
  ASSUME NEW w \in Seq(Packet), NEW s \in Seq(Packet)
  PROVE  (w \o s) \o <<>> = w \o s
OBVIOUS

\* The application writes to the transport that it got back.
LEMMA ChanAppend ==
  ASSUME NEW w \in Seq(Packet), NEW x \in Packet
  PROVE  Grown(w \o <<>>, Append(w, x) \o <<>>, x)
BY SMTT(40) DEF Grown

\* The reader takes the first packet.
LEMMA ChanTake ==
  ASSUME NEW w \in Seq(Packet), NEW s \in Seq(Packet), w # <<>>
  PROVE  Taken(w \o s, Tail(w) \o s) /\ (w \o s)[1] = Head(w) /\ Head(w) \in Packet
BY SMTT(40) DEF Taken

\* What the codec holds is dropped.
LEMMA ChanDrop ==
  ASSUME NEW w \in Seq(Packet), NEW s \in Seq(Packet)
  PROVE  Cut(w \o s, w \o <<>>)
BY SMTT(40) DEF Cut

\* What was written comes before what the codec holds.
LEMMA ChanStart ==
  ASSUME NEW w \in Seq(Packet), NEW s \in Seq(Packet), NEW i \in 1 .. Len(w)
  PROVE  i \in 1 .. Len(w \o s) /\ (w \o s)[i] = w[i]
OBVIOUS

\* An action that sets one stream leaves all the others alone.
LEMMA SetStreamEffect ==
  ASSUME TypeInv, NEW p \in Peers, NEW id \in Ids, NEW r \in Stream, SetStream(p, id, r)
  PROVE  /\ streams' \in [Peers -> [Ids -> Stream]]
         /\ streams'[p][id] = r /\ OnlyStream(p, id)
BY SMTT(40) DEF TypeInv, SetStream, OnlyStream

\* A step of an application: one call on one stream handle.
LEMMA ApplicationEffect ==
  ASSUME TypeInv, LocalInv, NEW p \in Peers, NEW id \in Ids, Application(p, id)
  PROVE  /\ streams' \in [Peers -> [Ids -> Stream]] /\ OnlyStream(p, id)
         /\ StreamInv(streams'[p][id]) /\ AppStep(streams[p][id], streams'[p][id])
<1> DEFINE st == streams[p][id]
<1>1. StreamInv(st)
  BY DEF LocalInv
<1> USE <1>1
<1>2. \E r : StreamInv(r) /\ AppStep(st, r) /\ SetStream(p, id, r)
  <2>1. CASE \E n \in 1 .. MaxChunk : can_write(st) /\ SetStream(p, id, write(st, n))
    BY <2>1, WriteStep
  <2>2. CASE st.ready > 0 /\ SetStream(p, id, [st EXCEPT !.writer = TRUE])
    BY <2>2, ParkWriterStep
  <2>3. CASE st.out = "open" /\ \E waits \in BOOLEAN :
                SetStream(p, id, [close_writing(st) EXCEPT !.writer = waits /\ st.ready > 0])
    BY <2>3, CloseWritingStep
  <2>4. CASE can_read(st) /\ SetStream(p, id, poll_read(st))
    BY <2>4, PollReadStep
  <2>5. CASE st.inb = "open" /\ st.unread = 0 /\ SetStream(p, id, [st EXCEPT !.reader = TRUE])
    BY <2>5, ParkReaderStep
  <2>6. CASE st.inb # "closed" /\ SetStream(p, id, close_reading(st))
    BY <2>6, CloseReadingStep
  <2> QED
    BY <2>1, <2>2, <2>3, <2>4, <2>5, <2>6 DEF Application
<1>3. PICK r : StreamInv(r) /\ AppStep(st, r) /\ SetStream(p, id, r)
  BY <1>2, SMTT(40)
<1> USE <1>3
<1>4. r \in Stream
  BY SMTT(40) DEF StreamInv
<1> QED
  BY <1>4, SetStreamEffect

\* An action that starts a stream.
LEMMA OpenEffect ==
  ASSUME TypeInv, LocalInv, NEW p \in Peers, open_outbound(p)
  PROVE  \E id \in Ids :
           /\ ~streams[p][id].held /\ initiated_by(id) = p
           /\ streams' \in [Peers -> [Ids -> Stream]] /\ OnlyStream(p, id)
           /\ StreamInv(streams'[p][id]) /\ streams'[p][id].held /\ ~is_dead(streams'[p][id])
           /\ streams'[p][id] = new(TRUE, 1 - streams[p][id].gen)
<1>1. PICK id \in Ids : /\ id \notin Held(p, p) /\ initiated_by(id) = p
                        /\ SetStream(p, id, new(TRUE, 1 - streams[p][id].gen))
  BY DEF open_outbound
<1> USE <1>1
<1> DEFINE g == 1 - streams[p][id].gen
           r == new(TRUE, g)
<1>2. g \in {0, 1}
  <2>1. StreamInv(streams[p][id])
    BY DEF LocalInv
  <2> QED
    BY <2>1, StreamTypes, SMTT(40) DEF StreamInv
<1>3. StreamInv(r) /\ r.held /\ ~r.inFin.sent
  BY <1>2, NewStep
<1> USE <1>3
<1>4. r \in Stream /\ ~is_dead(r)
  BY DEF StreamInv, is_dead
<1> USE <1>4
<1>5. ~streams[p][id].held
  BY DEF Held
<1>6. /\ streams' \in [Peers -> [Ids -> Stream]]
      /\ streams'[p][id] = r /\ OnlyStream(p, id)
  BY SetStreamEffect
<1> QED
  BY <1>5, <1>6

\* Streams::poll_send takes the update of one stream and queues it as one
\* frame.
LEMMA SendEffect ==
  ASSUME TypeInv, LocalInv, NEW p \in Peers, poll_send(p)
  PROVE  \E id \in Ids, x \in StreamFrame : Sends(p, id, x)
<1> DEFINE st(id) == streams[p][id]
           u(id) == update(st(id))
           F(id) == [id |-> id, gen |-> st(id).gen, syn |-> u(id).syn, credit |-> u(id).credit,
                     data |-> u(id).data, fin_read |-> u(id).fin_read,
                     fin_write |-> u(id).fin_write]
<1>1. PICK id \in Ids : /\ st(id).held /\ (inbound_ready(st(id)) \/ outbound_ready(st(id)))
                        /\ pending' = [pending EXCEPT ![p] = <<F(id)>>]
                        /\ SetStream(p, id, remove_if_dead(poll_progress(st(id))))
  BY DEF poll_send
<1> USE <1>1
<1> DEFINE s == streams[p][id]
           v == update(s)
           x == F(id)
           t == poll_progress(s)
           r == remove_if_dead(t)
<1>2. StreamInv(s)
  BY DEF LocalInv
<1> USE <1>2
<1>3. /\ StreamInv(t) /\ SendStep(s, t, v)
      /\ v.data = 1 \/ v.credit > 0 \/ v.fin_read \/ v.fin_write
  BY PollProgressStep
<1> USE <1>3
<1>4. v \in Update /\ s.gen \in {0, 1}
  BY UpdateFields, StreamTypes DEF StreamInv
<1> HIDE DEF v, s, t
<1>5. /\ x.id = id /\ x.gen = s.gen /\ x.syn = v.syn /\ x.credit = v.credit
      /\ x.data = v.data /\ x.fin_read = v.fin_read /\ x.fin_write = v.fin_write
  BY DEF s, v
<1> USE <1>5
<1>6. x \in StreamFrame
  BY <1>4 DEF StreamFrame, Update, s, v
<1> HIDE DEF F
<1>7. /\ StreamInv(r) /\ r.gen = t.gen /\ r.syn = t.syn /\ r.unacked = t.unacked
      /\ r.inFin = t.inFin /\ r.outFin = t.outFin
      /\ r.unread = t.unread /\ r.credit = t.credit /\ r.inb = t.inb
      /\ r.held <=> ~is_dead(r)
  BY RemoveStep
<1> USE <1>7
<1> HIDE DEF r
<1>8. SendStep(s, r, x)
  BY DEF SendStep
<1>9. Speaks(x)
  BY DEF Speaks
<1>10. r \in Stream
  BY SMTT(40) DEF StreamInv
<1>11. /\ streams' \in [Peers -> [Ids -> Stream]]
       /\ streams'[p][id] = r /\ OnlyStream(p, id)
  BY <1>10, SetStreamEffect DEF r, t, s
<1>12. Sends(p, id, x)
  BY <1>8, <1>9, <1>11 DEF Sends, s
<1> QED
  BY <1>6, <1>12

\* Streams::receive raises no error only if the stream itself raises none,
\* and a SYN is for a stream that does not exist.
LEMMA NoReceivedError ==
  ASSUME NEW p, NEW x \in StreamFrame, receive_error(p, x) = "none"
  PROVE  /\ received_error(IF x.syn THEN new(FALSE, x.gen) ELSE streams[p][x.id], x) = "none"
         /\ ~(initiated_by(x.id) = p /\ x.syn)
         /\ x.syn <=> ~streams[p][x.id].held
<1> DEFINE st == streams[p][x.id]
<1>1. ~(initiated_by(x.id) = p /\ x.syn)
  BY DEF receive_error
<1> USE <1>1
<1>2. ~(~st.held /\ ~x.syn)
  BY DEF receive_error
<1> USE <1>2
<1>3. ~(st.held /\ x.syn)
  BY DEF receive_error
<1> USE <1>3
<1>4. ~(x.syn /\ Cardinality(Held(p, Other(p))) >= MaxStreams)
  BY DEF receive_error
<1>5. receive_error(p, x) = received_error(IF x.syn THEN new(FALSE, x.gen) ELSE st, x)
  BY <1>4 DEF receive_error
<1> QED
  BY <1>5

\* Streams::receive of a frame without a violation: the stream, which the
\* frame may start, takes it.
LEMMA TakeEffect ==
  ASSUME TypeInv, LocalInv, NEW p \in Peers, NEW x \in StreamFrame,
         receive_error(p, x) = "none",
         SetStream(p, x.id, remove_if_dead(received(
           IF x.syn THEN new(FALSE, x.gen) ELSE streams[p][x.id], x)))
  PROVE  x.id \in Ids /\ Takes(p, x.id, x)
<1> DEFINE b == IF x.syn THEN new(FALSE, x.gen) ELSE streams[p][x.id]
           t == received(b, x)
           r == remove_if_dead(t)
<1>1. x.id \in Ids /\ x.gen \in {0, 1} /\ Content(x)
  BY SMTT(40) DEF StreamFrame, Content
<1> USE <1>1
<1>2. StreamInv(b)
  <2>1. CASE x.syn
    BY <2>1, NewStep
  <2>2. CASE ~x.syn
    BY <2>2 DEF LocalInv
  <2> QED
    BY <2>1, <2>2
<1>3. received_error(b, x) = "none"
  BY NoReceivedError
<1>4. SetStream(p, x.id, r)
  OBVIOUS
<1> HIDE DEF b
<1>5. StreamInv(t) /\ TakeStep(b, t, x)
  BY <1>2, <1>3, ReceivedStep
<1> HIDE DEF t
<1>6. StreamInv(r) /\ TakeStep(b, r, x) /\ (r.held <=> ~is_dead(r))
  BY <1>5, TakeRemove
<1> USE <1>6
<1>7. r \in Stream
  BY SMTT(40) DEF StreamInv
<1> HIDE DEF r
<1>8. /\ streams' \in [Peers -> [Ids -> Stream]]
      /\ streams'[p][x.id] = r /\ OnlyStream(p, x.id)
  BY <1>4, <1>7, SetStreamEffect
<1>9. TakeStep(IF x.syn THEN new(FALSE, x.gen) ELSE streams[p][x.id], r, x)
  BY DEF b
<1> QED
  BY <1>8, <1>9 DEF Takes

\* Streams::drop aborts the streams of one peer, and leaves what can be read.
LEMMA AbortEffect ==
  ASSUME TypeInv, LocalInv, NEW p \in Peers, abort_all(p)
  PROVE  Aborts(p)
<1> DEFINE A(id) == IF streams[p][id].held
                    THEN [abort(streams[p][id]) EXCEPT !.held = FALSE] ELSE streams[p][id]
<1>1. ASSUME NEW id \in Ids
      PROVE  StreamInv(A(id)) /\ A(id).unread = streams[p][id].unread /\ A(id) \in Stream
  <2>1. StreamInv(streams[p][id])
    BY DEF LocalInv
  <2>2. StreamInv(A(id)) /\ A(id).unread = streams[p][id].unread
    BY <2>1, AbortStep
  <2> QED
    BY <2>2 DEF StreamInv
<1> USE <1>1
<1>2. streams' = [streams EXCEPT ![p] = [id \in Ids |-> A(id)]]
  BY SMTT(40) DEF abort_all
<1> HIDE DEF A
<1>3. [id \in Ids |-> A(id)] \in [Ids -> Stream]
  OBVIOUS
<1>4. /\ streams' \in [Peers -> [Ids -> Stream]]
      /\ \A id \in Ids : streams'[p][id] = A(id)
      /\ \A q \in Peers, id \in Ids : q # p => streams'[q][id] = streams[q][id]
  BY <1>2, <1>3, SMTT(40) DEF TypeInv
<1> QED
  BY <1>4 DEF Aborts

-----------------------------------------------------------------------------
(* Types, and the streams of each peer.                                    *)

\* The steps of the connection, one by one.
LEMMA NextCases ==
  ASSUME [Next]_vars
  PROVE  \/ UNCHANGED vars
         \/ \E p \in Peers :
              \/ \E id \in Ids : Application(p, id)
              \/ open_outbound(p) \/ write_pending(p) \/ poll_send(p) \/ receive(p)
              \/ fail(p) \/ receive_eof(p) \/ write_fails(p) \/ downgrade(p) \/ receive_term(p)
              \/ \E next \in {"Enqueued", "Flushed", "ShutDown"} : poll_recover_writer(p, next)
              \/ poll_recover_reader(p) \/ poll_downgraded(p) \/ raw_write(p) \/ raw_read(p)
BY DEF Next, Exchange, Downgrading

\* The part of TypeInv that is not about streams.
OuterInv ==
  /\ conn \in [Peers -> {"active", "downgraded", "recovered", "poisoned"}]
  /\ pending \in [Peers -> Seq(Packet)] /\ \A p \in Peers : Len(pending[p]) <= 1
  /\ wire \in [Peers -> Seq(Packet)]
  /\ term_sent \in [Peers -> {"Init", "Enqueued", "Flushed", "ShutDown"}]
  /\ term_received \in [Peers -> BOOLEAN]

\* ConnState::poison: the connection is over, and what its codec held is
\* lost.
LEMMA PoisonOuter ==
  ASSUME OuterInv, NEW p \in Peers, NEW kind, poison(p, kind)
  PROVE  /\ conn' \in [Peers -> {"active", "downgraded", "recovered", "poisoned"}]
         /\ conn'[p] = "poisoned" /\ \A q \in Peers : q # p => conn'[q] = conn[q]
         /\ pending' \in [Peers -> Seq(Packet)] /\ \A q \in Peers : Len(pending'[q]) <= 1
         /\ pending'[p] = <<>> /\ \A q \in Peers : q # p => pending'[q] = pending[q]
         /\ term_sent' = term_sent /\ term_received' = term_received /\ abort_all(p)
BY SMTT(40) DEF OuterInv, poison

\* Every step keeps the types of what is outside the streams.
LEMMA OuterStep ==
  ASSUME TypeInv, LocalInv, [Next]_vars
  PROVE  OuterInv'
<1>0. OuterInv
  BY DEF TypeInv, OuterInv
<1> USE <1>0
<1>1. CASE UNCHANGED vars
  BY <1>1, SMTT(40) DEF OuterInv, vars
<1>2. ASSUME NEW p \in Peers, NEW id \in Ids, Application(p, id)
      PROVE  OuterInv'
  BY <1>2, SMTT(40) DEF OuterInv, Application, connVars
<1>3. ASSUME NEW p \in Peers, open_outbound(p)
      PROVE  OuterInv'
  BY <1>3, SMTT(40) DEF OuterInv, open_outbound, connVars
<1>4. ASSUME NEW p \in Peers, write_pending(p)
      PROVE  OuterInv'
  BY <1>4, SMTT(40) DEF OuterInv, write_pending, connVars
<1>5. ASSUME NEW p \in Peers, poll_send(p)
      PROVE  OuterInv'
  <2> USE <1>5
  <2>1. PICK id \in Ids, x \in StreamFrame : Sends(p, id, x)
    BY SendEffect, SMTT(40)
  <2>2. pending' = [pending EXCEPT ![p] = <<x>>] /\ x \in Packet
    BY <2>1 DEF Sends, Packet
  <2>3. UNCHANGED <<connVars, wire>>
    BY DEF poll_send
  <2> QED
    BY <2>2, <2>3, SMTT(40) DEF OuterInv, connVars
<1>6. ASSUME NEW p \in Peers, receive(p)
      PROVE  OuterInv'
  <2> USE <1>6
  <2>0. Other(p) \in Peers
    BY OtherPeer
  <2>1. wire[Other(p)] # <<>> /\ wire' = [wire EXCEPT ![Other(p)] = Tail(@)]
    BY DEF receive
  <2>2. wire' \in [Peers -> Seq(Packet)]
    BY <2>0, <2>1, SMTT(40) DEF OuterInv
  <2> USE <2>2
  <2>3. (\E kind : poison(p, kind)) \/ UNCHANGED <<connVars, pending>>
    BY DEF receive
  <2>4. CASE \E kind : poison(p, kind)
    BY <2>4, PoisonOuter DEF OuterInv
  <2>5. CASE UNCHANGED <<connVars, pending>>
    BY <2>5 DEF OuterInv, connVars
  <2> QED
    BY <2>3, <2>4, <2>5, SMTT(40)
<1>7. ASSUME NEW p \in Peers, fail(p) \/ receive_eof(p) \/ write_fails(p)
      PROVE  OuterInv'
  <2>1. poison(p, "io") /\ UNCHANGED wire
    BY <1>7 DEF fail, receive_eof, write_fails
  <2> QED
    BY <2>1, PoisonOuter DEF OuterInv
<1>8. ASSUME NEW p \in Peers, downgrade(p)
      PROVE  OuterInv'
  BY <1>8, SMTT(40) DEF OuterInv, downgrade, start_downgrade
<1>9. ASSUME NEW p \in Peers, receive_term(p)
      PROVE  OuterInv'
  <2>0. Other(p) \in Peers
    BY OtherPeer
  <2> QED
    BY <1>9, <2>0, SMTT(40) DEF OuterInv, receive_term, start_downgrade
<1>10. ASSUME NEW p \in Peers, NEW next \in {"Enqueued", "Flushed", "ShutDown"},
              poll_recover_writer(p, next)
       PROVE  OuterInv'
  <2>1. Term \in Packet
    BY SMTT(40) DEF Packet
  <2> QED
    BY <1>10, <2>1, SMTT(40) DEF OuterInv, poll_recover_writer
<1>11. ASSUME NEW p \in Peers, poll_recover_reader(p)
       PROVE  OuterInv'
  <2> USE <1>11
  <2>0. Other(p) \in Peers
    BY OtherPeer
  <2>1. wire[Other(p)] # <<>> /\ wire' = [wire EXCEPT ![Other(p)] = Tail(@)]
    BY DEF poll_recover_reader
  <2>2. wire' \in [Peers -> Seq(Packet)]
    BY <2>0, <2>1, SMTT(40) DEF OuterInv
  <2> USE <2>2
  <2>3. CASE \E kind : poison(p, kind)
    BY <2>3, PoisonOuter DEF OuterInv
  <2>4. CASE /\ term_received' = [term_received EXCEPT ![p] = Head(wire[Other(p)]) = Term]
             /\ UNCHANGED <<conn, fault, term_sent, streams, pending>>
    BY <2>4, SMTT(40) DEF OuterInv
  <2> QED
    BY <2>3, <2>4 DEF poll_recover_reader
<1>12. ASSUME NEW p \in Peers, poll_downgraded(p)
       PROVE  OuterInv'
  BY <1>12, SMTT(40) DEF OuterInv, poll_downgraded
<1>13. ASSUME NEW p \in Peers, raw_write(p)
       PROVE  OuterInv'
  <2>1. Raw \in Packet
    BY SMTT(40) DEF Packet
  <2> QED
    BY <1>13, <2>1, SMTT(40) DEF OuterInv, raw_write, connVars
<1>14. ASSUME NEW p \in Peers, raw_read(p)
       PROVE  OuterInv'
  <2>0. Other(p) \in Peers
    BY OtherPeer
  <2> QED
    BY <1>14, <2>0, SMTT(40) DEF OuterInv, raw_read, connVars
<1> QED
  BY <1>1, <1>2, <1>3, <1>4, <1>5, <1>6, <1>7, <1>8, <1>9, <1>10, <1>11, <1>12, <1>13, <1>14,
     NextCases

\* A step that changes one stream.
LEMMA LocalOne ==
  ASSUME LocalInv, NEW p \in Peers, NEW id \in Ids, OnlyStream(p, id), conn' = conn,
         StreamInv(streams'[p][id]),
         conn[p] = "active" => (streams'[p][id].held <=> ~is_dead(streams'[p][id]))
  PROVE  LocalInv'
<1> SUFFICES ASSUME NEW q \in Peers, NEW j \in Ids
             PROVE  /\ StreamInv(streams'[q][j])
                    /\ conn[q] = "active" => (streams'[q][j].held <=> ~is_dead(streams'[q][j]))
  BY SMTT(40) DEF LocalInv
<1>1. CASE q = p /\ j = id
  BY <1>1
<1>2. CASE q # p \/ j # id
  <2>1. streams'[q][j] = streams[q][j]
    BY <1>2 DEF OnlyStream
  <2> QED
    BY <2>1 DEF LocalInv
<1> QED
  BY <1>1, <1>2

\* A step that changes none, and activates no connection.
LEMMA LocalSame ==
  ASSUME LocalInv, streams' = streams,
         \A p \in Peers : conn'[p] = "active" => conn[p] = "active"
  PROVE  LocalInv'
BY SMTT(40) DEF LocalInv

\* A step that ends a connection.
LEMMA LocalAborts ==
  ASSUME LocalInv, NEW p \in Peers, Aborts(p), conn'[p] # "active",
         \A q \in Peers : q # p => conn'[q] = conn[q]
  PROVE  LocalInv'
<1> SUFFICES ASSUME NEW q \in Peers, NEW j \in Ids
             PROVE  /\ StreamInv(streams'[q][j])
                    /\ conn'[q] = "active" => (streams'[q][j].held <=> ~is_dead(streams'[q][j]))
  BY SMTT(40) DEF LocalInv
<1>1. CASE q = p
  BY <1>1 DEF Aborts
<1>2. CASE q # p
  <2>1. streams'[q][j] = streams[q][j] /\ conn'[q] = conn[q]
    BY <1>2 DEF Aborts
  <2> QED
    BY <2>1 DEF LocalInv
<1> QED
  BY <1>1, <1>2, SMTT(40)

\* A step of an application neither kills nor revives a stream.
LEMMA AppKeepsDead ==
  ASSUME NEW s, NEW r, StreamInv(s), StreamInv(r), AppStep(s, r)
  PROVE  r.held = s.held /\ (is_dead(r) <=> is_dead(s))
BY DEF AppStep, is_dead

\* ConnState::poison ends a connection.
LEMMA PoisonLeaves ==
  ASSUME TypeInv, LocalInv, NEW p \in Peers, NEW kind, poison(p, kind)
  PROVE  Leaves(p)
<1>1. OuterInv
  BY DEF TypeInv, OuterInv
<1>2. /\ conn'[p] = "poisoned" /\ (\A q \in Peers : q # p => conn'[q] = conn[q])
      /\ abort_all(p)
  BY <1>1, PoisonOuter
<1> USE <1>2
<1>3. Aborts(p)
  BY AbortEffect
<1> QED
  BY <1>3, SMTT(40) DEF Leaves

\* ConnState::downgrade ends a connection.
LEMMA DowngradeLeaves ==
  ASSUME TypeInv, LocalInv, NEW p \in Peers, NEW b, start_downgrade(p, b)
  PROVE  Leaves(p)
<1>1. Aborts(p)
  BY AbortEffect DEF start_downgrade
<1>2. conn'[p] = "downgraded" /\ (\A q \in Peers : q # p => conn'[q] = conn[q])
  BY SMTT(40) DEF TypeInv, start_downgrade
<1> QED
  BY <1>1, <1>2, SMTT(40) DEF Leaves

\* What a step does to the streams and the connections.
StreamsStep ==
  \/ \E p \in Peers : Leaves(p)
  \/ \E p \in Peers, id \in Ids :
       /\ OnlyStream(p, id) /\ streams' \in [Peers -> [Ids -> Stream]] /\ conn' = conn
       /\ StreamInv(streams'[p][id])
       /\ conn[p] = "active" => (streams'[p][id].held <=> ~is_dead(streams'[p][id]))
  \/ streams' = streams /\ \A p \in Peers : (conn'[p] = "active") = (conn[p] = "active")

\* Every step does one of these things to the streams.
LEMMA EveryStreamsStep ==
  ASSUME TypeInv, LocalInv, [Next]_vars
  PROVE  StreamsStep
<1>1. CASE UNCHANGED vars
  BY <1>1 DEF vars, StreamsStep
<1>2. ASSUME NEW p \in Peers, NEW id \in Ids, Application(p, id)
      PROVE  StreamsStep
  <2> USE <1>2
  <2>1. /\ streams' \in [Peers -> [Ids -> Stream]] /\ OnlyStream(p, id)
        /\ StreamInv(streams'[p][id]) /\ AppStep(streams[p][id], streams'[p][id])
    BY ApplicationEffect
  <2> USE <2>1
  <2>2. conn' = conn
    BY DEF Application, connVars
  <2>3. /\ StreamInv(streams[p][id])
        /\ conn[p] = "active" => (streams[p][id].held <=> ~is_dead(streams[p][id]))
    BY DEF LocalInv
  <2> USE <2>3
  <2>4. /\ streams'[p][id].held = streams[p][id].held
        /\ is_dead(streams'[p][id]) <=> is_dead(streams[p][id])
    BY AppKeepsDead
  <2> QED
    BY <2>2, <2>4 DEF StreamsStep
<1>3. ASSUME NEW p \in Peers, open_outbound(p)
      PROVE  StreamsStep
  <2> USE <1>3
  <2>1. conn' = conn
    BY DEF open_outbound, connVars
  <2> QED
    BY <2>1, OpenEffect DEF StreamsStep
<1>4. ASSUME NEW p \in Peers, poll_send(p)
      PROVE  StreamsStep
  <2> USE <1>4
  <2>1. conn' = conn
    BY DEF poll_send, connVars
  <2> QED
    BY <2>1, SendEffect DEF StreamsStep, Sends
<1>5. ASSUME NEW p \in Peers, receive(p)
      PROVE  StreamsStep
  <2> USE <1>5
  <2> DEFINE x == Head(wire[Other(p)])
  <2>0. Other(p) \in Peers
    BY OtherPeer
  <2>1. wire[Other(p)] \in Seq(Packet) /\ wire[Other(p)] # <<>>
    BY <2>0 DEF receive, TypeInv
  <2>2. x \in Packet /\ x # Term
    <3>1. x \in Packet
      BY <2>1, SMTT(40)
    <3> QED
      BY <3>1 DEF receive
  <2>3. CASE \E kind : poison(p, kind)
    BY <2>3, PoisonLeaves DEF StreamsStep
  <2>4. CASE ~\E kind : poison(p, kind)
    <3>1. /\ x # Raw /\ receive_error(p, x) = "none"
          /\ SetStream(p, x.id, remove_if_dead(received(
               IF x.syn THEN new(FALSE, x.gen) ELSE streams[p][x.id], x)))
          /\ conn' = conn
      BY <2>4 DEF receive, connVars
    <3> USE <3>1
    <3>2. x \in StreamFrame
      BY <2>2 DEF Packet
    <3> HIDE DEF x
    <3>3. x.id \in Ids /\ Takes(p, x.id, x)
      BY <3>2, TakeEffect
    <3> QED
      BY <3>3 DEF StreamsStep, Takes
  <2> QED
    BY <2>3, <2>4, SMTT(40)
<1>6. ASSUME NEW p \in Peers, fail(p) \/ receive_eof(p) \/ write_fails(p)
      PROVE  StreamsStep
  <2>1. poison(p, "io")
    BY <1>6 DEF fail, receive_eof, write_fails
  <2> QED
    BY <2>1, PoisonLeaves DEF StreamsStep
<1>7. ASSUME NEW p \in Peers, downgrade(p) \/ receive_term(p)
      PROVE  StreamsStep
  <2>1. \E b : start_downgrade(p, b)
    BY <1>7 DEF downgrade, receive_term
  <2> QED
    BY <2>1, DowngradeLeaves DEF StreamsStep
<1>8. ASSUME NEW p \in Peers, poll_recover_reader(p)
      PROVE  StreamsStep
  <2>1. CASE \E kind : poison(p, kind)
    BY <2>1, PoisonLeaves DEF StreamsStep
  <2>2. CASE UNCHANGED <<conn, streams>>
    BY <2>2 DEF StreamsStep
  <2> QED
    BY <1>8, <2>1, <2>2 DEF poll_recover_reader
<1>9. ASSUME NEW p \in Peers, poll_downgraded(p)
      PROVE  StreamsStep
  BY <1>9, SMTT(40) DEF StreamsStep, poll_downgraded, TypeInv
<1>10. ASSUME NEW p \in Peers,
              \/ write_pending(p) \/ raw_write(p) \/ raw_read(p)
              \/ \E next \in {"Enqueued", "Flushed", "ShutDown"} : poll_recover_writer(p, next)
       PROVE  StreamsStep
  <2>1. UNCHANGED <<conn, streams>>
    BY <1>10 DEF write_pending, raw_write, raw_read, poll_recover_writer, connVars
  <2> QED
    BY <2>1 DEF StreamsStep
<1> QED
  BY <1>1, <1>2, <1>3, <1>4, <1>5, <1>6, <1>7, <1>8, <1>9, <1>10, NextCases

\* Every step keeps the types and the invariant of every stream.
LEMMA LocalStep ==
  ASSUME TypeInv, LocalInv, [Next]_vars
  PROVE  TypeInv' /\ LocalInv'
<1>1. OuterInv'
  BY OuterStep
<1>2. streams' \in [Peers -> [Ids -> Stream]] /\ LocalInv'
  <2>1. CASE \E p \in Peers : Leaves(p)
    BY <2>1, LocalAborts DEF Leaves, Aborts
  <2>2. CASE \E p \in Peers, id \in Ids :
               /\ OnlyStream(p, id) /\ streams' \in [Peers -> [Ids -> Stream]] /\ conn' = conn
               /\ StreamInv(streams'[p][id])
               /\ conn[p] = "active" => (streams'[p][id].held <=> ~is_dead(streams'[p][id]))
    BY <2>2, LocalOne
  <2>3. CASE streams' = streams /\ \A p \in Peers : (conn'[p] = "active") = (conn[p] = "active")
    BY <2>3, LocalSame DEF TypeInv
  <2> QED
    BY <2>1, <2>2, <2>3, EveryStreamsStep DEF StreamsStep
<1> QED
  BY <1>1, <1>2 DEF TypeInv, OuterInv

\* A new connection has no streams.
LEMMA LocalInit ==
  ASSUME Init
  PROVE  TypeInv /\ LocalInv
<1>1. StreamInv(NoStream) /\ is_dead(NoStream) /\ ~NoStream.held
  BY NoStreamInv
<1> USE <1>1
<1>2. NoStream \in Stream
  BY DEF StreamInv
<1> HIDE DEF NoStream
<1>3. \A p \in Peers, id \in Ids : streams[p][id] = NoStream
  BY SMTT(40) DEF Init
<1>4. LocalInv
  BY <1>3 DEF LocalInv
<1>5. TypeInv
  BY <1>2, SMTT(40) DEF TypeInv, Init
<1> QED
  BY <1>4, <1>5, SMTT(40)

\* No application waits on a half that nothing will wake: whatever the order
\* of writes, reads, closes, frames, failures and downgrades, a waiting
\* writer still has data on a stream that the connection holds, and a waiting
\* reader has nothing to read.
THEOREM NobodyIsForgotten == Spec => []NobodyForgotten
<1>1. Init => TypeInv /\ LocalInv
  BY LocalInit, SMTT(40)
<1>2. TypeInv /\ LocalInv /\ [Next]_vars => TypeInv' /\ LocalInv'
  BY LocalStep, SMTT(40)
<1>3. TypeInv /\ LocalInv => NobodyForgotten
  <2> SUFFICES ASSUME LocalInv, NEW p \in Peers, NEW id \in Ids
               PROVE  LET st == streams[p][id]
                      IN  /\ st.writer => st.held /\ st.out # "closed" /\ st.ready > 0
                          /\ st.reader => st.held /\ st.inb = "open" /\ st.unread = 0
    BY DEF NobodyForgotten
  <2> DEFINE st == streams[p][id]
  <2>1. StreamInv(st)
    BY DEF LocalInv
  <2> HIDE DEF st
  <2>2. /\ st.writer => st.held /\ st.out # "closed" /\ st.ready > 0
        /\ st.reader => st.held /\ st.inb = "open" /\ st.unread = 0
    BY <2>1, StreamTypes, SMTT(40) DEF StreamInv
  <2> QED
    BY <2>2, SMTT(40) DEF st
<1> QED
  BY <1>1, <1>2, <1>3, PTL DEF Spec

\* A step that ends a connection, by a failure, a violation or a downgrade,
\* leaves what the application has not read.
THEOREM AbortLosesNothing == Spec => AbortKeepsData
<1>1. Init => TypeInv /\ LocalInv
  BY LocalInit, SMTT(40)
<1>2. TypeInv /\ LocalInv /\ [Next]_vars => TypeInv' /\ LocalInv'
  BY LocalStep, SMTT(40)
<1>3. ASSUME TypeInv, LocalInv, [Next]_vars
      PROVE  [\A p \in Peers, id \in Ids :
                conn[p] = "active" /\ conn'[p] # "active" =>
                  streams'[p][id].unread = streams[p][id].unread]_vars
  <2> SUFFICES ASSUME NEW p \in Peers, NEW id \in Ids, conn[p] = "active", conn'[p] # "active"
               PROVE  streams'[p][id].unread = streams[p][id].unread
    OBVIOUS
  <2>1. CASE \E q \in Peers : Leaves(q)
    BY <2>1 DEF Leaves, Aborts
  <2>2. CASE conn' = conn
    BY <2>2
  <2>3. CASE \A q \in Peers : (conn'[q] = "active") = (conn[q] = "active")
    BY <2>3
  <2>4. StreamsStep
    BY <1>3, EveryStreamsStep
  <2>5. \/ \E q \in Peers : Leaves(q)
        \/ conn' = conn
        \/ \A q \in Peers : (conn'[q] = "active") = (conn[q] = "active")
    BY <2>4 DEF StreamsStep
  <2> QED
    BY <2>1, <2>2, <2>3, <2>5, SMTT(40)
<1> QED
  BY <1>1, <1>2, <1>3, PTL DEF Spec, AbortKeepsData

-----------------------------------------------------------------------------
(* What the actions do to the channels.                                    *)

\* A frame, or TERM, is put into the codec of one peer.
LEMMA EnqueueChannel ==
  ASSUME TypeInv, NEW p \in Peers, NEW x \in Packet, pending[p] = <<>>, wire' = wire,
         pending' = [pending EXCEPT ![p] = <<x>>]
  PROVE  Grown(Chan(p), Chan(p)', x) /\ Chan(Other(p))' = Chan(Other(p))
<1>1. /\ Other(p) \in Peers /\ Other(p) # p
      /\ pending \in [Peers -> Seq(Packet)] /\ wire[p] \in Seq(Packet)
  BY OtherPeer DEF TypeInv
<1> USE <1>1
<1>2. pending'[p] = <<x>> /\ pending'[Other(p)] = pending[Other(p)]
  BY SMTT(40)
<1>3. Grown(wire[p] \o <<>>, wire[p] \o <<x>>, x)
  BY ChanEnqueue
<1> QED
  BY <1>2, <1>3 DEF Chan

\* A frame goes from the codec to the transport.
LEMMA WriteChannel ==
  ASSUME TypeInv, NEW p \in Peers, write_pending(p)
  PROVE  Chan(p)' = Chan(p) /\ Chan(Other(p))' = Chan(Other(p))
<1>1. /\ Other(p) \in Peers /\ Other(p) # p
      /\ pending \in [Peers -> Seq(Packet)] /\ wire \in [Peers -> Seq(Packet)]
  BY OtherPeer DEF TypeInv
<1> USE <1>1
<1>2. /\ pending'[p] = <<>> /\ pending'[Other(p)] = pending[Other(p)]
      /\ wire'[p] = wire[p] \o pending[p] /\ wire'[Other(p)] = wire[Other(p)]
  BY SMTT(40) DEF write_pending
<1>3. (wire[p] \o pending[p]) \o <<>> = wire[p] \o pending[p]
  BY ChanWrite
<1> QED
  BY <1>2, <1>3 DEF Chan

\* A peer reads one packet.
LEMMA ReadChannel ==
  ASSUME TypeInv, NEW p \in Peers, wire[Other(p)] # <<>>,
         wire' = [wire EXCEPT ![Other(p)] = Tail(@)],
         pending'[Other(p)] = pending[Other(p)]
  PROVE  /\ Taken(Chan(Other(p)), Chan(Other(p))')
         /\ Chan(Other(p))[1] = Head(wire[Other(p)]) /\ Head(wire[Other(p)]) \in Packet
         /\ wire'[p] = wire[p]
<1>1. /\ Other(p) \in Peers /\ Other(p) # p
      /\ pending[Other(p)] \in Seq(Packet) /\ wire \in [Peers -> Seq(Packet)]
      /\ wire[Other(p)] \in Seq(Packet)
  BY OtherPeer DEF TypeInv
<1> USE <1>1
<1>2. wire'[Other(p)] = Tail(wire[Other(p)]) /\ wire'[p] = wire[p]
  BY SMTT(40)
<1> DEFINE w == wire[Other(p)]
           s == pending[Other(p)]
<1>3. Taken(w \o s, Tail(w) \o s) /\ (w \o s)[1] = Head(w) /\ Head(w) \in Packet
  BY ChanTake
<1> QED
  BY <1>2, <1>3 DEF Chan

\* The codec is dropped, with what it holds.
LEMMA DropChannel ==
  ASSUME TypeInv, NEW p \in Peers, wire'[p] = wire[p], pending'[p] = <<>>
  PROVE  Cut(Chan(p), Chan(p)')
<1>1. pending[p] \in Seq(Packet) /\ wire[p] \in Seq(Packet)
  BY DEF TypeInv
<1>2. Cut(wire[p] \o pending[p], wire[p] \o <<>>)
  BY <1>1, ChanDrop
<1> QED
  BY <1>2 DEF Chan

\* The application writes to the transport that it got back.
LEMMA RawChannel ==
  ASSUME TypeInv, NEW p \in Peers, raw_write(p), pending[p] = <<>>
  PROVE  Grown(Chan(p), Chan(p)', Raw) /\ Chan(Other(p))' = Chan(Other(p))
<1>1. /\ Other(p) \in Peers /\ Other(p) # p
      /\ wire \in [Peers -> Seq(Packet)] /\ wire[p] \in Seq(Packet) /\ Raw \in Packet
  BY OtherPeer DEF TypeInv, Packet
<1> USE <1>1
<1>2. /\ wire'[p] = Append(wire[p], Raw) /\ wire'[Other(p)] = wire[Other(p)]
      /\ pending' = pending
  BY SMTT(40) DEF raw_write
<1>3. Grown(wire[p] \o <<>>, Append(wire[p], Raw) \o <<>>, Raw)
  BY ChanAppend
<1> QED
  BY <1>2, <1>3 DEF Chan

\* A frame sent before TERM.
LEMMA TermSend ==
  ASSUME NEW c, NEW e, NEW x, NEW up, NEW got \in BOOLEAN, Grown(c, e, x), x # Term, x # Raw,
         TermOk(c, "Init", up, got)
  PROVE  TermOk(e, "Init", up, got)
BY SMTT(40) DEF TermOk, Grown

\* TERM is sent.
LEMMA TermTerm ==
  ASSUME NEW c, NEW e, NEW up, NEW got \in BOOLEAN, Grown(c, e, Term), Term # Raw,
         TermOk(c, "Init", up, got)
  PROVE  TermOk(e, "Enqueued", up, got)
BY SMTT(40) DEF TermOk, Grown

\* The application writes to the transport that it got back.
LEMMA TermRaw ==
  ASSUME NEW c, NEW e, NEW sent, NEW up, NEW got \in BOOLEAN, Grown(c, e, Raw), Term # Raw,
         up, sent # "Init", TermOk(c, sent, up, got)
  PROVE  TermOk(e, sent, up, got)
BY SMTT(40) DEF TermOk, Grown

\* The writer goes on with its downgrade, or loses the transport; it sends
\* nothing.
LEMMA TermMoved ==
  ASSUME NEW c, NEW sent, NEW next, NEW up, NEW got, NEW still,
         next = sent \/ (sent # "Init" /\ next # "Init"), still => up, TermOk(c, sent, up, got)
  PROVE  TermOk(c, next, still, got)
BY DEF TermOk

\* The writer loses the transport, and what it had not written is lost.
LEMMA TermCut ==
  ASSUME NEW c, NEW e, NEW sent, NEW up, NEW got \in BOOLEAN, Cut(c, e), TermOk(c, sent, up, got)
  PROVE  TermOk(e, sent, FALSE, got)
<1>1. \A i \in 1 .. Len(e) : i \in 1 .. Len(c) /\ e[i] = c[i]
  BY SMTT(40) DEF Cut
<1> USE <1>1
<1>2. ASSUME ~got, NEW i \in 1 .. Len(e), e[i] = Raw
      PROVE  \E j \in 1 .. Len(e) : j < i /\ e[j] = Term
  <2>1. PICK j \in 1 .. Len(c) : j < i /\ c[j] = Term
    BY <1>2 DEF TermOk
  <2> USE <2>1
  <2>2. j \in 1 .. Len(e)
    BY SMTT(40) DEF Cut
  <2> QED
    BY <2>2
<1> QED
  BY <1>2 DEF TermOk

\* The reader takes the first packet.
LEMMA TermTaken ==
  ASSUME NEW c, NEW e, NEW sent, NEW up \in BOOLEAN, NEW got \in BOOLEAN, NEW more \in BOOLEAN,
         Taken(c, e), Term # Raw,
         more = (got \/ c[1] = Term), TermOk(c, sent, up, got)
  PROVE  TermOk(e, sent, up, more)
<1>1. Len(e) \in Nat /\ Len(c) = Len(e) + 1 /\ 1 \in 1 .. Len(c)
  BY SMTT(40) DEF Taken
<1> USE <1>1
<1>2. \A i \in 1 .. Len(e) : i + 1 \in 1 .. Len(c) /\ e[i] = c[i + 1] /\ 1 < i + 1
  BY SMTT(40) DEF Taken
<1> USE <1>2
<1>3. \A i, j \in 1 .. Len(e) : i < j /\ e[i] \in {Term, Raw} => e[j] = Raw
  BY SMTT(40) DEF TermOk
<1>4. more => \A i \in 1 .. Len(e) : e[i] = Raw
  BY SMTT(40) DEF TermOk
<1>5. ASSUME ~more
      PROVE  /\ \A i \in 1 .. Len(e) : e[i] = Raw => \E j \in 1 .. Len(e) : j < i /\ e[j] = Term
             /\ up /\ sent # "Init" => \E i \in 1 .. Len(e) : e[i] = Term
  <2>1. ~got /\ c[1] # Term
    BY <1>5
  <2> USE <2>1
  <2>2. \A j \in 1 .. Len(c) : c[j] = Term => j - 1 \in 1 .. Len(e) /\ e[j - 1] = Term
    BY SMTT(40) DEF Taken
  <2> USE <2>2
  <2>3. ASSUME NEW i \in 1 .. Len(e), e[i] = Raw
        PROVE  \E j \in 1 .. Len(e) : j < i /\ e[j] = Term
    <3>1. PICK j \in 1 .. Len(c) : j < i + 1 /\ c[j] = Term
      BY <2>3 DEF TermOk
    <3>2. j - 1 \in 1 .. Len(e) /\ e[j - 1] = Term /\ j - 1 < i
      BY <3>1, SMTT(40)
    <3> QED
      BY <3>2, SMTT(40)
  <2>4. ASSUME up, sent # "Init"
        PROVE  \E i \in 1 .. Len(e) : e[i] = Term
    BY <2>4 DEF TermOk
  <2> QED
    BY <2>3, <2>4, SMTT(40)
<1>6. sent = "Init" => ~more /\ \A i \in 1 .. Len(e) : e[i] # Term /\ e[i] # Raw
  BY DEF TermOk
<1> QED
  BY <1>3, <1>4, <1>5, <1>6 DEF TermOk

\* A step of one peer leaves the other one as it is.
Alone(q) ==
  /\ conn'[q] = conn[q] /\ pending'[q] = pending[q]
  /\ term_sent'[q] = term_sent[q] /\ term_received'[q] = term_received[q]

\* What a step of `p' has to show of the two channels.
LEMMA TermPeers ==
  ASSUME TermInv, NEW p \in Peers, Alone(Other(p)), TermLocal(p)',
         TermOk(Chan(p)', term_sent'[p], conn'[p] # "poisoned", term_received[Other(p)]),
         TermOk(Chan(Other(p))', term_sent[Other(p)], conn[Other(p)] # "poisoned",
                term_received'[p])
  PROVE  TermInv'
<1>1. /\ Other(p) \in Peers /\ Other(Other(p)) = p
      /\ \A q \in Peers : q = p \/ q = Other(p)
  BY OtherPeer
<1> USE <1>1
<1>2. TermLocal(Other(p))'
  BY DEF TermInv, TermLocal, Alone, is_recovered
<1>3. /\ conn'[Other(p)] = conn[Other(p)] /\ term_sent'[Other(p)] = term_sent[Other(p)]
      /\ term_received'[Other(p)] = term_received[Other(p)]
  BY DEF Alone
<1> USE <1>3
<1>4. TermOk(Chan(p)', term_sent'[p], conn'[p] # "poisoned", term_received'[Other(p)])
  OBVIOUS
<1>5. TermOk(Chan(Other(p))', term_sent'[Other(p)], conn'[Other(p)] # "poisoned",
             term_received'[Other(Other(p))])
  OBVIOUS
<1>6. ASSUME NEW q \in Peers
      PROVE  TermLocal(q)' /\ TermOk(Chan(q)', term_sent'[q], conn'[q] # "poisoned",
                                     term_received'[Other(q)])
  <2>1. CASE q = p
    BY <1>4, <2>1
  <2>2. CASE q = Other(p)
    BY <1>2, <1>5, <2>2
  <2> QED
    BY <2>1, <2>2, SMTT(40)
<1> QED
  BY <1>6, SMTT(40) DEF TermInv

\* What a step of `p' finds.
LEMMA TermFacts ==
  ASSUME TypeInv, TermInv, NEW p \in Peers
  PROVE  /\ Other(p) \in Peers /\ Other(p) # p /\ Other(Other(p)) = p
         /\ TermLocal(p) /\ TermLocal(Other(p))
         /\ TermOk(Chan(p), term_sent[p], conn[p] # "poisoned", term_received[Other(p)])
         /\ TermOk(Chan(Other(p)), term_sent[Other(p)], conn[Other(p)] # "poisoned",
                   term_received[p])
         /\ term_received[p] \in BOOLEAN /\ term_received[Other(p)] \in BOOLEAN
         /\ Term # Raw /\ Term \in Packet
<1>1. Other(p) \in Peers /\ Other(p) # p /\ Other(Other(p)) = p
  BY OtherPeer
<1> USE <1>1
<1>2. /\ TermLocal(p) /\ TermLocal(Other(p))
      /\ TermOk(Chan(p), term_sent[p], conn[p] # "poisoned", term_received[Other(p)])
  BY DEF TermInv
<1>3. TermOk(Chan(Other(p)), term_sent[Other(p)], conn[Other(p)] # "poisoned",
             term_received[Other(Other(p))])
  BY DEF TermInv
<1>4. term_received[p] \in BOOLEAN /\ term_received[Other(p)] \in BOOLEAN
  BY DEF TypeInv
<1>5. Term # Raw /\ Term \in Packet
  BY PacketKinds DEF Packet
<1> QED
  BY <1>2, <1>3, <1>4, <1>5

\* A peer reads a packet, and TERM is not forgotten.
LEMMA TermRead ==
  ASSUME TypeInv, TermInv, NEW p \in Peers, wire[Other(p)] # <<>>,
         wire' = [wire EXCEPT ![Other(p)] = Tail(@)],
         pending'[Other(p)] = pending[Other(p)],
         term_received'[p] \in BOOLEAN,
         term_received'[p] = (term_received[p] \/ Head(wire[Other(p)]) = Term)
  PROVE  TermOk(Chan(Other(p))', term_sent[Other(p)], conn[Other(p)] # "poisoned",
                term_received'[p])
<1>1. /\ Taken(Chan(Other(p)), Chan(Other(p))')
      /\ Chan(Other(p))[1] = Head(wire[Other(p)])
  BY ReadChannel
<1>2. /\ TermOk(Chan(Other(p)), term_sent[Other(p)], conn[Other(p)] # "poisoned",
                term_received[p])
      /\ term_received[p] \in BOOLEAN /\ Term # Raw
  BY TermFacts
<1>3. (conn[Other(p)] # "poisoned") \in BOOLEAN
  OBVIOUS
<1> QED
  BY <1>1, <1>2, <1>3, TermTaken

\* A peer whose connection ends drops what its codec holds.
LEMMA TermPoison ==
  ASSUME TypeInv, TermInv, NEW p \in Peers, NEW kind, poison(p, kind), wire'[p] = wire[p]
  PROVE  /\ Alone(Other(p)) /\ TermLocal(p)' /\ term_received'[p] = term_received[p]
         /\ TermOk(Chan(p)', term_sent'[p], conn'[p] # "poisoned", term_received[Other(p)])
<1>1. /\ Other(p) \in Peers /\ Other(p) # p /\ term_received[Other(p)] \in BOOLEAN
      /\ TermOk(Chan(p), term_sent[p], conn[p] # "poisoned", term_received[Other(p)])
  BY TermFacts
<1> USE <1>1
<1>2. OuterInv
  BY DEF TypeInv, OuterInv
<1>3. /\ conn'[p] = "poisoned" /\ (\A q \in Peers : q # p => conn'[q] = conn[q])
      /\ pending'[p] = <<>> /\ (\A q \in Peers : q # p => pending'[q] = pending[q])
      /\ term_sent' = term_sent /\ term_received' = term_received
  BY <1>2, PoisonOuter
<1> USE <1>3
<1>4. Alone(Other(p)) /\ term_received'[p] = term_received[p]
  BY DEF Alone
<1>5. TermLocal(p)'
  BY SMTT(40) DEF TermLocal
<1>6. TermOk(Chan(p)', term_sent[p], FALSE, term_received[Other(p)])
  BY DropChannel, TermCut
<1>7. (conn'[p] # "poisoned") = FALSE
  BY SMTT(40)
<1> QED
  BY <1>4, <1>5, <1>6, <1>7

\* A step that moves neither a frame nor a downgrade.
LEMMA TermSame ==
  ASSUME TypeInv, TermInv, NEW p \in Peers, UNCHANGED <<conn, term_sent, term_received>>,
         TermLocal(p)', Alone(Other(p)),
         Chan(p)' = Chan(p), Chan(Other(p))' = Chan(Other(p))
  PROVE  TermInv'
<1>1. /\ TermOk(Chan(p), term_sent[p], conn[p] # "poisoned", term_received[Other(p)])
      /\ TermOk(Chan(Other(p)), term_sent[Other(p)], conn[Other(p)] # "poisoned",
                term_received[p])
  BY TermFacts
<1>2. /\ TermOk(Chan(p)', term_sent'[p], conn'[p] # "poisoned", term_received[Other(p)])
      /\ TermOk(Chan(Other(p))', term_sent[Other(p)], conn[Other(p)] # "poisoned",
                term_received'[p])
  BY <1>1
<1> QED
  BY <1>2, TermPeers

\* The application and try_start_outbound write nothing.
LEMMA TermStepApplication ==
  ASSUME TypeInv, TermInv, NEW p \in Peers,
         (\E id \in Ids : Application(p, id)) \/ open_outbound(p)
  PROVE  TermInv'
<1>1. UNCHANGED <<conn, term_sent, term_received, pending, wire>>
  BY DEF Application, open_outbound, connVars
<1> USE <1>1
<1>2. TermLocal(p)
  BY TermFacts
<1>3. TermLocal(p)' /\ Alone(Other(p)) /\ Chan(p)' = Chan(p) /\ Chan(Other(p))' = Chan(Other(p))
  BY <1>2 DEF TermLocal, is_recovered, Alone, Chan
<1> QED
  BY <1>3, TermSame

\* The codec writes what it holds.
LEMMA TermStepWrite ==
  ASSUME TypeInv, TermInv, NEW p \in Peers, write_pending(p)
  PROVE  TermInv'
<1>1. UNCHANGED <<conn, term_sent, term_received>>
  BY DEF write_pending, connVars
<1> USE <1>1
<1>2. TermLocal(p) /\ Other(p) \in Peers /\ Other(p) # p
  BY TermFacts
<1> USE <1>2
<1>3. pending'[p] = <<>> /\ pending'[Other(p)] = pending[Other(p)]
  BY SMTT(40) DEF write_pending, TypeInv
<1>4. TermLocal(p)' /\ Alone(Other(p))
  BY <1>3 DEF TermLocal, is_recovered, Alone
<1>5. Chan(p)' = Chan(p) /\ Chan(Other(p))' = Chan(Other(p))
  BY WriteChannel
<1> QED
  BY <1>4, <1>5, TermSame

\* Streams::poll_send sends a frame while no TERM is sent.
LEMMA TermStepSend ==
  ASSUME TypeInv, LocalInv, TermInv, NEW p \in Peers, poll_send(p)
  PROVE  TermInv'
<1>1. UNCHANGED <<conn, term_sent, term_received>> /\ wire' = wire
      /\ conn[p] = "active" /\ pending[p] = <<>>
  BY DEF poll_send, connVars
<1> USE <1>1
<1>2. PICK x \in StreamFrame : pending' = [pending EXCEPT ![p] = <<x>>]
  BY SendEffect DEF Sends
<1> USE <1>2
<1>3. x \in Packet /\ x # Term /\ x # Raw
  BY PacketKinds DEF Packet
<1> USE <1>3
<1>4. Grown(Chan(p), Chan(p)', x) /\ Chan(Other(p))' = Chan(Other(p))
  BY EnqueueChannel
<1> USE <1>4
<1>5. /\ Other(p) \in Peers /\ Other(p) # p
      /\ TermLocal(p) /\ term_received[Other(p)] \in BOOLEAN
      /\ TermOk(Chan(p), term_sent[p], conn[p] # "poisoned", term_received[Other(p)])
      /\ TermOk(Chan(Other(p)), term_sent[Other(p)], conn[Other(p)] # "poisoned",
                term_received[p])
  BY TermFacts
<1> USE <1>5
<1>6. pending'[Other(p)] = pending[Other(p)]
  BY SMTT(40) DEF TypeInv
<1>7. term_sent[p] = "Init" /\ ~term_received[p]
  BY DEF TermLocal
<1> USE <1>7
<1>8. Alone(Other(p)) /\ TermLocal(p)'
  BY <1>6, SMTT(40) DEF Alone, TermLocal
<1>9. TermOk(Chan(p)', "Init", conn[p] # "poisoned", term_received[Other(p)])
  BY TermSend
<1>10. /\ TermOk(Chan(p)', term_sent'[p], conn'[p] # "poisoned", term_received[Other(p)])
       /\ TermOk(Chan(Other(p))', term_sent[Other(p)], conn[Other(p)] # "poisoned",
                 term_received'[p])
  BY <1>9
<1> QED
  BY <1>8, <1>10, TermPeers

\* A connection is poisoned, perhaps by the packet it reads.
LEMMA TermStepPoison ==
  ASSUME TypeInv, TermInv, NEW p \in Peers, NEW kind, poison(p, kind),
         \/ wire' = wire
         \/ /\ wire[Other(p)] # <<>> /\ Head(wire[Other(p)]) # Term
            /\ wire' = [wire EXCEPT ![Other(p)] = Tail(@)]
  PROVE  TermInv'
<1>1. /\ Other(p) \in Peers /\ Other(p) # p /\ term_received[p] \in BOOLEAN
      /\ TermOk(Chan(Other(p)), term_sent[Other(p)], conn[Other(p)] # "poisoned",
                term_received[p])
  BY TermFacts
<1> USE <1>1
<1>2. wire'[p] = wire[p]
  BY SMTT(40) DEF TypeInv
<1>3. /\ Alone(Other(p)) /\ TermLocal(p)' /\ term_received'[p] = term_received[p]
      /\ TermOk(Chan(p)', term_sent'[p], conn'[p] # "poisoned", term_received[Other(p)])
  BY <1>2, TermPoison
<1> USE <1>3
<1>4. pending'[Other(p)] = pending[Other(p)]
  BY DEF Alone
<1> USE <1>4
<1>5. TermOk(Chan(Other(p))', term_sent[Other(p)], conn[Other(p)] # "poisoned",
             term_received'[p])
  <2>1. CASE wire' = wire
    <3>1. Chan(Other(p))' = Chan(Other(p))
      BY <2>1 DEF Chan
    <3> QED
      BY <3>1
  <2>2. CASE /\ wire[Other(p)] # <<>> /\ Head(wire[Other(p)]) # Term
             /\ wire' = [wire EXCEPT ![Other(p)] = Tail(@)]
    <3> USE <2>2
    <3>1. /\ term_received'[p] \in BOOLEAN
          /\ term_received'[p] = (term_received[p] \/ Head(wire[Other(p)]) = Term)
      OBVIOUS
    <3> QED
      BY <3>1, TermRead
  <2> QED
    BY <2>1, <2>2, SMTT(40)
<1> QED
  BY <1>5, TermPeers

\* Streams::receive of a packet that is not TERM.
LEMMA TermStepReceive ==
  ASSUME TypeInv, TermInv, NEW p \in Peers, receive(p)
  PROVE  TermInv'
<1>1. /\ wire[Other(p)] # <<>> /\ Head(wire[Other(p)]) # Term
      /\ wire' = [wire EXCEPT ![Other(p)] = Tail(@)]
  BY DEF receive
<1> USE <1>1
<1>2. CASE \E kind : poison(p, kind)
  BY <1>2, TermStepPoison
<1>3. CASE UNCHANGED <<connVars, pending>>
  <2>1. UNCHANGED <<conn, term_sent, term_received, pending>>
    BY <1>3, SMTT(40) DEF connVars
  <2> USE <2>1
  <2>2. /\ TermLocal(p) /\ term_received[p] \in BOOLEAN
        /\ TermOk(Chan(p), term_sent[p], conn[p] # "poisoned", term_received[Other(p)])
    BY TermFacts
  <2> USE <2>2
  <2>3. TermLocal(p)' /\ Alone(Other(p))
    BY DEF TermLocal, Alone, is_recovered
  <2>4. /\ term_received'[p] \in BOOLEAN
        /\ term_received'[p] = (term_received[p] \/ Head(wire[Other(p)]) = Term)
    OBVIOUS
  <2>5. TermOk(Chan(Other(p))', term_sent[Other(p)], conn[Other(p)] # "poisoned",
               term_received'[p])
    BY <2>4, TermRead
  <2>6. Chan(p)' = Chan(p)
    <3>1. wire'[p] = wire[p]
      BY ReadChannel
    <3> QED
      BY <3>1 DEF Chan
  <2>7. TermOk(Chan(p)', term_sent'[p], conn'[p] # "poisoned", term_received[Other(p)])
    BY <2>6
  <2> QED
    BY <2>3, <2>5, <2>7, TermPeers
<1> QED
  BY <1>2, <1>3 DEF receive

\* ConnState::downgrade, by the application or by TERM.
LEMMA TermStepDowngrade ==
  ASSUME TypeInv, TermInv, NEW p \in Peers, downgrade(p) \/ receive_term(p)
  PROVE  TermInv'
<1>0. /\ Other(p) \in Peers /\ Other(p) # p /\ TermLocal(p)
      /\ TermOk(Chan(p), term_sent[p], conn[p] # "poisoned", term_received[Other(p)])
      /\ TermOk(Chan(Other(p)), term_sent[Other(p)], conn[Other(p)] # "poisoned",
                term_received[p])
      /\ term_received[p] \in BOOLEAN
  BY TermFacts
<1> USE <1>0
<1>1. PICK b \in BOOLEAN : /\ start_downgrade(p, b)
                           /\ (downgrade(p) /\ ~b) \/ (receive_term(p) /\ b)
  BY DEF downgrade, receive_term
<1> USE <1>1
<1>2. /\ conn'[p] = "downgraded" /\ conn'[Other(p)] = conn[Other(p)] /\ conn[p] = "active"
      /\ term_received'[p] = b /\ term_received'[Other(p)] = term_received[Other(p)]
      /\ term_sent' = term_sent /\ pending' = pending
  <2>1. /\ conn' = [conn EXCEPT ![p] = "downgraded"] /\ conn[p] = "active"
        /\ term_received' = [term_received EXCEPT ![p] = b]
        /\ term_sent' = term_sent /\ pending' = pending
    BY DEF start_downgrade
  <2> USE <2>1
  <2>2. conn'[p] = "downgraded" /\ conn'[Other(p)] = conn[Other(p)]
    BY SMTT(40) DEF TypeInv
  <2>3. term_received'[p] = b /\ term_received'[Other(p)] = term_received[Other(p)]
    BY DEF TypeInv
  <2> QED
    BY <2>2, <2>3, SMTT(40)
<1> USE <1>2
<1>3. term_sent[p] = "Init" /\ ~term_received[p]
  BY DEF TermLocal
<1> USE <1>3
<1>4. Alone(Other(p)) /\ TermLocal(p)'
  BY SMTT(40) DEF Alone, TermLocal
<1> USE <1>4
<1>5. TermOk(Chan(p), term_sent'[p], conn'[p] # "poisoned", term_received[Other(p)])
  <2>1. conn[p] # "poisoned" /\ conn'[p] # "poisoned"
    BY SMTT(40)
  <2> QED
    BY <2>1, TermMoved
<1> USE <1>5
<1>6. CASE downgrade(p) /\ ~b
  <2>1. wire' = wire /\ ~b
    BY <1>6 DEF downgrade
  <2> USE <2>1
  <2>2. Chan(p)' = Chan(p) /\ Chan(Other(p))' = Chan(Other(p))
    BY DEF Chan
  <2>3. term_received'[p] = term_received[p]
    OBVIOUS
  <2> QED
    BY <2>2, <2>3, TermPeers
<1>7. CASE receive_term(p) /\ b
  <2>1. /\ wire[Other(p)] # <<>> /\ Head(wire[Other(p)]) = Term
        /\ wire' = [wire EXCEPT ![Other(p)] = Tail(@)] /\ b
    BY <1>7 DEF receive_term
  <2> USE <2>1
  <2>2. /\ term_received'[p] \in BOOLEAN
        /\ term_received'[p] = (term_received[p] \/ Head(wire[Other(p)]) = Term)
    OBVIOUS
  <2>3. TermOk(Chan(Other(p))', term_sent[Other(p)], conn[Other(p)] # "poisoned",
               term_received'[p])
    BY <2>2, TermRead
  <2>4. Chan(p)' = Chan(p)
    <3>1. wire'[p] = wire[p]
      BY ReadChannel
    <3> QED
      BY <3>1 DEF Chan
  <2> QED
    BY <2>3, <2>4, TermPeers
<1> QED
  BY <1>6, <1>7

\* poll_recover_writer: TERM is queued, flushed, and the writer is shut down
\* if it must be.
LEMMA TermStepWriter ==
  ASSUME TypeInv, TermInv, NEW p \in Peers, NEW next \in {"Enqueued", "Flushed", "ShutDown"},
         poll_recover_writer(p, next)
  PROVE  TermInv'
<1>0. /\ Other(p) \in Peers /\ Other(p) # p /\ TermLocal(p)
      /\ TermOk(Chan(p), term_sent[p], conn[p] # "poisoned", term_received[Other(p)])
      /\ TermOk(Chan(Other(p)), term_sent[Other(p)], conn[Other(p)] # "poisoned",
                term_received[p])
      /\ term_received[Other(p)] \in BOOLEAN /\ Term # Raw /\ Term \in Packet
  BY TermFacts
<1> USE <1>0
<1>1. /\ conn[p] = "downgraded" /\ pending[p] = <<>>
      /\ conn' = conn /\ term_received' = term_received /\ wire' = wire
      /\ term_sent' = [term_sent EXCEPT ![p] = next]
      /\ \/ /\ term_sent[p] = "Init" /\ next = "Enqueued"
            /\ pending' = [pending EXCEPT ![p] = <<Term>>]
         \/ term_sent[p] # "Init" /\ next # "Enqueued" /\ pending' = pending
  BY SMTT(40) DEF poll_recover_writer, term_step
<1> USE <1>1
<1>2. term_sent'[p] = next /\ term_sent'[Other(p)] = term_sent[Other(p)] /\ next # "Init"
  BY SMTT(40) DEF TypeInv
<1> USE <1>2
<1>3. CASE term_sent[p] = "Init" /\ next = "Enqueued" /\ pending' = [pending EXCEPT ![p] = <<Term>>]
  <2> USE <1>3
  <2>1. Grown(Chan(p), Chan(p)', Term) /\ Chan(Other(p))' = Chan(Other(p))
    BY EnqueueChannel
  <2> USE <2>1
  <2>2. pending'[Other(p)] = pending[Other(p)]
    BY SMTT(40) DEF TypeInv
  <2>3. Alone(Other(p)) /\ TermLocal(p)'
    BY <2>2, SMTT(40) DEF Alone, TermLocal
  <2>4. TermOk(Chan(p)', "Enqueued", conn[p] # "poisoned", term_received[Other(p)])
    BY TermTerm
  <2> QED
    BY <2>3, <2>4, TermPeers
<1>4. CASE term_sent[p] # "Init" /\ next # "Enqueued" /\ pending' = pending
  <2> USE <1>4
  <2>1. Chan(p)' = Chan(p) /\ Chan(Other(p))' = Chan(Other(p))
    BY DEF Chan
  <2>2. Alone(Other(p)) /\ TermLocal(p)'
    BY SMTT(40) DEF Alone, TermLocal
  <2>3. TermOk(Chan(p), next, conn[p] # "poisoned", term_received[Other(p)])
    BY TermMoved
  <2> QED
    BY <2>1, <2>2, <2>3, TermPeers
<1> QED
  BY <1>3, <1>4

\* poll_recover_reader: frames are dropped until TERM arrives.
LEMMA TermStepReader ==
  ASSUME TypeInv, TermInv, NEW p \in Peers, poll_recover_reader(p)
  PROVE  TermInv'
<1>1. /\ wire[Other(p)] # <<>> /\ ~term_received[p]
      /\ wire' = [wire EXCEPT ![Other(p)] = Tail(@)] /\ conn[p] = "downgraded"
  BY DEF poll_recover_reader
<1> USE <1>1
<1>2. /\ Other(p) \in Peers /\ Other(p) # p /\ TermLocal(p) /\ Term # Raw
      /\ TermOk(Chan(p), term_sent[p], conn[p] # "poisoned", term_received[Other(p)])
      /\ term_received[p] \in BOOLEAN
  BY TermFacts
<1> USE <1>2
<1>3. CASE Head(wire[Other(p)]) = Raw
  <2> USE <1>3
  <2>1. poison(p, "not a frame")
    BY DEF poll_recover_reader
  <2>2. Head(wire[Other(p)]) # Term
    OBVIOUS
  <2> QED
    BY <2>1, <2>2, TermStepPoison
<1>4. CASE Head(wire[Other(p)]) # Raw
  <2>1. /\ term_received' = [term_received EXCEPT ![p] = Head(wire[Other(p)]) = Term]
        /\ UNCHANGED <<conn, term_sent, pending>>
    BY <1>4 DEF poll_recover_reader
  <2> USE <2>1
  <2>2. /\ term_received'[p] = (Head(wire[Other(p)]) = Term)
        /\ term_received'[Other(p)] = term_received[Other(p)]
    BY SMTT(40) DEF TypeInv
  <2> USE <2>2
  <2>3. /\ term_received'[p] \in BOOLEAN
        /\ term_received'[p] = (term_received[p] \/ Head(wire[Other(p)]) = Term)
    OBVIOUS
  <2>4. TermOk(Chan(Other(p))', term_sent[Other(p)], conn[Other(p)] # "poisoned",
               term_received'[p])
    BY <2>3, TermRead
  <2>5. Chan(p)' = Chan(p)
    <3>1. wire'[p] = wire[p]
      BY ReadChannel
    <3> QED
      BY <3>1 DEF Chan
  <2>6. Alone(Other(p)) /\ TermLocal(p)'
    BY SMTT(40) DEF Alone, TermLocal
  <2>7. TermOk(Chan(p)', term_sent'[p], conn'[p] # "poisoned", term_received[Other(p)])
    BY <2>5
  <2> QED
    BY <2>4, <2>6, <2>7, TermPeers
<1> QED
  BY <1>3, <1>4, SMTT(40)

\* The transport is handed back once both of its halves are recovered.
LEMMA TermStepRecovered ==
  ASSUME TypeInv, TermInv, NEW p \in Peers, poll_downgraded(p)
  PROVE  TermInv'
<1>1. /\ Other(p) \in Peers /\ Other(p) # p /\ TermLocal(p)
      /\ TermOk(Chan(p), term_sent[p], conn[p] # "poisoned", term_received[Other(p)])
      /\ TermOk(Chan(Other(p)), term_sent[Other(p)], conn[Other(p)] # "poisoned",
                term_received[p])
  BY TermFacts
<1> USE <1>1
<1>2. /\ is_recovered(p) /\ conn[p] = "downgraded"
      /\ term_sent' = term_sent /\ term_received' = term_received /\ wire' = wire
  BY DEF poll_downgraded
<1> USE <1>2
<1>3. /\ conn'[p] = "recovered" /\ conn'[Other(p)] = conn[Other(p)]
      /\ pending'[p] = <<>> /\ pending'[Other(p)] = pending[Other(p)]
  BY SMTT(40) DEF poll_downgraded, TypeInv
<1> USE <1>3
<1>4. pending[p] = <<>> /\ term_received[p] /\ term_sent[p] \in {"Flushed", "ShutDown"}
  BY DEF TermLocal, is_recovered
<1> USE <1>4
<1>5. Alone(Other(p)) /\ TermLocal(p)'
  BY SMTT(40) DEF Alone, TermLocal, is_recovered
<1>6. Chan(p)' = Chan(p) /\ Chan(Other(p))' = Chan(Other(p))
  BY DEF Chan
<1>7. TermOk(Chan(p), term_sent[p], conn'[p] # "poisoned", term_received[Other(p)])
  <2>1. conn[p] # "poisoned" /\ conn'[p] # "poisoned"
    BY SMTT(40)
  <2> QED
    BY <2>1, TermMoved
<1> QED
  BY <1>5, <1>6, <1>7, TermPeers

\* What the application does with a recovered transport.
LEMMA TermStepRaw ==
  ASSUME TypeInv, TermInv, NEW p \in Peers, raw_write(p) \/ raw_read(p)
  PROVE  TermInv'
<1>1. /\ Other(p) \in Peers /\ Other(p) # p /\ TermLocal(p) /\ Term # Raw
      /\ TermOk(Chan(p), term_sent[p], conn[p] # "poisoned", term_received[Other(p)])
      /\ TermOk(Chan(Other(p)), term_sent[Other(p)], conn[Other(p)] # "poisoned",
                term_received[p])
      /\ term_received[p] \in BOOLEAN /\ term_received[Other(p)] \in BOOLEAN
  BY TermFacts
<1> USE <1>1
<1>2. conn[p] = "recovered" /\ UNCHANGED <<conn, term_sent, term_received, pending>>
  BY DEF raw_write, raw_read, connVars
<1> USE <1>2
<1>3. /\ pending[p] = <<>> /\ term_received[p] /\ term_sent[p] # "Init"
      /\ conn[p] # "poisoned"
  BY SMTT(40) DEF TermLocal, is_recovered
<1> USE <1>3
<1>4. Alone(Other(p)) /\ TermLocal(p)'
  BY DEF Alone, TermLocal, is_recovered
<1> USE <1>4
<1>5. CASE raw_write(p)
  <2>1. Grown(Chan(p), Chan(p)', Raw) /\ Chan(Other(p))' = Chan(Other(p))
    BY <1>5, RawChannel
  <2> USE <2>1
  <2>2. TermOk(Chan(p)', term_sent[p], conn[p] # "poisoned", term_received[Other(p)])
    BY TermRaw
  <2> QED
    BY <2>2, TermPeers
<1>6. CASE raw_read(p)
  <2>1. wire[Other(p)] # <<>> /\ wire' = [wire EXCEPT ![Other(p)] = Tail(@)]
    BY <1>6 DEF raw_read
  <2> USE <2>1
  <2>2. /\ term_received'[p] \in BOOLEAN
        /\ term_received'[p] = (term_received[p] \/ Head(wire[Other(p)]) = Term)
    OBVIOUS
  <2>3. TermOk(Chan(Other(p))', term_sent[Other(p)], conn[Other(p)] # "poisoned",
               term_received'[p])
    BY <2>2, TermRead
  <2>4. Chan(p)' = Chan(p)
    <3>1. wire'[p] = wire[p]
      BY ReadChannel
    <3> QED
      BY <3>1 DEF Chan
  <2> QED
    BY <2>3, <2>4, TermPeers
<1> QED
  BY <1>5, <1>6, SMTT(40)

\* Every step keeps TERM in its place.
LEMMA TermStep ==
  ASSUME TypeInv, LocalInv, TermInv, [Next]_vars
  PROVE  TermInv'
<1>1. CASE UNCHANGED vars
  <2> USE <1>1
  <2>1. \A p \in Peers : TermLocal(p)' /\ Chan(p)' = Chan(p)
    BY DEF TermInv, TermLocal, is_recovered, Chan, vars
  <2> QED
    BY <2>1, SMTT(40) DEF TermInv, vars
<1>2. ASSUME NEW p \in Peers, fail(p) \/ receive_eof(p) \/ write_fails(p)
      PROVE  TermInv'
  <2>1. poison(p, "io") /\ wire' = wire
    BY <1>2 DEF fail, receive_eof, write_fails
  <2> QED
    BY <2>1, TermStepPoison
<1> QED
  BY <1>1, <1>2, NextCases, TermStepApplication, TermStepWrite, TermStepSend, TermStepReceive,
     TermStepDowngrade, TermStepWriter, TermStepReader, TermStepRecovered, TermStepRaw,
     ZenonT(20)

\* At the start nothing is sent.
LEMMA TermInit ==
  ASSUME Init
  PROVE  TermInv
<1>1. \A p \in Peers : /\ Chan(p) = <<>> /\ term_sent[p] = "Init" /\ ~term_received[Other(p)]
                       /\ TermLocal(p)
  BY OtherPeer, SMTT(40) DEF Init, Chan, TermLocal
<1> USE <1>1
<1>2. \A p \in Peers : TermOk(Chan(p), "Init", conn[p] # "poisoned", term_received[Other(p)])
  BY SMTT(40) DEF TermOk
<1> QED
  BY <1>2 DEF TermInv

\* "Returned transport is clean": a peer that got the transport back finds
\* nothing of the protocol on it, whatever both sides had sent when either
\* of them started the downgrade.
THEOREM HandoverIsClean == Spec => []CleanHandover
<1> DEFINE Inv == TypeInv /\ LocalInv /\ TermInv
<1>1. Init => Inv
  BY LocalInit, TermInit, SMTT(40)
<1>2. Inv /\ [Next]_vars => Inv'
  BY LocalStep, TermStep, SMTT(40)
<1>3. Inv => CleanHandover
  <2> SUFFICES ASSUME Inv, NEW p \in Peers, conn[p] = "recovered",
                      NEW i \in 1 .. Len(wire[Other(p)])
               PROVE  wire[Other(p)][i] = Raw
    BY DEF CleanHandover
  <2>1. /\ Other(p) \in Peers /\ TermLocal(p)
        /\ TermOk(Chan(Other(p)), term_sent[Other(p)], conn[Other(p)] # "poisoned",
                  term_received[p])
    BY TermFacts
  <2> USE <2>1
  <2>2. \A j \in 1 .. Len(Chan(Other(p))) : Chan(Other(p))[j] = Raw
    BY DEF TermLocal, TermOk, is_recovered
  <2>3. wire[Other(p)] \in Seq(Packet) /\ pending[Other(p)] \in Seq(Packet)
    BY DEF TypeInv
  <2>4. i \in 1 .. Len(Chan(Other(p))) /\ Chan(Other(p))[i] = wire[Other(p)][i]
    BY <2>3, ChanStart DEF Chan
  <2> QED
    BY <2>2, <2>4
<1> QED
  BY <1>1, <1>2, <1>3, PTL DEF Spec
=============================================================================
