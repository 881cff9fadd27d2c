-------------------------------- MODULE Codec --------------------------------
(***************************************************************************)
(* The codec (src/wire/codec.rs, with its encoder and decoder): one        *)
(* direction of a transport, with the encoder of one peer and the decoder  *)
(* of the other.  The transport takes and gives any number of bytes at a   *)
(* time, may keep what it took until it is flushed, and may end anywhere.  *)
(*                                                                         *)
(* The peer is either this code or another implementation of the protocol, *)
(* which may send anything; of the latter one frame is read.               *)
(***************************************************************************)
EXTENDS Header, SequencesExt

CONSTANTS
  Frames,       \* the OutFrames that the connection may send
  FrameLimit,
  Cap,          \* bytes that the transport holds
  ClockRange,   \* 2^32 in the code, where micros wraps
  RawByte,      \* what the application sends after a downgrade
  MaxRaw,       \* how many of them
  OtherBytes,   \* bytes that another implementation sends in a field
  Ended, Cut, Bad   \* results of poll_next: None, UnexpectedEof, DecodeError

ASSUME CodecAssumption ==
  /\ FrameLimit \in 1 .. 65535
  /\ \A frame \in Frames : frame.stream # None => Len(frame.stream.data) <= FrameLimit
  /\ Cap > 0 /\ ClockRange > 0

VARIABLES
  peer,       \* "rammux" or "other"
  clock,      \* micros of the writing peer
  pending,    \* its EncoderItem
  writer,     \* "active", "terminating", "recovered"
  rawSent,    \* what its application sent after the downgrade
  buffered,   \* bytes that the transport took and did not send on
  wire,       \* bytes that can be read
  closed,     \* whether the writing side ended
  decoder,    \* DecoderState of the reading peer
  result,     \* what poll_next returned last, None before
  taken,      \* ghost: what the decoder read of the frame of result or decoder
  flow,       \* ghost: the frames that began to leave and were not returned
  cut         \* ghost: whether the last one was cut

writerVars == <<clock, pending, writer, rawSent>>
readerVars == <<decoder, result, taken>>
flowVars   == <<flow, cut>>
vars == <<peer, writerVars, buffered, wire, closed, readerVars, flowVars>>

\* A frame as the decoder returns it.
Frame(header, data) == [header |-> header, data |-> data]

\* DecoderState.  A header of None is ReadingHeader, else it is ReadingData.
Default == [header |-> None, flags |-> None, need |-> FLAGS_LEN, got |-> <<>>]

-----------------------------------------------------------------------------
(* EncoderItem.                                                            *)

is_empty(frame) ==
  ~frame.ping /\ frame.pong = None /\ frame.stream = None /\ ~frame.term

\* The header of an OutFrame, with the stamp.
header_of(frame, t_ping) ==
  LET part   == frame.stream
      stream == [id |-> part.id, syn |-> part.syn, fin_read |-> part.fin_read,
                 fin_write |-> part.fin_write, credit |-> part.credit,
                 data_len |-> Len(part.data)]
  IN  HeaderOf(IF part = None THEN None ELSE stream,
               IF frame.ping THEN t_ping ELSE None, frame.pong, frame.term)

payload_of(frame) == IF frame.stream = None THEN <<>> ELSE frame.stream.data

\* The item with the header encoded.
Item(header, payload) ==
  [header |-> header, payload |-> payload, bytes |-> encode(header) \o payload, consumed |-> 0]

NewItem(frame) == Item(header_of(frame, 0), payload_of(frame))

remaining(item) == Len(item.bytes) - item.consumed
is_started(item) == item.consumed > 0

stamp(item) ==
  IF item.header.ping = None THEN item
  ELSE [Item([item.header EXCEPT !.ping = clock], item.payload) EXCEPT !.consumed = item.consumed]

\* The item as a poll of the transport finds it: the time is now, until the
\* transport took the first byte.
restamped_always(item) == stamp(item)
restamped(item) == IF is_started(item) THEN item ELSE stamp(item)

-----------------------------------------------------------------------------
(* Writing: poll_send of the connection, and the downgrade.                *)

start_send(frame) ==
  /\ peer = "rammux" /\ ~closed
  /\ pending = None
  /\ writer = "active"
  /\ ~is_empty(frame) /\ legal(header_of(frame, 0))
  /\ pending' = NewItem(frame)
  /\ writer' = IF frame.term THEN "terminating" ELSE writer
  /\ UNCHANGED <<peer, clock, rawSent, buffered, wire, closed, readerVars, flowVars>>

\* One poll of the transport in poll_write_pending.  It takes n bytes; for 0
\* it is Pending, and the item keeps the stamp.
poll_write_pending(n) ==
  /\ pending # None
  /\ \E item \in {restamped(pending)} :
      /\ n <= remaining(item) /\ n <= Cap - Len(buffered) - Len(wire)
      /\ buffered' = buffered \o SubSeq(item.bytes, item.consumed + 1, item.consumed + n)
      /\ pending' = IF n = remaining(item) THEN None
                    ELSE [item EXCEPT !.consumed = @ + n]
      /\ flow' = IF is_started(pending) \/ n = 0 THEN flow
                 ELSE Append(flow, Frame(item.header, item.payload))
      /\ UNCHANGED <<peer, clock, writer, rawSent, wire, closed, readerVars, cut>>

\* poll_flush, with nothing pending: poll_send has nothing to send, or the
\* downgrade sent TERM and gives the transport back.
poll_flush_unsent ==
  /\ peer = "rammux" /\ ~closed
  /\ pending = None
  /\ writer' = IF writer = "terminating" THEN "recovered" ELSE writer
  /\ UNCHANGED <<peer, clock, pending, rawSent, buffered, wire, closed, readerVars, flowVars>>
poll_flush ==
  /\ peer = "rammux" /\ ~closed
  /\ pending = None
  /\ wire' = wire \o buffered
  /\ buffered' = <<>>
  /\ writer' = IF writer = "terminating" THEN "recovered" ELSE writer
  /\ UNCHANGED <<peer, clock, pending, rawSent, closed, readerVars, flowVars>>

\* poll_close: the downgrade shuts the transport down.
poll_close ==
  /\ pending = None /\ ~closed
  /\ writer = "terminating"
  /\ wire' = wire \o buffered
  /\ buffered' = <<>>
  /\ closed' = TRUE
  /\ UNCHANGED <<peer, clock, pending, writer, rawSent, readerVars, flowVars>>

\* The application uses the transport that it got back.
send_raw ==
  /\ writer = "recovered" /\ ~closed
  /\ rawSent < MaxRaw /\ Len(wire) < Cap
  /\ wire' = Append(wire, RawByte)
  /\ rawSent' = rawSent + 1
  /\ UNCHANGED <<peer, clock, pending, writer, buffered, closed, readerVars, flowVars>>

\* Bytes of the frame that the decoder reads, and of the first k frames.
InDecoder == IF decoder = Default THEN 0 ELSE Len(taken)
Length(k) ==
  Len(FlattenSeq([i \in 1 .. k |-> encode(flow[i].header) \o flow[i].data]))

\* The writing peer fails or drops the connection, with what the transport
\* keeps back.
drop ==
  /\ peer = "rammux" /\ ~closed /\ writer # "recovered"
  /\ closed' = TRUE
  /\ pending' = None
  /\ \E n \in 0 .. Len(buffered) :
       LET left == InDecoder + Len(wire) + n
           kept == CHOOSE k \in 0 .. Len(flow) :
                     /\ Length(k) <= left
                     /\ k < Len(flow) => left < Length(k + 1)
       IN  /\ wire' = wire \o SubSeq(buffered, 1, n)
           /\ flow' = SubSeq(flow, 1, kept)
           /\ cut' = (Length(kept) < left)
  /\ buffered' = <<>>
  /\ UNCHANGED <<peer, clock, writer, rawSent, readerVars>>

\* The transport sends on by itself.
drain ==
  /\ ~closed /\ buffered # <<>>
  /\ wire' = wire \o buffered
  /\ buffered' = <<>>
  /\ UNCHANGED <<peer, writerVars, closed, readerVars, flowVars>>

tick ==
  /\ pending # None
  /\ clock' = (clock + 1) % ClockRange
  /\ UNCHANGED <<peer, pending, writer, rawSent, buffered, wire, closed, readerVars, flowVars>>

-----------------------------------------------------------------------------
(* Reading: poll_next_frame.                                               *)

is_frame(r) == r \notin {None, Ended, Cut, Bad}
terminated == is_frame(result) /\ result.header.term
\* The caller polls on: no error, no end, no TERM.
polls ==
  /\ result \notin {Ended, Cut, Bad}
  /\ ~terminated
  /\ peer = "other" => result = None

\* What the decoder asks the transport for: never more than it can use.
asked_buffer ==
  IF decoder.header = None THEN MAX_HEADER_LEN - Len(decoder.got)
  ELSE data_len(decoder.header) - Len(decoder.got)
asked ==
  IF decoder.header = None THEN decoder.need - Len(decoder.got)
  ELSE data_len(decoder.header) - Len(decoder.got)

\* Another round of the loop, an error, a frame.
continue(d) == decoder' = d /\ UNCHANGED <<result, flow>>
fail        == result' = Bad /\ UNCHANGED <<decoder, flow>>
return(frame) ==
  /\ decoder' = Default
  /\ result' = frame
  /\ flow' = IF flow = <<>> THEN flow ELSE Tail(flow)

header_read_below(header) ==
  \/ header = None /\ fail
  \/ header # None /\ data_len(header) = 0 /\ return(Frame(header, <<>>))
  \/ header # None /\ data_len(header) >= FrameLimit /\ fail
  \/ /\ header # None /\ data_len(header) \in 1 .. FrameLimit - 1
     /\ continue([Default EXCEPT !.header = header])
header_read(header) ==
  \/ header = None /\ fail
  \/ header # None /\ data_len(header) = 0 /\ return(Frame(header, <<>>))
  \/ header # None /\ data_len(header) > FrameLimit /\ fail
  \/ /\ header # None /\ data_len(header) \in 1 .. FrameLimit
     /\ continue([Default EXCEPT !.header = header])

read_header(got) ==
  \/ Len(got) < decoder.need /\ continue([decoder EXCEPT !.got = got])
  \/ /\ Len(got) >= decoder.need
     /\ \E flags \in {IF decoder.flags = None
                      THEN from_be_bytes(SubSeq(got, 1, FLAGS_LEN)) ELSE decoder.flags} :
          \/ ~validate(flags) /\ fail
          \/ /\ validate(flags) /\ Len(got) < header_len(flags)
             /\ continue([decoder EXCEPT !.got = got, !.flags = flags,
                                         !.need = header_len(flags)])
          \/ /\ validate(flags) /\ Len(got) >= header_len(flags)
             /\ \E header \in {decode(flags, SubSeq(got, 1, header_len(flags)))} :
                  header_read(header)

read_data(got) ==
  \/ Len(got) < data_len(decoder.header) /\ continue([decoder EXCEPT !.got = got])
  \/ Len(got) = data_len(decoder.header) /\ return(Frame(decoder.header, got))

read(bytes) ==
  /\ \/ decoder.header = None /\ read_header(decoder.got \o bytes)
     \/ decoder.header # None /\ read_data(decoder.got \o bytes)
  /\ taken' = IF decoder = Default THEN bytes ELSE taken \o bytes

\* A read of n bytes, one round of the loop.
poll_read(n) ==
  /\ polls /\ peer = "rammux"
  /\ n \in 1 .. Len(wire) /\ n <= asked
  /\ read(SubSeq(wire, 1, n))
  /\ wire' = SubSeq(wire, n + 1, Len(wire))
  /\ UNCHANGED <<peer, writerVars, buffered, closed, cut>>

\* The bytes that may come next from another implementation: any flags, of the
\* reserved ones one, and a length that may be at the limit or just above it.
length_bytes == OtherBytes \cup {FrameLimit, FrameLimit + 1}
next_bytes ==
  IF decoder.header # None \/ decoder = Default THEN OtherBytes
  ELSE IF decoder.flags = None THEN 0 .. 255
  ELSE IF /\ contains(decoder.flags, DATA)
          /\ Len(decoder.got) + 1 = header_len(decoder.flags % PING)
       THEN length_bytes ELSE OtherBytes

\* A read from another implementation, a byte at a time.
poll_read_other ==
  /\ polls /\ peer = "other"
  /\ \E byte \in next_bytes : read(<<byte>>)
  /\ UNCHANGED <<peer, writerVars, buffered, wire, closed, cut>>

\* The transport has ended: a read of no bytes.
poll_read_end ==
  /\ polls
  /\ closed /\ wire = <<>>
  /\ result' = IF decoder = Default THEN Ended ELSE Cut
  /\ UNCHANGED <<peer, writerVars, buffered, wire, closed, decoder, taken, flowVars>>

-----------------------------------------------------------------------------
Init ==
  /\ peer \in {"rammux", "other"}
  /\ clock = 0
  /\ pending = None
  /\ writer = "active"
  /\ rawSent = 0
  /\ buffered = <<>>
  /\ wire = <<>>
  /\ closed = FALSE
  /\ decoder = Default
  /\ result = None
  /\ taken = <<>>
  /\ flow = <<>>
  /\ cut = FALSE

Write == \E n \in 0 .. Cap : poll_write_pending(n)
Read == \E n \in 1 .. Cap : poll_read(n)

Next ==
  \/ \E frame \in Frames : start_send(frame)
  \/ Write
  \/ poll_flush
  \/ poll_close
  \/ send_raw
  \/ drop
  \/ drain
  \/ tick
  \/ Read
  \/ poll_read_other
  \/ poll_read_end

\* Both connections are polled, and a transport whose buffer is full sends on.
Fairness ==
  /\ WF_vars(\E n \in 1 .. Cap : poll_write_pending(n))
  /\ WF_vars(poll_flush)
  /\ WF_vars(drain /\ Len(buffered) = Cap)
  /\ WF_vars(Read)

Spec == Init /\ [][Next]_vars /\ Fairness

-----------------------------------------------------------------------------
(* Properties.                                                             *)

Byte == 0 .. 255

\* The state is what the code can hold: no buffer is exceeded, in particular
\* the decoder's, whose reads are bounded by what is left to fill.
TypeOK ==
  /\ peer \in {"rammux", "other"}
  /\ clock \in 0 .. ClockRange - 1
  /\ pending # None => pending.consumed \in 0 .. Len(pending.bytes) - 1
  /\ Len(buffered) + Len(wire) <= Cap
  /\ buffered \in Seq(Byte) /\ wire \in Seq(Byte)
  /\ IF decoder.header = None
     THEN decoder.need <= MAX_HEADER_LEN /\ Len(decoder.got) < decoder.need
     ELSE Len(decoder.got) < data_len(decoder.header)

unstamped(header) ==
  IF header.ping = None THEN header ELSE [header EXCEPT !.ping = 0]

Link == INSTANCE FrameLink WITH
  waiting <- IF pending = None \/ is_started(pending) THEN None
             ELSE Frame(unstamped(pending.header), pending.payload),
  queue   <- flow,
  arrived <- IF peer = "other" THEN None ELSE result

\* The codec implements FrameLink: frames arrive whole, unchanged, and in
\* order, whatever the transport splits, keeps back or loses at the
\* end; a PING has the time of its first byte; a cut frame is never taken for
\* a clean end; and a decoder never finds an error in what an encoder wrote.
ImplementsFrames == Link!Spec

\* A frame that was handed over arrives, unless one of the two sides leaves:
\* no byte of it stays behind in the codec or in a transport that buffers.
FramesArrive ==
  \A frame \in Frames :
    pending # None /\ ~is_started(pending) /\ unstamped(pending.header) = header_of(frame, 0) ~>
      \/ closed \/ ~polls
      \/ is_frame(result) /\ unstamped(result.header) = header_of(frame, 0)

\* A peer that decoded TERM has read nothing of what the other application
\* sends after it: the transport can be given back (into_inner).
HandoverExact ==
  peer = "rammux" /\ terminated =>
    wire \o buffered = [i \in 1 .. rawSent |-> RawByte]

Options(values) == {None} \cup values
Numbers(len) == {from_be_bytes(bytes) : bytes \in [1 .. len -> OtherBytes]}
Lengths == {from_be_bytes(<<high, low>>) : high \in OtherBytes, low \in length_bytes}

\* The frames that PROTOCOL.md allows, over the bytes that the model uses.
LegalHeaders ==
  LET streams == [id : Numbers(ID_LEN), syn : BOOLEAN, fin_read : BOOLEAN,
                  fin_write : BOOLEAN, credit : {0} \cup Numbers(CreditLen),
                  data_len : {0} \cup {n \in Lengths : n <= FrameLimit}]
  IN  {header \in {HeaderOf(stream, ping, pong, FALSE) :
                     stream \in Options(streams), ping \in Options(Numbers(StampLen)),
                     pong \in Options(Numbers(StampLen))} : legal(header)}
        \cup {HeaderOf(None, None, None, TRUE)}

LegalStarts == UNION {{SubSeq(encode(h), 1, n) : n \in 1 .. Len(encode(h))} : h \in LegalHeaders}

\* What another implementation sends is refused only if no legal frame starts
\* with it, and accepted only if it is legal and exactly what this code would
\* have written: a frame has one encoding, and no length is misjudged.
RefusesExactly ==
  /\ is_frame(result) /\ decoder = Default => encode(result.header) \o result.data = taken
  /\ peer = "other" =>
       /\ result = Bad => taken \notin LegalStarts
       /\ is_frame(result) => result.header \in LegalHeaders
=============================================================================
