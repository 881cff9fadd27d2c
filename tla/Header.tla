------------------------------- MODULE Header -------------------------------
(***************************************************************************)
(* The header of a frame (src/wire/header.rs): 16 bits of flags, and the   *)
(* fields whose flags are set, in a fixed order.  Bytes are numbers.       *)
(***************************************************************************)
EXTENDS Integers, Sequences

CONSTANTS
  CreditLen,   \* bytes of a credit, 4 in the code
  StampLen,    \* bytes of a timestamp, 4 in the code
  None         \* Option::None

SYN       == 1
FIN_READ  == 2
FIN_WRITE == 4
WINDOW    == 8
DATA      == 16
PING      == 32
PONG      == 64
TERM      == 128

STREAM == {SYN, FIN_READ, FIN_WRITE, WINDOW, DATA}

contains(flags, flag) == (flags \div flag) % 2 = 1
is_stream(flags) == \E flag \in STREAM : contains(flags, flag)

\* n if the flag, or the field it stands for, is there.
When(there, n) == IF there THEN n ELSE 0

FLAGS_LEN == 2
ID_LEN    == 2
LEN_LEN   == 2

header_len(flags) ==
  FLAGS_LEN + When(is_stream(flags), ID_LEN)
    + When(contains(flags, WINDOW), CreditLen) + When(contains(flags, DATA), LEN_LEN)
    + When(contains(flags, PING), StampLen) + When(contains(flags, PONG), StampLen)

MAX_HEADER_LEN_one_stamp == FLAGS_LEN + ID_LEN + CreditLen + LEN_LEN + StampLen
MAX_HEADER_LEN == FLAGS_LEN + ID_LEN + CreditLen + LEN_LEN + 2 * StampLen

\* Whether the flags are legal by themselves: no reserved bit, at least one
\* flag, and TERM alone.
validate(raw) ==
  /\ raw \in 1 .. 255
  /\ contains(raw, TERM) => raw = TERM

-----------------------------------------------------------------------------
(* Headers.  A credit or a length of 0 is one that is not there.           *)

HeaderOf(stream, ping, pong, term) ==
  [stream |-> stream, ping |-> ping, pong |-> pong, term |-> term]

stream_flags(part) ==
  When(part.syn, SYN) + When(part.fin_read, FIN_READ) + When(part.fin_write, FIN_WRITE)
    + When(part.credit # 0, WINDOW) + When(part.data_len # 0, DATA)

flags_of(header) ==
  (IF header.stream = None THEN 0 ELSE stream_flags(header.stream))
    + When(header.ping # None, PING) + When(header.pong # None, PONG)
    + When(header.term, TERM)

\* What encode asserts of a header.
legal(header) ==
  /\ validate(flags_of(header))
  /\ header.stream # None => stream_flags(header.stream) # 0

data_len(header) == IF header.stream = None THEN 0 ELSE header.stream.data_len

be_bytes(n, len) == [i \in 1 .. len |-> (n \div 256 ^ (len - i)) % 256]
from_be_bytes(bytes) ==
  LET value[i \in 0 .. Len(bytes)] == IF i = 0 THEN 0 ELSE value[i - 1] * 256 + bytes[i]
  IN  value[Len(bytes)]

\* A field that is written only if it is there.
field(there, n, len) == IF there THEN be_bytes(n, len) ELSE <<>>

encode(header) ==
  be_bytes(flags_of(header), FLAGS_LEN)
    \o (IF header.stream = None THEN <<>>
        ELSE be_bytes(header.stream.id, ID_LEN)
               \o field(header.stream.credit # 0, header.stream.credit, CreditLen)
               \o field(header.stream.data_len # 0, header.stream.data_len, LEN_LEN))
    \o field(header.ping # None, header.ping, StampLen)
    \o field(header.pong # None, header.pong, StampLen)

\* The header in the bytes, or None for a WINDOW without credit or DATA
\* without length.
decode_fields(flags, bytes) ==
  LET take(at, len) == from_be_bytes(SubSeq(bytes, at + 1, at + len))
      window   == contains(flags, WINDOW)
      data     == contains(flags, DATA)
      at_len   == FLAGS_LEN + ID_LEN + When(window, CreditLen)
      at_ping  == IF is_stream(flags) THEN at_len + When(data, LEN_LEN) ELSE FLAGS_LEN
      at_pong  == at_ping + When(contains(flags, PING), StampLen)
      stream   == [id        |-> take(FLAGS_LEN, ID_LEN),
                   syn       |-> contains(flags, SYN),
                   fin_read  |-> contains(flags, FIN_READ),
                   fin_write |-> contains(flags, FIN_WRITE),
                   credit    |-> IF window THEN take(FLAGS_LEN + ID_LEN, CreditLen) ELSE 0,
                   data_len  |-> IF data THEN take(at_len, LEN_LEN) ELSE 0]
  IN  HeaderOf(IF is_stream(flags) THEN stream ELSE None,
               IF contains(flags, PING) THEN take(at_ping, StampLen) ELSE None,
               IF contains(flags, PONG) THEN take(at_pong, StampLen) ELSE None,
               contains(flags, TERM))

decode(flags, bytes) ==
  LET header == decode_fields(flags, bytes)
  IN  IF \/ contains(flags, WINDOW) /\ header.stream.credit = 0
         \/ contains(flags, DATA) /\ header.stream.data_len = 0
      THEN None ELSE header
=============================================================================
