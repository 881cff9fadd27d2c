------------------------------ MODULE MCCodec ------------------------------
(***************************************************************************)
(* A small instance of Codec: a PING, a PONG, a stream that starts with    *)
(* data, one that ends with all there is in one frame, and TERM.           *)
(***************************************************************************)
EXTENDS Codec

Part(credit, data, syn, fin) ==
  [id |-> 258, syn |-> syn, fin_read |-> FALSE, fin_write |-> fin,
   credit |-> credit, data |-> data]

OutFrame(ping, pong, stream, term) ==
  [ping |-> ping, pong |-> pong, stream |-> stream, term |-> term]

SmallFrames ==
  {OutFrame(TRUE, None, None, FALSE),
   OutFrame(FALSE, 3, Part(0, <<5, 6>>, TRUE, FALSE), FALSE),
   OutFrame(TRUE, 1, Part(257, <<7>>, FALSE, TRUE), FALSE),
   OutFrame(FALSE, None, None, TRUE)}
=============================================================================
