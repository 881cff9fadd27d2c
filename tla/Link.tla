-------------------------------- MODULE Link --------------------------------
(***************************************************************************)
(* One direction of data between two peers: what the connection of one     *)
(* side took from its streams and the other side has not handled yet.  The *)
(* transport is ordered and reliable (a TCP-like byte stream, external).   *)
(* Frames of different streams touch each other only through the pools,    *)
(* so each stream has a queue of its own here: every order in which a      *)
(* connection interleaves its streams is a behaviour of the model.         *)
(***************************************************************************)
EXTENDS Flow, Sequences

VARIABLES
  toReader,   \* DATA and FIN_WRITE frames, per stream
  toWriter,   \* WINDOW and FIN_READ frames, per stream
  error       \* the StreamError that poisoned the connection, or "none"

linkVars == <<toReader, toWriter, error>>

(***************************************************************************)
(* The part of a frame that concerns one direction.  Payload bytes are     *)
(* named by their position in the stream: a DATA frame carries the bytes   *)
(* from+1 .. to, and a WINDOW gives back the bytes from+1 .. to, of which  *)
(* the code puts only the number, to - from, on the wire.  `fin' is        *)
(* FIN_WRITE on the way to the reader and FIN_READ on the way back.        *)
(***************************************************************************)
Frame == [from : Nat, to : Nat, fin : BOOLEAN]

Size(frame) == frame.to - frame.from

Errors ==
  {"none", "sent window update after FIN_READ",
   "returned more credit than was in flight", "sent duplicate FIN_READ",
   "exceeded the receive pool", "sent data after FIN_WRITE",
   "sent duplicate FIN_WRITE"}

LinkTypeOK ==
  /\ toReader \in [Streams -> Seq(Frame)]
  /\ toWriter \in [Streams -> Seq(Frame)]
  /\ error \in Errors

LinkInit ==
  /\ toReader = [s \in Streams |-> <<>>]
  /\ toWriter = [s \in Streams |-> <<>>]
  /\ error = "none"
=============================================================================
