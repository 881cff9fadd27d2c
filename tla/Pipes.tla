-------------------------------- MODULE Pipes --------------------------------
(***************************************************************************)
(* What one direction of a connection promises the applications at its two *)
(* ends: independent pipes.  A reader gets the bytes of its own writer, in *)
(* order and once; it sees the end only after the writer closed and every  *)
(* byte was read; a reader that is gone reads nothing more; and a writer   *)
(* that closed writes nothing more.  Bytes are positions, as in Transit.   *)
(***************************************************************************)
EXTENDS Integers

CONSTANTS Streams, MaxWritten

VARIABLES
  written,  \* bytes the application wrote
  writer,   \* "open" or "closed"
  readTo,   \* bytes the other application read
  reader    \* "held", "ended" or "dropped"

vars == <<written, writer, readTo, reader>>

Init ==
  /\ written = [s \in Streams |-> 0]
  /\ writer = [s \in Streams |-> "open"]
  /\ readTo = [s \in Streams |-> 0]
  /\ reader = [s \in Streams |-> "held"]

Write(s, n) ==
  /\ writer[s] = "open"
  /\ written' = [written EXCEPT ![s] = @ + n]
  /\ UNCHANGED <<writer, readTo, reader>>

\* The writer closes, or learns that the reader is dropped.
Close(s) ==
  /\ writer[s] = "open"
  /\ writer' = [writer EXCEPT ![s] = "closed"]
  /\ UNCHANGED <<written, readTo, reader>>

Read(s, to) ==
  /\ reader[s] = "held"
  /\ readTo' = [readTo EXCEPT ![s] = to]
  /\ UNCHANGED <<written, writer, reader>>

End(s) ==
  /\ reader[s] = "held"
  /\ writer[s] = "closed"
  /\ readTo[s] = written[s]
  /\ reader' = [reader EXCEPT ![s] = "ended"]
  /\ UNCHANGED <<written, writer, readTo>>

Drop(s) ==
  /\ reader[s] = "held"
  /\ reader' = [reader EXCEPT ![s] = "dropped"]
  /\ UNCHANGED <<written, writer, readTo>>

Next ==
  \E s \in Streams :
    \/ \E n \in 1 .. MaxWritten : Write(s, n)
    \/ Close(s)
    \/ \E to \in readTo[s] .. written[s] : Read(s, to)
    \/ End(s)
    \/ Drop(s)

Spec == Init /\ [][Next]_vars
=============================================================================
