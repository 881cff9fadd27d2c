------------------------------ MODULE Outbound ------------------------------
(***************************************************************************)
(* The sending direction of the streams of one connection                  *)
(* (src/stream/outbound.rs), the pool and the turn queue they share        *)
(* (src/stream/conn_flow.rs, turns.rs), and the application's end of it    *)
(* (RammuxSink in src/stream/duplex.rs).                                   *)
(*                                                                         *)
(* The lock of a stream makes each operation one step.  `awake' is the set *)
(* of streams whose StreamUpdates task is scheduled: a wake adds a stream, *)
(* a poll that returns Pending re-registers the waker and removes it, and  *)
(* one that yields an update leaves it to be polled again.  The two        *)
(* directions of a stream share that task, so a poll may also come when    *)
(* this direction did not ask for it.                                      *)
(***************************************************************************)
EXTENDS Link

CONSTANTS
  MaxWritten,   \* bound: bytes the application writes to one stream
  Allowances    \* the allowances, in whole bytes, a stream may be found to have

ASSUME OutboundAssumption ==
  /\ MaxWritten \in Nat
  /\ Allowances \subseteq Nat

VARIABLES
  out,            \* OutboundState: "open", "half" (closed) or "closed"
  outFin,         \* FinState of the direction: FIN_WRITE sent, FIN_READ received
  written,        \* bytes the application wrote so far
  sent,           \* bytes handed to the connection; the rest is ready_data
  txUnacked,      \* Window.unacked of the ledger
  txUsed,         \* tx_pool.used
  turns,          \* the turn queue
  awake,          \* streams whose StreamUpdates is scheduled
  parkedWriters   \* streams whose application waits to write, flush or close

outboundVars ==
  <<out, outFin, written, sent, txUnacked, txUsed, turns, awake, parkedWriters>>

FinState == [sent : BOOLEAN, received : BOOLEAN]

OutboundTypeOK ==
  /\ out \in [Streams -> {"open", "half", "closed"}]
  /\ outFin \in [Streams -> FinState]
  /\ written \in [Streams -> 0 .. MaxWritten]
  /\ sent \in [Streams -> 0 .. MaxWritten]
  /\ txUnacked \in [Streams -> Nat]
  /\ txUsed \in Nat
  /\ turns \in Seq(Streams)
  /\ awake \subseteq Streams
  /\ parkedWriters \subseteq Streams

\* A new StreamUpdates is polled once without being woken.
OutboundInit ==
  /\ out = [s \in Streams |-> "open"]
  /\ outFin = [s \in Streams |-> [sent |-> FALSE, received |-> FALSE]]
  /\ written = [s \in Streams |-> 0]
  /\ sent = [s \in Streams |-> 0]
  /\ txUnacked = [s \in Streams |-> 0]
  /\ txUsed = 0
  /\ turns = <<>>
  /\ awake = Streams
  /\ parkedWriters = {}

\* ready_data.len()
Waiting(s) == IF out[s] = "closed" THEN 0 ELSE written[s] - sent[s]

-----------------------------------------------------------------------------
(* The turn queue.                                                         *)

InQueue(q, s) == \E i \in 1 .. Len(q) : q[i] = s

\* The stream may borrow: nobody waits, or it is first in line.
has_turn_or_room(s) == turns = <<>> \/ Head(turns) = s \/ has_room(txUsed)
has_turn(s)         == turns = <<>> \/ Head(turns) = s

join(q, s) == IF InQueue(q, s) THEN q ELSE Append(q, s)

\* PinList::remove: the others keep their order.
leave(q, s) ==
  IF InQueue(q, s)
  THEN LET k == CHOOSE i \in 1 .. Len(q) : q[i] = s
       IN  [i \in 1 .. Len(q) - 1 |-> IF i < k THEN q[i] ELSE q[i + 1]]
  ELSE q

\* The streams woken by wake_front.
wake_front(q) == IF q = <<>> THEN {} ELSE {Head(q)}

\* The streams woken when `s' leaves the queue `q' by pass_turn.
pass_turn_silently(q, s, used) == {}
pass_turn(q, s, used) ==
  IF InQueue(q, s) /\ has_room(used) THEN wake_front(leave(q, s)) ELSE {}

-----------------------------------------------------------------------------
(* The application: RammuxSink.  A write to a sink that is not ready, an   *)
(* empty write and every call on a closed direction change nothing.        *)

write(s, n) ==
  /\ out[s] = "open"
  /\ Waiting(s) = 0
  /\ written[s] + n <= MaxWritten
  /\ written' = [written EXCEPT ![s] = @ + n]
  /\ awake' = awake \cup {s}
  /\ UNCHANGED <<out, outFin, sent, txUnacked, txUsed, turns, parkedWriters>>
  /\ UNCHANGED linkVars

\* poll_write_ready or poll_flushed finds data that is not sent yet.
park_writer(s) ==
  /\ Waiting(s) > 0
  /\ parkedWriters' = parkedWriters \cup {s}
  /\ UNCHANGED <<out, outFin, written, sent, txUnacked, txUsed, turns, awake>>
  /\ UNCHANGED linkVars

\* close_writing, by Sink::poll_close, which then waits for the data
\* (`waits'), or by dropping the sink, which ends any wait.
close_writing(s, waits) ==
  /\ out[s] = "open"
  /\ out' = [out EXCEPT ![s] = IF Waiting(s) = 0 THEN "closed" ELSE "half"]
  /\ awake' = IF Waiting(s) = 0 THEN awake \cup {s} ELSE awake
  /\ parkedWriters' = IF waits /\ Waiting(s) > 0
                      THEN parkedWriters \cup {s} ELSE parkedWriters \ {s}
  /\ UNCHANGED <<outFin, written, sent, txUnacked, txUsed, turns>>
  /\ UNCHANGED linkVars

-----------------------------------------------------------------------------
(* Ledger::plan: how many of the waiting bytes go out now, if the stream   *)
(* is found to have `allowance' bytes of allowance.                        *)

may_borrow(s, allowance) == SaturatingSub(allowance, borrowed_at(txUnacked[s]))

shared_without_room(s, allowance) ==
  IF has_turn(s) THEN may_borrow(s, allowance) ELSE 0
shared(s, allowance) ==
  IF has_turn(s) THEN Least(may_borrow(s, allowance), room(txUsed)) ELSE 0

full(s) == Least(FrameLimit, Waiting(s))

plan(s, allowance) ==
  IF base_room(txUnacked[s]) >= full(s)
  THEN full(s)
  ELSE Least(full(s), base_room(txUnacked[s]) + shared(s, allowance))

-----------------------------------------------------------------------------
(* StreamUpdates::poll_progress, for this direction.                       *)

\* Nothing is waiting, or FIN_WRITE is sent already: pass the turn, sleep.
poll_idle(s) ==
  /\ Waiting(s) = 0
  /\ out[s] = "closed" => outFin[s].sent
  /\ turns' = leave(turns, s)
  /\ awake' = (awake \ {s}) \cup pass_turn(turns, s, txUsed)
  /\ UNCHANGED <<out, outFin, written, sent, txUnacked, txUsed, parkedWriters>>
  /\ UNCHANGED linkVars

\* No byte can go out.  With the allowance used up only the stream's own
\* credit helps, otherwise it waits for its turn.
poll_blocked(s, allowance) ==
  /\ Waiting(s) > 0
  /\ plan(s, allowance) = 0
  /\ IF may_borrow(s, allowance) = 0
     THEN /\ turns' = leave(turns, s)
          /\ awake' = (awake \ {s}) \cup pass_turn(turns, s, txUsed)
     ELSE /\ turns' = join(turns, s)
          /\ awake' = awake \ {s}
  /\ UNCHANGED <<out, outFin, written, sent, txUnacked, txUsed, parkedWriters>>
  /\ UNCHANGED linkVars

\* The queue after a stream with more than `n' bytes to send sent `n'.
requeue(s, n) ==
  IF n > base_room(txUnacked[s])
  THEN IF Waiting(s) > n THEN join(leave(turns, s), s) ELSE leave(turns, s)
  ELSE turns

\* A frame of data.  The last one of a half-closed direction carries
\* FIN_WRITE; `breaks' says that FIN_READ of the other direction was sent
\* too, so the task ends and transform_break passes the turn.
poll_data(s, allowance, breaks) ==
  LET n    == plan(s, allowance)
      last == out[s] = "half" /\ n = Waiting(s)
      used == set_used(txUsed, txUnacked[s], txUnacked[s] + n)
      q    == requeue(s, n)
  IN  /\ n > 0
      /\ breaks => last
      /\ toReader' = [toReader EXCEPT ![s] = Append(@,
                        [from |-> sent[s], to |-> sent[s] + n, fin |-> last])]
      /\ sent' = [sent EXCEPT ![s] = @ + n]
      /\ txUnacked' = [txUnacked EXCEPT ![s] = @ + n]
      /\ txUsed' = used
      /\ out' = [out EXCEPT ![s] = IF last THEN "closed" ELSE @]
      /\ outFin' = [outFin EXCEPT ![s].sent = last]
      /\ parkedWriters' = IF n = Waiting(s) THEN parkedWriters \ {s}
                                            ELSE parkedWriters
      /\ turns' = IF breaks THEN leave(q, s) ELSE q
      /\ awake' = (IF breaks THEN awake \ {s} ELSE awake \cup {s})
                    \cup (IF n > base_room(txUnacked[s]) /\ has_room(used)
                          THEN wake_front(q) ELSE {})
                    \cup (IF breaks THEN pass_turn(q, s, used) ELSE {})
      /\ UNCHANGED <<written, toWriter, error>>

\* FIN_WRITE on its own, once the direction is closed.
poll_fin_write(s, breaks) ==
  /\ out[s] = "closed"
  /\ ~outFin[s].sent
  /\ outFin' = [outFin EXCEPT ![s].sent = TRUE]
  /\ toReader' = [toReader EXCEPT ![s] = Append(@,
                    [from |-> sent[s], to |-> sent[s], fin |-> TRUE])]
  /\ turns' = leave(turns, s)
  /\ awake' = (IF breaks THEN awake \ {s} ELSE awake \cup {s})
                \cup pass_turn(turns, s, txUsed)
  /\ UNCHANGED <<out, written, sent, txUnacked, txUsed, parkedWriters>>
  /\ UNCHANGED <<toWriter, error>>

-----------------------------------------------------------------------------
(* StreamHandle::received, for this direction.  A frame carries either     *)
(* WINDOW or FIN_READ, never both (InboundTraffic::poll_update).           *)

window_update_error(s, credit) ==
  IF outFin[s].received THEN "sent window update after FIN_READ"
  ELSE IF credit > txUnacked[s] THEN "returned more credit than was in flight"
  ELSE "none"

received_window_update(s) ==
  /\ toWriter[s] # <<>>
  /\ ~Head(toWriter[s]).fin
  /\ toWriter' = [toWriter EXCEPT ![s] = Tail(@)]
  /\ LET credit  == Size(Head(toWriter[s]))
         unacked == txUnacked[s] - credit
     IN  /\ error' = window_update_error(s, credit)
         /\ IF error' = "none"
            THEN /\ txUnacked' = [txUnacked EXCEPT ![s] = unacked]
                 /\ txUsed' = set_used(txUsed, txUnacked[s], unacked)
                 /\ awake' = awake
                      \cup (IF set_freed(txUnacked[s], unacked)
                            THEN wake_front(turns) ELSE {})
                      \cup (IF Waiting(s) > 0 THEN {s} ELSE {})
            ELSE UNCHANGED <<txUnacked, txUsed, awake>>
  /\ UNCHANGED <<out, outFin, written, sent, turns, parkedWriters, toReader>>

\* The peer stopped reading: what is in flight, and what is not sent yet,
\* is forgotten.
received_fin_read(s) ==
  /\ toWriter[s] # <<>>
  /\ Head(toWriter[s]).fin
  /\ toWriter' = [toWriter EXCEPT ![s] = Tail(@)]
  /\ error' = IF outFin[s].received THEN "sent duplicate FIN_READ" ELSE "none"
  /\ IF error' = "none"
     THEN /\ out' = [out EXCEPT ![s] = "closed"]
          /\ outFin' = [outFin EXCEPT ![s].received = TRUE]
          /\ txUnacked' = [txUnacked EXCEPT ![s] = 0]
          /\ txUsed' = set_used(txUsed, txUnacked[s], 0)
          /\ awake' = awake
               \cup (IF out[s] # "closed" THEN {s} ELSE {})
               \cup (IF set_freed(txUnacked[s], 0) THEN wake_front(turns) ELSE {})
          /\ parkedWriters' = IF out[s] # "closed" THEN parkedWriters \ {s}
                                                  ELSE parkedWriters
     ELSE UNCHANGED <<out, outFin, txUnacked, txUsed, awake, parkedWriters>>
  /\ UNCHANGED <<written, sent, turns, toReader>>
=============================================================================
