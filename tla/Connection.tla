----------------------------- MODULE Connection -----------------------------
(***************************************************************************)
(* Two peers and the connection between them: the streams of each          *)
(* (src/connection/streams.rs), the frames they exchange                   *)
(* (src/connection/active.rs), and how a connection ends, by a failure or  *)
(* by a downgrade (src/connection.rs, state.rs, downgrade.rs).             *)
(*                                                                         *)
(* A connection is a task: one poll reads and handles some frames, then    *)
(* writes some.  Every order of single frames is allowed here.  That a     *)
(* stream with something to send is polled is shown in module Transit, so  *)
(* any stream may be polled.  PING and PONG are left out.                  *)
(***************************************************************************)
EXTENDS StreamState, Sequences, FiniteSets

CONSTANTS
  Ids,          \* the stream IDs, even ones for the client
  MaxStreams,   \* max_outbound_streams = max_inbound_streams of both peers
  WireCap       \* bound: frames the transport holds in each direction

ASSUME ConnectionAssumption ==
  /\ Ids \subseteq Nat /\ IsFiniteSet(Ids)
  /\ MaxStreams \in Nat
  /\ WireCap \in Nat \ {0}

VARIABLES
  conn,           \* ConnState, and what becomes of a downgrade
  fault,          \* the error that ended the connection
  streams,        \* per peer and ID: the stream
  pending,        \* codec.pending, the frame being written, as a sequence
  wire,           \* what the transport accepted from a peer
  term_sent,      \* TermSendState of the downgrade
  term_received

vars == <<conn, fault, streams, pending, wire, term_sent, term_received>>

Peers    == {"client", "server"}
Other(p) == IF p = "client" THEN "server" ELSE "client"

initiated_by(id) == IF id % 2 = 0 THEN "client" ELSE "server"

StreamFrame ==
  [id : Ids, gen : {0, 1}, syn : BOOLEAN, credit : Nat, data : {0, 1},
   fin_read : BOOLEAN, fin_write : BOOLEAN]

\* What the transport carries: frames, TERM, and, once the transport is
\* recovered, whatever the application sends over it.
Term == [term |-> TRUE]
Raw  == [raw |-> TRUE]

Init ==
  /\ conn = [p \in Peers |-> "active"]
  /\ fault = [p \in Peers |-> "none"]
  /\ streams = [p \in Peers |-> [id \in Ids |-> NoStream]]
  /\ pending = [p \in Peers |-> <<>>]
  /\ wire = [p \in Peers |-> <<>>]
  /\ term_sent = [p \in Peers |-> "Init"]
  /\ term_received = [p \in Peers |-> FALSE]

connVars == <<conn, fault, term_sent, term_received>>

-----------------------------------------------------------------------------
(* The application's streams.  The halves outlive the connection.          *)

SetStream(p, id, st) == streams' = [streams EXCEPT ![p][id] = st]

Application(p, id) ==
  LET st == streams[p][id]
  IN  /\ \/ \E n \in 1 .. MaxChunk : can_write(st) /\ SetStream(p, id, write(st, n))
         \/ st.ready > 0 /\ SetStream(p, id, [st EXCEPT !.writer = TRUE])
         \/ /\ st.out = "open"
            /\ \E waits \in BOOLEAN :
                 SetStream(p, id, [close_writing(st) EXCEPT
                                     !.writer = waits /\ st.ready > 0])
         \/ can_read(st) /\ SetStream(p, id, poll_read(st))
         \/ /\ st.inb = "open" /\ st.unread = 0
            /\ SetStream(p, id, [st EXCEPT !.reader = TRUE])
         \/ st.inb # "closed" /\ SetStream(p, id, close_reading(st))
      /\ UNCHANGED <<connVars, pending, wire>>

\* Streams with a handle that `q' started, at `p'.
Held(p, q) == {id \in Ids : streams[p][id].held /\ initiated_by(id) = q}

\* try_start_outbound.  The slab gives any ID that is not in use.
open_outbound_over(p) ==
  /\ conn[p] = "active"
  /\ Cardinality(Held(p, p)) <= MaxStreams
  /\ \E id \in Ids \ Held(p, p) :
       /\ initiated_by(id) = p
       /\ SetStream(p, id, new(TRUE, 1 - streams[p][id].gen))
  /\ UNCHANGED <<connVars, pending, wire>>
open_outbound(p) ==
  /\ conn[p] = "active"
  /\ Cardinality(Held(p, p)) < MaxStreams
  /\ \E id \in Ids \ Held(p, p) :
       /\ initiated_by(id) = p
       /\ SetStream(p, id, new(TRUE, 1 - streams[p][id].gen))
  /\ UNCHANGED <<connVars, pending, wire>>

-----------------------------------------------------------------------------
(* The codec: at most one frame is being written.                          *)

write_pending(p) ==
  /\ conn[p] \in {"active", "downgraded"}
  /\ pending[p] # <<>>
  /\ Len(wire[p]) < WireCap
  /\ wire' = [wire EXCEPT ![p] = @ \o pending[p]]
  /\ pending' = [pending EXCEPT ![p] = <<>>]
  /\ UNCHANGED <<connVars, streams>>

-----------------------------------------------------------------------------
(* Active: frames out, frames in.                                          *)

\* A stream that is closed on both sides is forgotten, and its ID is free.
remove_if_dead(st) == [st EXCEPT !.held = ~is_dead(st)]

poll_send(p) ==
  /\ conn[p] = "active"
  /\ pending[p] = <<>>
  /\ \E id \in Ids :
       LET st == streams[p][id]
           u  == update(st)
       IN  /\ st.held
           /\ inbound_ready(st) \/ outbound_ready(st)
           /\ pending' = [pending EXCEPT ![p] = <<
                [id |-> id, gen |-> st.gen, syn |-> u.syn, credit |-> u.credit,
                 data |-> u.data, fin_read |-> u.fin_read, fin_write |-> u.fin_write]>>]
           /\ SetStream(p, id, remove_if_dead(poll_progress(st)))
  /\ UNCHANGED <<connVars, wire>>

\* Streams::drop: the streams are aborted, and the application keeps its halves.
abort_all(p) ==
  streams' = [streams EXCEPT ![p] =
    [id \in Ids |-> IF @[id].held THEN [abort(@[id]) EXCEPT !.held = FALSE] ELSE @[id]]]

\* ConnState::Poisoned.  The transport is dropped, with what is not written.
poison(p, kind) ==
  /\ conn' = [conn EXCEPT ![p] = "poisoned"]
  /\ fault' = [fault EXCEPT ![p] = kind]
  /\ pending' = [pending EXCEPT ![p] = <<>>]
  /\ abort_all(p)
  /\ UNCHANGED <<term_sent, term_received>>

\* The violations that Streams::receive finds, before it knows the stream.
receive_error(p, frame) ==
  LET st == streams[p][frame.id]
  IN  CASE initiated_by(frame.id) = p /\ frame.syn -> "wrong pool"
        [] ~st.held /\ ~frame.syn -> "unknown stream"
        [] st.held /\ frame.syn -> "occupied ID"
        [] frame.syn /\ Cardinality(Held(p, Other(p))) >= MaxStreams -> "stream limit"
        [] OTHER -> received_error(IF frame.syn THEN new(FALSE, frame.gen) ELSE st, frame)

\* A frame for a stream.  SYN starts one.
receive(p) ==
  /\ conn[p] = "active"
  /\ wire[Other(p)] # <<>>
  /\ wire' = [wire EXCEPT ![Other(p)] = Tail(@)]
  /\ LET frame == Head(wire[Other(p)])
     IN  /\ frame # Term
         /\ IF frame = Raw THEN poison(p, "not a frame")
            ELSE IF receive_error(p, frame) # "none"
            THEN poison(p, receive_error(p, frame))
            ELSE /\ SetStream(p, frame.id, remove_if_dead(received(
                      IF frame.syn THEN new(FALSE, frame.gen)
                                   ELSE streams[p][frame.id], frame)))
                 /\ UNCHANGED <<connVars, pending>>

\* The transport fails, or the application drops the connection (or the
\* downgrade), which looks the same to the streams and to the peer.
fail(p) ==
  /\ conn[p] \in {"active", "downgraded"}
  /\ poison(p, "io")
  /\ UNCHANGED wire

\* The transport ends where a frame should start: UnexpectedEof.
receive_eof_ignored(p) ==
  /\ wire[Other(p)] = <<>>
  /\ conn[Other(p)] = "poisoned" \/ term_sent[Other(p)] = "ShutDown"
  /\ conn[p] = "downgraded" /\ ~term_received[p]
  /\ poison(p, "io")
  /\ UNCHANGED wire
receive_eof(p) ==
  /\ wire[Other(p)] = <<>>
  /\ conn[Other(p)] = "poisoned" \/ term_sent[Other(p)] = "ShutDown"
  /\ conn[p] = "active" \/ (conn[p] = "downgraded" /\ ~term_received[p])
  /\ poison(p, "io")
  /\ UNCHANGED wire

\* A write to a transport that the peer dropped fails.
write_fails(p) ==
  /\ conn[p] \in {"active", "downgraded"}
  /\ pending[p] # <<>>
  /\ conn[Other(p)] = "poisoned"
  /\ poison(p, "io")
  /\ UNCHANGED wire

-----------------------------------------------------------------------------
(* The downgrade.                                                          *)

\* ConnState::downgrade, by the application or because of the peer's TERM.
start_downgrade(p, received_term) ==
  /\ conn[p] = "active"
  /\ conn' = [conn EXCEPT ![p] = "downgraded"]
  /\ term_received' = [term_received EXCEPT ![p] = received_term]
  /\ abort_all(p)
  /\ UNCHANGED <<fault, term_sent, pending>>

downgrade(p) == start_downgrade(p, FALSE) /\ UNCHANGED wire

receive_term(p) ==
  /\ wire[Other(p)] # <<>>
  /\ Head(wire[Other(p)]) = Term
  /\ wire' = [wire EXCEPT ![Other(p)] = Tail(@)]
  /\ start_downgrade(p, TRUE)

\* poll_recover_writer: TERM follows the frame being written, and then either
\* the transport is flushed or, with_shutdown, it is closed.  Every step waits
\* until the codec has nothing to write.
term_step_unflushed(p, next) ==
  \/ term_sent[p] = "Init" /\ pending[p] = <<>> /\ next = "Enqueued"
  \/ term_sent[p] = "Enqueued" /\ next = "Flushed"
term_step_last(p, next) ==
  /\ pending[p] = <<>>
  /\ term_received[p]
  /\ \/ term_sent[p] = "Init" /\ next = "Enqueued"
     \/ term_sent[p] = "Enqueued" /\ next = "Flushed"
term_step(p, next) ==
  /\ pending[p] = <<>>
  /\ \/ term_sent[p] = "Init" /\ next = "Enqueued"
     \/ term_sent[p] = "Enqueued" /\ next \in {"Flushed", "ShutDown"}
     \/ term_sent[p] = "Flushed" /\ next = "ShutDown"

poll_recover_writer(p, next) ==
  /\ conn[p] = "downgraded"
  /\ term_step(p, next)
  /\ term_sent' = [term_sent EXCEPT ![p] = next]
  /\ pending' = IF next = "Enqueued" THEN [pending EXCEPT ![p] = <<Term>>] ELSE pending
  /\ UNCHANGED <<conn, fault, term_received, streams, wire>>

\* poll_recover_reader: frames are dropped until the peer's TERM.
poll_recover_reader(p) ==
  /\ conn[p] = "downgraded"
  /\ ~term_received[p]
  /\ wire[Other(p)] # <<>>
  /\ wire' = [wire EXCEPT ![Other(p)] = Tail(@)]
  /\ IF Head(wire[Other(p)]) = Raw
     THEN poison(p, "not a frame")
     ELSE /\ term_received' = [term_received EXCEPT ![p] = Head(wire[Other(p)]) = Term]
          /\ UNCHANGED <<conn, fault, term_sent, streams, pending>>

\* Both are ready: the transport is given back, without the codec.
is_recovered_early(p) == term_sent[p] \in {"Flushed", "ShutDown"}
is_recovered(p) == term_received[p] /\ term_sent[p] \in {"Flushed", "ShutDown"}

poll_downgraded(p) ==
  /\ conn[p] = "downgraded"
  /\ is_recovered(p)
  /\ conn' = [conn EXCEPT ![p] = "recovered"]
  /\ pending' = [pending EXCEPT ![p] = <<>>]
  /\ UNCHANGED <<fault, term_sent, term_received, streams, wire>>

\* The application uses the transport it got back.
raw_write(p) ==
  /\ conn[p] = "recovered"
  /\ term_sent[p] # "ShutDown"
  /\ Len(wire[p]) < WireCap
  /\ wire' = [wire EXCEPT ![p] = Append(@, Raw)]
  /\ UNCHANGED <<connVars, streams, pending>>

raw_read(p) ==
  /\ conn[p] = "recovered"
  /\ wire[Other(p)] # <<>>
  /\ wire' = [wire EXCEPT ![Other(p)] = Tail(@)]
  /\ UNCHANGED <<connVars, streams, pending>>

-----------------------------------------------------------------------------
Exchange(p) == write_pending(p) \/ poll_send(p) \/ receive(p)

Downgrading(p) ==
  \/ receive_term(p)
  \/ \E next \in {"Enqueued", "Flushed", "ShutDown"} : poll_recover_writer(p, next)
  \/ poll_recover_reader(p)
  \/ poll_downgraded(p)

Next ==
  \E p \in Peers :
    \/ \E id \in Ids : Application(p, id)
    \/ open_outbound(p)
    \/ Exchange(p)
    \/ fail(p)
    \/ receive_eof(p)
    \/ write_fails(p)
    \/ downgrade(p)
    \/ Downgrading(p)
    \/ raw_write(p)
    \/ raw_read(p)

Spec == Init /\ [][Next]_vars

(***************************************************************************)
(* Fairness.  A poll of a connection, or of a downgrade, reads until the   *)
(* transport has nothing, and writes until it has no room.  Both peers     *)
(* keep being polled, and the transport keeps delivering.  The application *)
(* that recovered the transport reads what arrives.  Applications owe      *)
(* nothing else.                                                           *)
(***************************************************************************)
Reading(p) ==
  receive(p) \/ receive_eof(p) \/ receive_term(p) \/ poll_recover_reader(p) \/ raw_read(p)

Writing(p) ==
  \/ write_pending(p) \/ poll_send(p) \/ write_fails(p)
  \/ \E next \in {"Enqueued", "Flushed", "ShutDown"} : poll_recover_writer(p, next)
  \/ poll_downgraded(p)

Fairness == \A p \in Peers : WF_vars(Reading(p)) /\ WF_vars(Writing(p))

-----------------------------------------------------------------------------
(* Properties.                                                             *)

\* Two peers that follow the code never see a protocol violation, whatever
\* the order of opening, closing, downgrading and reusing IDs: none of the
\* StreamErrors of streams.rs, handle.rs, inbound.rs and outbound.rs is
\* raised, and nothing but frames is ever decoded.  There is no pool here: that
\* "exceeded the receive pool" is not raised is NoProtocolError of Transit.
NoViolation == \A p \in Peers : fault[p] \in {"none", "io"}

\* IDs are reused, streams are not (stream.rs): the frame that a peer handles
\* next, if it does not start a stream, belongs to the stream that the peer
\* holds under that ID, and not to an earlier one.
FramesReachTheirStream ==
  \A p \in Peers :
    conn[p] = "active" /\ wire[Other(p)] # <<>> =>
      LET frame == Head(wire[Other(p)])
      IN  frame \notin {Term, Raw} /\ ~frame.syn =>
            LET st == streams[p][frame.id] IN st.held /\ st.gen = frame.gen

\* No application waits on a half that nothing will wake: a waiting writer
\* has data to send and a waiting reader has nothing to read, on a stream the
\* connection still holds.  So removing a dead stream, and aborting all of
\* them (StreamHandle::abort), leaves nobody behind.
NobodyForgotten ==
  \A p \in Peers, id \in Ids :
    LET st == streams[p][id]
    IN  /\ st.writer => st.held /\ st.out # "closed" /\ st.ready > 0
        /\ st.reader => st.held /\ st.inb = "open" /\ st.unread = 0

\* "The application reads the data that arrived, and then the end of the
\* stream" (handle.rs): no step that ends a connection, by a failure, a
\* violation or a downgrade, takes unread data from the application.
AbortKeepsData ==
  [][\A p \in Peers, id \in Ids :
       conn[p] = "active" /\ conn'[p] # "active" =>
         streams'[p][id].unread = streams[p][id].unread]_vars

\* "Returned transport is clean, meaning that it has no unread rammux
\* protocol bytes" (downgrade.rs): a peer that recovered the transport finds
\* only what the other application sent after it recovered the transport too.
CleanHandover ==
  \A p \in Peers :
    conn[p] = "recovered" =>
      \A i \in 1 .. Len(wire[Other(p)]) : wire[Other(p)][i] = Raw

\* "rammux never shuts down the original transport" (README.md).
NeverShutsDown == \A p \in Peers : term_sent[p] # "ShutDown"

Finished(st) == st.inb = "closed" /\ st.out = "closed"

\* A stream that both applications are done with frees its ID on both sides,
\* unless the connection ends.
IdsAreFreed ==
  \A id \in Ids :
    (\A p \in Peers : Finished(streams[p][id])) ~>
      \/ \A p \in Peers : ~streams[p][id].held
      \/ \E p \in Peers : conn[p] # "active" \/ ~Finished(streams[p][id])

\* A peer whose connection ended never leaves the other one running: the
\* other one learns of a failure, or of TERM, whatever was in flight.
EndsTogether ==
  \A p \in Peers : conn[p] # "active" ~> conn[Other(p)] # "active"

\* A downgrade finishes, with both directions of the transport full of frames
\* and both sides leaving at once.
DowngradeFinishes ==
  \A p \in Peers : conn[p] = "downgraded" ~> conn[p] \in {"recovered", "poisoned"}
=============================================================================
