--------------------------- MODULE PeerInvariant ----------------------------
(***************************************************************************)
(* What the proofs about Connection say of one peer: the invariant of a    *)
(* stream and what the operations of a stream do to it, what a step does to *)
(* the channel between the peers, and the invariants of one side of the    *)
(* connection and of its downgrade.                                        *)
(***************************************************************************)
EXTENDS Connection

(***************************************************************************)
(* The invariant of one stream: a direction whose FIN was sent or received *)
(* is closed, what is half closed has data left and what is closed has     *)
(* none, and nobody waits in vain.                                         *)
(***************************************************************************)
StreamInv(st) ==
  /\ st \in Stream
  /\ st.outFin.sent \/ st.outFin.received => st.out = "closed"
  /\ st.inFin.sent \/ st.inFin.received => st.inb = "closed"
  /\ st.inb = "closed" => st.unread = 0
  /\ st.inb = "half" => st.unread > 0
  /\ st.out = "closed" => st.ready = 0
  /\ st.out = "half" => st.ready > 0
  /\ st.inFin.sent => st.credit = 0
  /\ st.writer => st.ready > 0
  /\ st.reader => st.inb = "open" /\ st.unread = 0
  /\ ~st.held => st.out = "closed" /\ st.inb # "open"

-----------------------------------------------------------------------------
(* The application.                                                        *)

\* What an application may do to a stream: nothing that the connection
\* counts grows, and FINs that were received stay received.
AppStep(st, r) ==
  /\ r.held = st.held /\ r.gen = st.gen /\ r.syn = st.syn
  /\ r.outFin = st.outFin /\ r.unacked = st.unacked
  /\ r.inFin.sent = st.inFin.sent
  /\ st.inFin.sent => r.inFin.received = st.inFin.received
  /\ after_fin_write(r) <=> after_fin_write(st)
  /\ r.unread + r.credit <= st.unread + st.credit

\* What an update takes from a stream: nothing is sent after its FIN, credit
\* and data are accounted for.
SendStep(st, r, u) ==
  /\ r.gen = st.gen /\ ~r.syn /\ r.inb = st.inb /\ r.unread = st.unread
  /\ r.inFin.received = st.inFin.received /\ r.outFin.received = st.outFin.received
  /\ r.inFin.sent <=> st.inFin.sent \/ u.fin_read
  /\ r.outFin.sent <=> st.outFin.sent \/ u.fin_write
  /\ r.unacked = st.unacked + u.data
  /\ r.credit + u.credit <= st.credit
  /\ u.syn = st.syn
  /\ u.fin_read \/ u.credit > 0 => ~st.inFin.sent
  /\ u.fin_write \/ u.data > 0 => ~st.outFin.sent
  /\ u.data > 0 => ~st.outFin.received

\* What a frame does to the stream that receives it.
TakeStep(st, r, frame) ==
  /\ r.gen = st.gen /\ r.syn = st.syn /\ r.credit = st.credit
  /\ r.inFin.sent = st.inFin.sent /\ r.outFin.sent = st.outFin.sent
  /\ r.unacked = IF frame.fin_read THEN 0 ELSE st.unacked - frame.credit
  /\ r.outFin.received <=> st.outFin.received \/ frame.fin_read
  /\ after_fin_write(r) <=> after_fin_write(st) \/ frame.fin_write
  /\ r.unread <= st.unread + frame.data

\* A frame that says nothing is not sent.
Speaks(x) == x.data = 1 \/ x.credit > 0 \/ x.fin_read \/ x.fin_write

\* A channel holds the frames of a peer that are not handled yet, written or
\* not.  A frame is added at the end, or taken from the front, or the channel
\* loses its end.
Grown(c, e, x) ==
  /\ Len(c) \in Nat /\ Len(e) = Len(c) + 1
  /\ \A i \in 1 .. Len(c) : e[i] = c[i]
  /\ e[Len(c) + 1] = x

Taken(c, e) ==
  /\ Len(e) \in Nat /\ Len(c) = Len(e) + 1
  /\ \A i \in 1 .. Len(e) : e[i] = c[i + 1]

Cut(c, e) ==
  /\ Len(c) \in Nat /\ Len(e) \in Nat /\ Len(e) <= Len(c)
  /\ \A i \in 1 .. Len(e) : e[i] = c[i]

-----------------------------------------------------------------------------
(* The peers: what may be on its way, and what every peer keeps to.        *)

Packet == StreamFrame \cup {Term, Raw}

\* What a peer sent and the other one has not handled yet.
Chan(p) == wire[p] \o pending[p]

TypeInv ==
  /\ conn \in [Peers -> {"active", "downgraded", "recovered", "poisoned"}]
  /\ streams \in [Peers -> [Ids -> Stream]]
  /\ pending \in [Peers -> Seq(Packet)] /\ \A p \in Peers : Len(pending[p]) <= 1
  /\ wire \in [Peers -> Seq(Packet)]
  /\ term_sent \in [Peers -> {"Init", "Enqueued", "Flushed", "ShutDown"}]
  /\ term_received \in [Peers -> BOOLEAN]

\* Every stream is in order, and a peer holds the ones that are not dead.
LocalInv ==
  \A p \in Peers, id \in Ids :
    /\ StreamInv(streams[p][id])
    /\ conn[p] = "active" => (streams[p][id].held <=> ~is_dead(streams[p][id]))

-----------------------------------------------------------------------------
(* What the actions do to the streams.                                     *)

OnlyStream(p, id) ==
  \A q \in Peers, j \in Ids : q # p \/ j # id => streams'[q][j] = streams[q][j]

\* A stream sends a frame.
Sends(p, id, x) ==
  /\ streams[p][id].held /\ x.id = id /\ x.gen = streams[p][id].gen /\ Speaks(x)
  /\ SendStep(streams[p][id], streams'[p][id], x)
  /\ StreamInv(streams'[p][id])
  /\ streams'[p][id].held <=> ~is_dead(streams'[p][id])
  /\ streams' \in [Peers -> [Ids -> Stream]] /\ OnlyStream(p, id)
  /\ pending' = [pending EXCEPT ![p] = <<x>>]

\* A stream receives a frame, which may start it.
Takes(p, id, x) ==
  /\ x.id = id
  /\ TakeStep(IF x.syn THEN new(FALSE, x.gen) ELSE streams[p][id], streams'[p][id], x)
  /\ StreamInv(streams'[p][id])
  /\ streams'[p][id].held <=> ~is_dead(streams'[p][id])
  /\ streams' \in [Peers -> [Ids -> Stream]] /\ OnlyStream(p, id)

\* Streams::drop.
Aborts(p) ==
  /\ streams' \in [Peers -> [Ids -> Stream]]
  /\ \A id \in Ids : StreamInv(streams'[p][id]) /\ streams'[p][id].unread = streams[p][id].unread
  /\ \A q \in Peers, id \in Ids : q # p => streams'[q][id] = streams[q][id]

\* A step that ends a connection, by poison or by start_downgrade.
Leaves(p) ==
  /\ conn'[p] # "active" /\ (\A q \in Peers : q # p => conn'[q] = conn[q])
  /\ Aborts(p)

-----------------------------------------------------------------------------
(* TERM, and what comes after it.                                          *)

(***************************************************************************)
(* A channel, what its writer sent of the downgrade, whether the writer    *)
(* still has the transport, and whether the reader got TERM.  Only what an *)
(* application sends over a recovered transport follows TERM, it follows   *)
(* nothing else, and TERM arrives before it.                               *)
(***************************************************************************)
TermOk(c, sent, up, got) ==
  /\ \A i, j \in 1 .. Len(c) : i < j /\ c[i] \in {Term, Raw} => c[j] = Raw
  /\ got => \A i \in 1 .. Len(c) : c[i] = Raw
  /\ ~got => \A i \in 1 .. Len(c) : c[i] = Raw => \E j \in 1 .. Len(c) : j < i /\ c[j] = Term
  /\ sent = "Init" => ~got /\ \A i \in 1 .. Len(c) : c[i] # Term /\ c[i] # Raw
  /\ up /\ sent # "Init" /\ ~got => \E i \in 1 .. Len(c) : c[i] = Term

TermLocal(p) ==
  /\ conn[p] = "active" => term_sent[p] = "Init" /\ ~term_received[p]
  /\ conn[p] = "recovered" => pending[p] = <<>> /\ is_recovered(p)
  /\ term_sent[p] \in {"Flushed", "ShutDown"} => pending[p] = <<>>

TermInv ==
  \A p \in Peers :
    /\ TermLocal(p)
    /\ TermOk(Chan(p), term_sent[p], conn[p] # "poisoned", term_received[Other(p)])
=============================================================================
