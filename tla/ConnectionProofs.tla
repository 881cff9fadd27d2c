-------------------------- MODULE ConnectionProofs --------------------------
(***************************************************************************)
(* Two peers that follow the code never see a protocol violation, and the  *)
(* frames reach the stream they were sent on: for every window, number of  *)
(* streams and set of IDs.                                                 *)
(***************************************************************************)
EXTENDS PeerProofs, ConnectionLemmas, FiniteSetTheorems

\* The provers of a leaf that names none, in the order they are tried.
USE ZenonT(10), SMTT(40), ZenonT(40)

-----------------------------------------------------------------------------
(* The number of streams.                                                  *)

\* The IDs are finitely many, so their sets can be counted.
LEMMA IdsCount == CountsIds
<1>1. ASSUME NEW A \in SUBSET Ids
      PROVE  IsFiniteSet(A) /\ Cardinality(A) \in Nat
  BY ConnectionAssumption, FS_Subset, FS_CardinalityType
<1> USE <1>1
<1>2. ASSUME NEW B \in SUBSET Ids, NEW A \in SUBSET B, Cardinality(B) <= MaxStreams
      PROVE  Cardinality(A) <= MaxStreams
  <2>1. /\ IsFiniteSet(B) /\ Cardinality(B) \in Nat /\ Cardinality(A) \in Nat
    OBVIOUS
  <2> USE <2>1
  <2>2. Cardinality(A) <= Cardinality(B)
    BY FS_Subset
  <2> QED
    BY <1>2, <2>2, ConnectionAssumption, SMTT(40)
<1>3. ASSUME NEW A \in SUBSET Ids, NEW x \in Ids, x \notin A
      PROVE  Cardinality(A \cup {x}) <= MaxStreams <=> Cardinality(A) < MaxStreams
  <2>1. IsFiniteSet(A) /\ Cardinality(A) \in Nat
    OBVIOUS
  <2> USE <2>1
  <2>2. Cardinality(A \cup {x}) = Cardinality(A) + 1
    BY <1>3, FS_AddElement
  <2> QED
    BY <2>2, ConnectionAssumption, SMTT(40)
<1> QED
  BY <1>2, <1>3 DEF CountsIds

\* A step of a peer that is not active after it.
LEMMA AwayStep ==
  ASSUME Inv, NEW p \in Peers, conn'[p] # "active", conn'[Other(p)] = conn[Other(p)],
         streams'[Other(p)] = streams[Other(p)],
         \/ Cut(Chan(p), Chan(p)')
         \/ Grown(Chan(p), Chan(p)', Term) \/ Grown(Chan(p), Chan(p)', Raw)
  PROVE  FrameInv'
<1>1. /\ Other(p) \in Peers /\ Other(Other(p)) = p /\ Peer(Other(p))
      /\ \A id \in Ids : StreamInv(streams[Other(p)][id])
  BY Found
<1> USE <1>1
<1>2. Peer(p)' /\ Pair(p)'
  BY SMTT(40) DEF Peer, Pair
<1>3. Peer(Other(p))'
  <2>1. CASE Cut(Chan(p), Chan(p)')
    BY <2>1, IdsCount, KeptPeer
  <2>2. ASSUME NEW x \in {Term, Raw}, Grown(Chan(p), Chan(p)', x)
        PROVE  Peer(Other(p))'
    <3>1. x \notin StreamFrame
      BY PacketKinds
    <3> QED
      BY <2>2, <3>1, IdsCount, GrownPeer
  <2> QED
    BY <2>1, <2>2
<1> QED
  BY <1>2, <1>3, Shown

\* A call on a stream handle.
LEMMA ApplicationFrames ==
  ASSUME Inv, NEW p \in Peers, NEW id \in Ids, Application(p, id)
  PROVE  FrameInv'
<1>1. TypeInv /\ LocalInv
  BY DEF Inv
<1>2. /\ streams' \in [Peers -> [Ids -> Stream]] /\ OnlyStream(p, id)
      /\ StreamInv(streams'[p][id]) /\ AppStep(streams[p][id], streams'[p][id])
  BY <1>1, ApplicationEffect
<1> USE <1>2
<1>3. conn' = conn /\ Chan(p)' = Chan(p) /\ Chan(Other(p))' = Chan(Other(p))
  BY DEF Application, connVars, Chan
<1> USE <1>3
<1>4. /\ Other(p) \in Peers /\ Peer(p) /\ Pair(p)
      /\ \A j \in Ids : StreamInv(streams[p][j]) /\ StreamInv(streams[Other(p)][j])
      /\ Len(Chan(p)) \in Nat /\ Len(Chan(Other(p))) \in Nat
  BY Found
<1> USE <1>4
<1>5. Peer(Other(p))' /\ streams'[Other(p)] = streams[Other(p)]
  BY IdsCount, OtherKept
<1> USE <1>5
<1>6. ASSUME conn[p] = "active"
      PROVE  Ready(p)' /\ Cardinality(Held(p, p)') <= MaxStreams
  <2> USE <1>6
  <2>1. OwnStep(streams[p][id], streams'[p][id])
    BY AppIsOwn
  <2>2. Ready(p)'
    BY <2>1, IdsCount, OwnKeepsReady
  <2>3. \A j \in Ids : streams'[p][j].held = streams[p][j].held
    BY DEF OnlyStream, AppStep
  <2>4. Held(p, p)' = Held(p, p)
    BY <2>3, KeptHeld
  <2>5. Cardinality(Held(p, p)) <= MaxStreams
    BY DEF Peer
  <2> QED
    BY <2>2, <2>4, <2>5
<1>7. ASSUME conn[p] = "active", conn[Other(p)] = "active", NEW j \in Ids
      PROVE  Ledger(Chan(p), Chan(Other(p)), streams'[p][j], streams[Other(p)][j], j,
                    initiated_by(j) = p)
  <2>1. Ledger(Chan(p), Chan(Other(p)), streams[p][j], streams[Other(p)][j], j,
               initiated_by(j) = p)
    BY <1>7 DEF Pair, Agree, AgreeOn
  <2> USE <2>1
  <2>2. CASE j = id
    <3>1. StreamInv(streams[p][id]) /\ StreamInv(streams[Other(p)][id])
      BY SMTT(40)
    <3> QED
      BY <2>2, <3>1, LedgerApp
  <2>3. CASE j # id
    <3>1. streams'[p][j] = streams[p][j]
      BY <2>3 DEF OnlyStream
    <3> QED
      BY <3>1
  <2> QED
    BY <2>2, <2>3, SMTT(40)
<1>8. Peer(p)' /\ Pair(p)'
  BY <1>6, <1>7, SMTT(40) DEF Peer, Pair, Agree, AgreeOn
<1> QED
  BY <1>8, Shown

-----------------------------------------------------------------------------
(* try_start_outbound.                                                     *)

\* A new stream: its ID is free at both peers, or still finishing at the
\* other one.
LEMMA OpenFrames ==
  ASSUME Inv, NEW p \in Peers, open_outbound(p)
  PROVE  FrameInv'
<1>1. TypeInv /\ LocalInv
  BY DEF Inv
<1>2. PICK id \in Ids :
        /\ ~streams[p][id].held /\ initiated_by(id) = p
        /\ streams' \in [Peers -> [Ids -> Stream]] /\ OnlyStream(p, id)
        /\ StreamInv(streams'[p][id]) /\ streams'[p][id].held /\ ~is_dead(streams'[p][id])
        /\ streams'[p][id] = new(TRUE, 1 - streams[p][id].gen)
  BY <1>1, OpenEffect
<1> USE <1>2
<1>3. /\ conn' = conn /\ Chan(p)' = Chan(p) /\ Chan(Other(p))' = Chan(Other(p))
      /\ conn[p] = "active" /\ Cardinality(Held(p, p)) < MaxStreams
  BY DEF open_outbound, connVars, Chan
<1> USE <1>3
<1>4. /\ Other(p) \in Peers /\ Other(p) # p /\ Peer(p) /\ Pair(p)
      /\ \A j \in Ids : StreamInv(streams[p][j]) /\ StreamInv(streams[Other(p)][j])
      /\ conn[p] = "active" =>
           \A j \in Ids : streams[p][j].held <=> ~is_dead(streams[p][j])
      /\ Len(Chan(p)) \in Nat /\ Len(Chan(Other(p))) \in Nat
  BY Found
<1> USE <1>4
<1>5. Peer(Other(p))' /\ streams'[Other(p)] = streams[Other(p)]
  BY IdsCount, OtherKept
<1> USE <1>5
<1>6. Ready(p)
  BY DEF Peer
<1> USE <1>6
<1> DEFINE c == Chan(Other(p))
           own(j) == initiated_by(j) = Other(p)
<1>7. ~own(id)
  OBVIOUS
<1> USE <1>7
<1>8. \A j \in Ids : Accept(c, streams[p][j], j, own(j))
  BY DEF Ready
<1> USE <1>8
<1>9. own(id) = FALSE
  OBVIOUS
<1> USE <1>9
<1>10. Accept(c, streams[p][id], id, FALSE)
  OBVIOUS
<1> USE <1>10
<1>11. \A r : StreamInv(r) => Accept(c, r, id, FALSE)
  BY NothingForDead
<1>12. ASSUME NEW j \in Ids
       PROVE  Accept(c, streams'[p][j], j, own(j))
  <2>1. CASE j = id
    BY <1>11, <2>1
  <2>2. CASE j # id
    BY <2>2 DEF OnlyStream
  <2> QED
    BY <2>1, <2>2, SMTT(40)
<1>13. Limit(c, streams'[p], Other(p))
  <2>1. Limit(c, streams[p], Other(p))
    BY DEF Ready
  <2>2. \A j \in Ids : initiated_by(j) = Other(p) => streams'[p][j] = streams[p][j]
    BY DEF OnlyStream
  <2> HIDE DEF c
  <2> QED
    BY <2>1, <2>2, IdsCount, LimitOwn
<1>14. Cardinality(Held(p, p)') <= MaxStreams
  <2>1. Held(p, p)' \subseteq Held(p, p) \cup {id}
    BY DEF Held, OnlyStream
  <2>2. Held(p, p)' \subseteq Ids /\ Held(p, p) \subseteq Ids
    BY DEF Held
  <2> QED
    BY <2>1, <2>2, IdsCount, OneMore
<1>15. ASSUME conn[Other(p)] = "active", NEW j \in Ids
       PROVE  Ledger(Chan(p), Chan(Other(p)), streams'[p][j], streams[Other(p)][j], j,
                     initiated_by(j) = p)
  <2>1. Ledger(Chan(p), Chan(Other(p)), streams[p][j], streams[Other(p)][j], j,
               initiated_by(j) = p)
    BY <1>15 DEF Pair, Agree, AgreeOn
  <2> USE <2>1
  <2>2. CASE j = id
    <3> USE <2>2
    <3>1. /\ StreamInv(streams[p][id]) /\ StreamInv(streams[Other(p)][id])
          /\ is_dead(streams[p][id])
      OBVIOUS
    <3>2. (initiated_by(id) = p) = TRUE /\ FALSE = (~TRUE)
      OBVIOUS
    <3> USE <3>2
    <3>3. Ledger(Chan(p), c, streams[p][id], streams[Other(p)][id], id, TRUE)
      OBVIOUS
    <3>4. Accept(c, streams[p][id], id, ~TRUE)
      OBVIOUS
    <3>5. Ledger(Chan(p), c, new(TRUE, 1 - streams[p][id].gen), streams[Other(p)][id], id, TRUE)
      BY <3>1, <3>3, <3>4, LedgerOpen
    <3> QED
      BY <3>5
  <2>3. CASE j # id
    <3>1. streams'[p][j] = streams[p][j]
      BY <2>3 DEF OnlyStream
    <3> QED
      BY <3>1
  <2> QED
    BY <2>2, <2>3, SMTT(40)
<1>16. Ready(p)'
  BY <1>12, <1>13, SMTT(40) DEF Ready
<1>17. Peer(p)' /\ Pair(p)'
  BY <1>14, <1>15, <1>16, SMTT(40) DEF Peer, Pair, Agree, AgreeOn
<1> QED
  BY <1>17, Shown

-----------------------------------------------------------------------------
(* poll_send.                                                              *)

\* The state in which a stream of `p' sends a frame, and what is then true
\* of the stream and of the channel.
LEMMA SendState ==
  ASSUME Inv, NEW p \in Peers, poll_send(p)
  PROVE  /\ conn' = conn /\ conn[p] = "active" /\ Chan(Other(p))' = Chan(Other(p))
         /\ \E id \in Ids, x \in StreamFrame :
              /\ Sends(p, id, x) /\ Grown(Chan(p), Chan(p)', x) /\ Of(x, id)
              /\ OwnStep(streams[p][id], streams'[p][id])
<1>1. TypeInv /\ LocalInv
  BY DEF Inv
<1> USE <1>1
<1>2. conn' = conn /\ conn[p] = "active" /\ pending[p] = <<>> /\ wire' = wire
  BY DEF poll_send, connVars
<1> USE <1>2
<1>3. PICK id \in Ids, x \in StreamFrame : Sends(p, id, x)
  BY SendEffect
<1> USE <1>3
<1>4. x \in Packet /\ pending' = [pending EXCEPT ![p] = <<x>>] /\ Of(x, id)
  BY DEF Packet, Sends, Of
<1> USE <1>4
<1>5. Grown(Chan(p), Chan(p)', x) /\ Chan(Other(p))' = Chan(Other(p))
  BY EnqueueChannel
<1>6. OwnStep(streams[p][id], streams'[p][id])
  <2>1. x.data \in {0, 1}
    BY FrameTypes
  <2>2. StreamInv(streams[p][id])
    BY DEF LocalInv
  <2>3. /\ streams[p][id].held /\ SendStep(streams[p][id], streams'[p][id], x)
        /\ StreamInv(streams'[p][id])
        /\ streams'[p][id].held <=> ~is_dead(streams'[p][id])
    BY DEF Sends
  <2> QED
    BY <2>1, <2>2, <2>3, SendIsOwn
<1> QED
  BY <1>5, <1>6

\* Streams::poll_send: the frame is one that the other peer is ready for.
LEMMA SendFrames ==
  ASSUME Inv, NEW p \in Peers, poll_send(p)
  PROVE  FrameInv'
<1>1. conn' = conn /\ conn[p] = "active" /\ Chan(Other(p))' = Chan(Other(p))
  BY SendState
<1> USE <1>1
<1>2. PICK id \in Ids, x \in StreamFrame :
        /\ Sends(p, id, x) /\ Grown(Chan(p), Chan(p)', x) /\ Of(x, id)
        /\ OwnStep(streams[p][id], streams'[p][id])
  BY SendState
<1> USE <1>2
<1>3. /\ Other(p) \in Peers /\ Other(p) # p /\ Other(Other(p)) = p
      /\ Peer(p) /\ Peer(Other(p))
  BY Found
<1> USE <1>3
<1>4. /\ OnlyStream(p, id) /\ StreamInv(streams'[p][id])
      /\ streams' \in [Peers -> [Ids -> Stream]]
  BY DEF Sends
<1> USE <1>4
<1>5. streams'[Other(p)] = streams[Other(p)]
  <2>1. \A j \in Ids : streams'[Other(p)][j] = streams[Other(p)][j]
    BY DEF OnlyStream
  <2> QED
    BY <2>1, KeptStreams DEF Inv
<1> USE <1>5
<1>6. Ready(p)'
  BY IdsCount, OwnKeepsReady
<1>7. Cardinality(Held(p, p)') <= MaxStreams
  <2>1. \A j \in Ids : streams'[p][j].held => streams[p][j].held
    BY DEF OnlyStream, OwnStep
  <2>2. Held(p, p)' \subseteq Held(p, p) /\ Held(p, p) \subseteq Ids
    BY <2>1 DEF Held
  <2>3. Cardinality(Held(p, p)) <= MaxStreams
    BY DEF Peer
  <2> QED
    BY <2>2, <2>3, IdsCount, FewerIds
<1>8. ASSUME conn[Other(p)] = "active"
      PROVE  /\ Limit(Chan(p)', streams[Other(p)], p)
             /\ \A j \in Ids : Accept(Chan(p)', streams[Other(p)][j], j, initiated_by(j) = p)
             /\ \A j \in Ids : Ledger(Chan(p)', Chan(Other(p)), streams'[p][j],
                                      streams[Other(p)][j], j, initiated_by(j) = p)
  BY <1>8, IdsCount, SendReaches
<1> USE <1>8
<1>9. Peer(Other(p))'
  <2>1. Held(Other(p), Other(p))' = Held(Other(p), Other(p))
    BY KeptHeld
  <2>2. conn[Other(p)] = "active" => Cardinality(Held(Other(p), Other(p))) <= MaxStreams
    BY DEF Peer
  <2> QED
    BY <2>1, <2>2, SMTT(40) DEF Peer, Ready
<1>10. Peer(p)' /\ Pair(p)'
  BY <1>6, <1>7, SMTT(40) DEF Peer, Pair, Agree, AgreeOn
<1> QED
  BY <1>9, <1>10, Shown

-----------------------------------------------------------------------------
(* receive.                                                                *)

\* Until TERM arrives, what arrives is a frame: poll_recover_reader and the
\* connection decode nothing that an application sent.
LEMMA NotRaw ==
  ASSUME Inv, NEW p \in Peers, ~term_received[p], wire[Other(p)] # <<>>
  PROVE  /\ Head(wire[Other(p)]) \in StreamFrame \cup {Term}
         /\ Chan(Other(p))[1] = Head(wire[Other(p)])
         /\ \E e : Taken(Chan(Other(p)), e)
<1>1. /\ Other(p) \in Peers
      /\ TermOk(Chan(Other(p)), term_sent[Other(p)], conn[Other(p)] # "poisoned",
                term_received[p])
  BY TermFacts DEF Inv
<1> USE <1>1
<1>2. wire[Other(p)] \in Seq(Packet) /\ pending[Other(p)] \in Seq(Packet)
  BY DEF Inv, TypeInv
<1> DEFINE c == Chan(Other(p))
           e == Tail(wire[Other(p)]) \o pending[Other(p)]
           x == Head(wire[Other(p)])
<1>3. Taken(c, e) /\ c[1] = x /\ x \in Packet
  BY <1>2, ChanTake DEF Chan
<1> USE <1>3
<1> HIDE DEF c, e, x
<1>4. c[1] # Raw
  <2>1. TermOk(c, term_sent[Other(p)], conn[Other(p)] # "poisoned", term_received[p])
    BY SMTT(40) DEF c
  <2>2. 1 \in 1 .. Len(c) /\ ~\E j \in 1 .. Len(c) : j < 1
    BY SMTT(40) DEF Taken
  <2> QED
    BY <2>1, <2>2 DEF TermOk
<1>5. x \in StreamFrame \cup {Term}
  BY <1>4 DEF Packet
<1> QED
  BY <1>5 DEF c, x

\* `receive' takes the frame; it does not poison the connection.
LEMMA ReceiveState ==
  ASSUME Inv, NEW p \in Peers, receive(p)
  PROVE  /\ conn[p] = "active" /\ UNCHANGED <<conn, fault>> /\ Chan(p)' = Chan(p)
         /\ Taken(Chan(Other(p)), Chan(Other(p))')
         /\ \E id \in Ids, x \in StreamFrame : Takes(p, id, x) /\ x = Chan(Other(p))[1]
<1>1. TypeInv /\ LocalInv /\ TermInv
  BY DEF Inv
<1> USE <1>1
<1> DEFINE x == Head(wire[Other(p)])
<1>2. /\ conn[p] = "active" /\ wire[Other(p)] # <<>> /\ x # Term
      /\ wire' = [wire EXCEPT ![Other(p)] = Tail(@)]
  BY DEF receive
<1> USE <1>2
<1>3. ~term_received[p]
  BY TermFacts DEF TermLocal
<1> USE <1>3
<1>4. x \in StreamFrame /\ x = Chan(Other(p))[1] /\ x # Raw
  BY NotRaw, PacketKinds
<1> USE <1>4
<1>5. receive_error(p, x) = "none"
  <2>1. PICK e : Taken(Chan(Other(p)), e)
    BY NotRaw
  <2> HIDE DEF x
  <2> QED
    BY <2>1, IdsCount, NothingWrong
<1> USE <1>5
<1>6. /\ SetStream(p, x.id, remove_if_dead(received(
           IF x.syn THEN new(FALSE, x.gen) ELSE streams[p][x.id], x)))
      /\ UNCHANGED <<connVars, pending>>
  BY DEF receive
<1> USE <1>6
<1>7. UNCHANGED <<conn, fault, pending>>
  BY DEF connVars
<1> USE <1>7
<1>8. Taken(Chan(Other(p)), Chan(Other(p))') /\ wire'[p] = wire[p]
  BY ReadChannel
<1> USE <1>8
<1>9. Chan(p)' = Chan(p)
  BY DEF Chan
<1> HIDE DEF x
<1>10. x.id \in Ids /\ Takes(p, x.id, x)
  BY TakeEffect
<1> QED
  BY <1>9, <1>10

\* Streams::receive: the stream and the peer are ready for what comes after
\* the frame.
LEMMA ReceiveFrames ==
  ASSUME Inv, NEW p \in Peers, receive(p)
  PROVE  FrameInv'
<1>1. /\ conn[p] = "active" /\ conn' = conn /\ Chan(p)' = Chan(p)
      /\ Taken(Chan(Other(p)), Chan(Other(p))')
  BY ReceiveState
<1> USE <1>1
<1>2. PICK id \in Ids, x \in StreamFrame : Takes(p, id, x) /\ x = Chan(Other(p))[1]
  BY ReceiveState
<1> USE <1>2
<1>3. /\ OnlyStream(p, id) /\ x.id = id /\ streams' \in [Peers -> [Ids -> Stream]]
  BY DEF Takes
<1> USE <1>3
<1>4. Peer(Other(p))' /\ streams'[Other(p)] = streams[Other(p)]
  BY IdsCount, OtherKept
<1> USE <1>4
<1>5. Ready(p)'
  BY IdsCount, TakeKeepsReady
<1>6. Cardinality(Held(p, p)') <= MaxStreams
  <2>1. ~x.syn => streams[p][id].held
    BY IdsCount, NothingWrong
  <2>2. x.syn => initiated_by(id) = Other(p)
    BY IdsCount, NothingWrong
  <2>3. Other(p) # p /\ Cardinality(Held(p, p)) <= MaxStreams
    BY Found DEF Peer
  <2> USE <2>3
  <2>4. \A j \in Ids : initiated_by(j) = p /\ streams'[p][j].held => streams[p][j].held
    BY <2>1, <2>2 DEF OnlyStream
  <2>5. Held(p, p)' \subseteq Held(p, p) /\ Held(p, p) \subseteq Ids
    BY <2>4 DEF Held
  <2> QED
    BY <2>5, IdsCount, FewerIds
<1>7. conn[Other(p)] = "active" =>
        \A j \in Ids : Ledger(Chan(p), Chan(Other(p))', streams'[p][j], streams[Other(p)][j],
                              j, initiated_by(j) = p)
  BY TakeKeepsAgree
<1>8. Peer(p)' /\ Pair(p)'
  BY <1>5, <1>6, <1>7, SMTT(40) DEF Peer, Pair, Agree, AgreeOn
<1> QED
  BY <1>8, Shown

-----------------------------------------------------------------------------
(* The steps that end a connection, and those of a downgrade.              *)

\* The streams are aborted, and what the codec held is written or dropped.
LEMMA LeaveFrames ==
  ASSUME Inv, NEW p \in Peers, Leaves(p), Cut(Chan(p), Chan(p)')
  PROVE  FrameInv'
<1>1. Other(p) \in Peers /\ Other(p) # p /\ TypeInv
  BY OtherPeer DEF Inv
<1> USE <1>1
<1>2. /\ conn'[p] # "active" /\ conn'[Other(p)] = conn[Other(p)]
      /\ streams' \in [Peers -> [Ids -> Stream]]
      /\ \A id \in Ids : streams'[Other(p)][id] = streams[Other(p)][id]
  BY DEF Leaves, Aborts
<1> USE <1>2
<1>3. streams'[Other(p)] = streams[Other(p)]
  BY KeptStreams
<1> QED
  BY <1>3, AwayStep

\* A failure of the transport, or an application that drops the connection.
LEMMA FailFrames ==
  ASSUME Inv, NEW p \in Peers, poison(p, "io"), wire' = wire
  PROVE  FrameInv'
<1>1. TypeInv /\ LocalInv
  BY DEF Inv
<1> USE <1>1
<1>2. Leaves(p)
  BY PoisonLeaves
<1>3. pending'[p] = <<>>
  BY SMTT(40) DEF TypeInv, poison
<1>4. Cut(Chan(p), Chan(p)')
  BY <1>3, DropChannel
<1> QED
  BY <1>2, <1>4, LeaveFrames

\* ConnState::downgrade.
LEMMA DowngradeFrames ==
  ASSUME Inv, NEW p \in Peers, downgrade(p) \/ receive_term(p)
  PROVE  FrameInv'
<1>1. TypeInv /\ LocalInv
  BY DEF Inv
<1> USE <1>1
<1>2. PICK b : start_downgrade(p, b)
  BY DEF downgrade, receive_term
<1>3. Leaves(p) /\ pending' = pending
  BY <1>2, DowngradeLeaves DEF start_downgrade
<1> USE <1>3
<1>4. wire'[p] = wire[p]
  <2>1. CASE downgrade(p)
    BY <2>1 DEF downgrade
  <2>2. CASE receive_term(p)
    <3>1. wire[Other(p)] # <<>> /\ wire' = [wire EXCEPT ![Other(p)] = Tail(@)]
      BY <2>2 DEF receive_term
    <3> QED
      BY <3>1, ReadChannel
  <2> QED
    BY <2>1, <2>2, SMTT(40)
<1>5. Cut(Chan(p), Chan(p)')
  BY <1>4, Found DEF Chan
<1> QED
  BY <1>5, LeaveFrames

\* A peer in a downgrade, or after it, does not touch its streams.
LEMMA TermFrames ==
  ASSUME Inv, NEW p \in Peers,
         \/ \E next \in {"Enqueued", "Flushed", "ShutDown"} : poll_recover_writer(p, next)
         \/ poll_recover_reader(p) \/ poll_downgraded(p) \/ raw_write(p) \/ raw_read(p)
  PROVE  FrameInv' /\ fault' = fault
<1>1. /\ TypeInv /\ Other(p) \in Peers /\ Other(p) # p /\ TermLocal(p)
      /\ Cut(Chan(p), Chan(p))
  BY Found, TermFacts DEF Inv
<1> USE <1>1
<1>2. ASSUME NEW next, poll_recover_writer(p, next)
      PROVE  FrameInv' /\ fault' = fault
  <2>1. /\ conn[p] = "downgraded" /\ UNCHANGED <<conn, fault, streams, wire>>
        /\ pending[p] = <<>>
        /\ pending' = IF next = "Enqueued" THEN [pending EXCEPT ![p] = <<Term>>] ELSE pending
    BY <1>2 DEF poll_recover_writer, term_step
  <2> USE <2>1
  <2>2. Grown(Chan(p), Chan(p)', Term) \/ Cut(Chan(p), Chan(p)')
    <3>1. CASE next = "Enqueued"
      <4>1. Term \in Packet /\ wire' = wire /\ pending' = [pending EXCEPT ![p] = <<Term>>]
        BY <3>1 DEF Packet
      <4> QED
        BY <4>1, EnqueueChannel
    <3>2. CASE next # "Enqueued"
      BY <3>2 DEF Chan
    <3> QED
      BY <3>1, <3>2, SMTT(40)
  <2>3. /\ conn'[p] # "active" /\ conn'[Other(p)] = conn[Other(p)]
        /\ streams'[Other(p)] = streams[Other(p)]
    BY SMTT(40)
  <2> QED
    BY <2>2, <2>3, AwayStep
<1>3. ASSUME poll_recover_reader(p) \/ raw_read(p)
      PROVE  FrameInv' /\ fault' = fault
  <2> USE <1>3
  <2>1. /\ conn[p] # "active" /\ wire[Other(p)] # <<>>
        /\ wire' = [wire EXCEPT ![Other(p)] = Tail(@)]
    BY DEF poll_recover_reader, raw_read
  <2> USE <2>1
  <2>2. UNCHANGED <<conn, fault, streams, pending>>
    <3>1. CASE raw_read(p)
      BY <3>1 DEF raw_read, connVars
    <3>2. CASE poll_recover_reader(p)
      <4> USE <3>2
      <4>1. ~term_received[p]
        BY DEF poll_recover_reader
      <4>2. Head(wire[Other(p)]) # Raw
        BY <4>1, NotRaw, PacketKinds
      <4> QED
        BY <4>2 DEF poll_recover_reader
    <3> QED
      BY <3>1, <3>2, SMTT(40)
  <2> USE <2>2
  <2>3. wire'[p] = wire[p]
    BY ReadChannel
  <2>4. Cut(Chan(p), Chan(p)')
    BY <2>3 DEF Chan
  <2>5. /\ conn'[p] # "active" /\ conn'[Other(p)] = conn[Other(p)]
        /\ streams'[Other(p)] = streams[Other(p)]
    OBVIOUS
  <2> QED
    BY <2>4, <2>5, AwayStep
<1>4. ASSUME poll_downgraded(p)
      PROVE  FrameInv' /\ fault' = fault
  <2>1. /\ conn' = [conn EXCEPT ![p] = "recovered"]
        /\ pending' = [pending EXCEPT ![p] = <<>>] /\ UNCHANGED <<fault, streams, wire>>
    BY <1>4 DEF poll_downgraded
  <2> USE <2>1
  <2>2. /\ conn'[p] # "active" /\ conn'[Other(p)] = conn[Other(p)] /\ pending'[p] = <<>>
    BY SMTT(40) DEF TypeInv
  <2> USE <2>2
  <2>3. Cut(Chan(p), Chan(p)')
    BY DropChannel
  <2> QED
    BY <2>3, AwayStep
<1>5. ASSUME raw_write(p)
      PROVE  FrameInv' /\ fault' = fault
  <2> USE <1>5
  <2>1. conn[p] = "recovered" /\ UNCHANGED <<conn, fault, streams>>
    BY DEF raw_write, connVars
  <2> USE <2>1
  <2>2. pending[p] = <<>>
    BY DEF TermLocal
  <2>3. Grown(Chan(p), Chan(p)', Raw)
    BY <2>2, RawChannel
  <2>4. /\ conn'[p] # "active" /\ conn'[Other(p)] = conn[Other(p)]
        /\ streams'[Other(p)] = streams[Other(p)]
    BY SMTT(40)
  <2> QED
    BY <2>3, <2>4, AwayStep
<1> QED
  BY <1>2, <1>3, <1>4, <1>5

-----------------------------------------------------------------------------
(* Every step.                                                             *)

\* Every step keeps the invariant of the two peers, and a connection that
\* ends in an error ends because of its transport or its application.
LEMMA FrameStep ==
  ASSUME Inv, [Next]_vars
  PROVE  /\ FrameInv'
         /\ fault' = fault \/ \E p \in Peers : fault' = [fault EXCEPT ![p] = "io"]
<1> DEFINE Faults == fault' = fault \/ \E p \in Peers : fault' = [fault EXCEPT ![p] = "io"]
<1>0. TypeInv
  BY DEF Inv
<1>1. CASE UNCHANGED vars
  <2>1. "client" \in Peers /\ UNCHANGED <<conn, fault, streams, wire, pending>>
    BY <1>1 DEF vars, Peers
  <2> USE <2>1
  <2>2. \A q : Chan(q)' = Chan(q)
    BY DEF Chan
  <2> QED
    BY <2>2, IdsCount, QuietStep
<1>2. ASSUME NEW p \in Peers, \E id \in Ids : Application(p, id)
      PROVE  FrameInv' /\ fault' = fault
  BY <1>2, ApplicationFrames DEF Application, connVars
<1>3. ASSUME NEW p \in Peers, open_outbound(p)
      PROVE  FrameInv' /\ fault' = fault
  BY <1>3, OpenFrames DEF open_outbound, connVars
<1>4. ASSUME NEW p \in Peers, write_pending(p)
      PROVE  FrameInv' /\ fault' = fault
  <2> USE <1>4
  <2>1. UNCHANGED <<conn, fault, streams>>
    BY DEF write_pending, connVars
  <2>2. Chan(p)' = Chan(p) /\ Chan(Other(p))' = Chan(Other(p))
    BY <1>0, WriteChannel
  <2> QED
    BY <2>1, <2>2, IdsCount, QuietStep
<1>5. ASSUME NEW p \in Peers, poll_send(p)
      PROVE  FrameInv' /\ fault' = fault
  BY <1>5, SendFrames DEF poll_send, connVars
<1>6. ASSUME NEW p \in Peers, receive(p)
      PROVE  FrameInv' /\ fault' = fault
  BY <1>6, ReceiveFrames, ReceiveState
<1>7. ASSUME NEW p \in Peers, fail(p) \/ receive_eof(p) \/ write_fails(p)
      PROVE  FrameInv' /\ Faults
  <2>1. poison(p, "io") /\ wire' = wire
    BY <1>7 DEF fail, receive_eof, write_fails
  <2> USE <2>1
  <2>2. fault' = [fault EXCEPT ![p] = "io"]
    BY DEF poison
  <2> QED
    BY <2>2, FailFrames
<1>8. ASSUME NEW p \in Peers, downgrade(p) \/ receive_term(p)
      PROVE  FrameInv' /\ fault' = fault
  BY <1>8, DowngradeFrames DEF downgrade, receive_term, start_downgrade
<1> QED
  BY <1>1, <1>2, <1>3, <1>4, <1>5, <1>6, <1>7, <1>8, TermFrames, NextCases

\* At the start the peers agree: there are no streams and no frames.
LEMMA FrameInit ==
  ASSUME Init
  PROVE  FrameInv
<1>1. \A p \in Peers : /\ Chan(p) = <<>>
                       /\ \A id \in Ids : streams[p][id] = NoStream
  BY SMTT(40) DEF Init, Chan
<1> USE <1>1
<1>2. StreamInv(NoStream) /\ ~NoStream.held
  BY NoStreamInv DEF NoStream
<1> USE <1>2
<1>3. \A id, own : Accept(<<>>, NoStream, id, own)
  <2>1. \A id : Lane(<<>>, id) = {} /\ Len(<<>>) \in Nat
    BY SMTT(40) DEF Lane
  <2> USE <2>1
  <2>2. NoStream.unacked \in Nat
    BY StreamFacts
  <2>3. \A id : CarriesAtMost(<<>>, id, NoStream.gen, "credit", NoStream.unacked)
    BY <2>2, NoSums
  <2> QED
    BY <2>3 DEF Accept
<1>4. \A id, own : Ledger(<<>>, <<>>, NoStream, NoStream, id, own)
  <2>1. \A id : Lane(<<>>, id) = {} /\ Len(<<>>) \in Nat
    BY SMTT(40) DEF Lane
  <2>2. \A id : Same(<<>>, <<>>, NoStream, NoStream, id)
    BY <2>1, SMTT(40) DEF Same, NoStream, new, FinWrite, FinRead, after_fin_write
  <2> QED
    BY <2>2 DEF Ledger
<1>5. ASSUME NEW p \in Peers
      PROVE  Peer(p) /\ Pair(p)
  <2>1. Other(p) \in Peers
    BY OtherPeer
  <2> USE <2>1
  <2>2. Limit(<<>>, streams[p], Other(p))
    BY SMTT(40) DEF Limit
  <2>3. Ready(p)
    BY <1>3, <2>2 DEF Ready
  <2>4. Held(p, p) = {}
    BY DEF Held
  <2>5. Cardinality(Held(p, p)) <= MaxStreams
    BY <2>4, FS_EmptySet, ConnectionAssumption, SMTT(40)
  <2>6. Agree(p)
    BY <1>4 DEF Agree, AgreeOn
  <2> QED
    BY <2>3, <2>5, <2>6 DEF Peer, Pair
<1> QED
  BY <1>5 DEF FrameInv

\* The inductive invariant of the connection.
LEMMA InvInductive == /\ Init => Inv
                      /\ Inv /\ [Next]_vars => Inv'
<1>1. ASSUME Init
      PROVE  Inv
  BY <1>1, LocalInit, TermInit, FrameInit DEF Inv
<1>2. ASSUME Inv, [Next]_vars
      PROVE  Inv'
  <2> USE <1>2
  <2>1. TypeInv /\ LocalInv /\ TermInv
    BY DEF Inv
  <2>2. TypeInv' /\ LocalInv' /\ TermInv' /\ FrameInv'
    BY <2>1, LocalStep, TermStep, FrameStep
  <2> QED
    BY <2>2, SMTT(40) DEF Inv
<1> QED
  BY <1>1, <1>2, SMTT(40)

\* Two peers that follow the code never see a protocol violation, with any
\* number of streams and IDs, any windows and any transport, in whatever
\* order streams are opened, closed and their IDs reused, and whenever either
\* side fails or downgrades: none of the errors of Streams::receive and of the
\* halves of a stream is raised, the stream limit and the windows included.
THEOREM PeersNeverViolate == Spec => []NoViolation
<1> DEFINE Faults == fault \in [Peers -> {"none", "io"}]
<1>1. Init => Inv /\ Faults
  <2>1. Init => Faults
    BY SMTT(40) DEF Init
  <2> QED
    BY <2>1, InvInductive
<1>2. Inv /\ Faults /\ [Next]_vars => Inv' /\ Faults'
  <2> SUFFICES ASSUME Inv, Faults, [Next]_vars
               PROVE  Inv' /\ Faults'
    OBVIOUS
  <2>1. fault' = fault \/ \E p \in Peers : fault' = [fault EXCEPT ![p] = "io"]
    BY FrameStep
  <2>2. Faults'
    BY <2>1, SMTT(40)
  <2> QED
    BY <2>2, InvInductive
<1>3. Faults => NoViolation
  BY SMTT(40) DEF NoViolation
<1> QED
  BY <1>1, <1>2, <1>3, PTL DEF Spec

\* IDs are reused, streams are not: a frame that does not start a stream is
\* handled by the stream it was sent on, and never by a later one under the
\* same ID, however late it arrives.
THEOREM FramesFindTheirStream == Spec => []FramesReachTheirStream
<1>1. Inv => FramesReachTheirStream
  <2> SUFFICES ASSUME Inv, NEW p \in Peers, conn[p] = "active", wire[Other(p)] # <<>>,
                      NEW x, x = Head(wire[Other(p)]), x \notin {Term, Raw}, ~x.syn
               PROVE  streams[p][x.id].held /\ streams[p][x.id].gen = x.gen
    BY DEF FramesReachTheirStream
  <2>1. ~term_received[p]
    BY TermFacts DEF Inv, TermLocal
  <2> USE <2>1
  <2>2. x \in StreamFrame /\ x = Chan(Other(p))[1]
    BY NotRaw
  <2>3. PICK e : Taken(Chan(Other(p)), e)
    BY NotRaw
  <2> QED
    BY <2>2, <2>3, IdsCount, NothingWrong
<1> QED
  BY <1>1, InvInductive, PTL DEF Spec
=============================================================================
