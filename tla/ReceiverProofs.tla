--------------------------- MODULE ReceiverProofs ---------------------------
(***************************************************************************)
(* Every step of the receiving side preserves the inductive invariant of   *)
(* Transit.                                                                *)
(***************************************************************************)
EXTENDS SenderProofs

\* The provers of a leaf that names none, in the order they are tried.
USE SMTT(40), ZenonT(20), SMTT(45)

(* The application that reads.                                             *)

\* InboundTraffic::poll_read, when it waits, preserves the invariant.
LEMMA ReadPendingStep ==
  ASSUME IInv, NEW s \in Streams, read_pending(s), UNCHANGED outboundVars
  PROVE  IInv'
<1> USE DEF read_pending, outboundVars, linkVars
<1>1. TypeOK'
  BY ZenonT(40) DEF IInv, TypeOK, OutboundTypeOK, InboundTypeOK, LinkTypeOK
<1>2. ASSUME NEW t \in Streams PROVE UnchangedAt(t)
  BY DEF SameData, SameCredit, UnchangedAt
<1>3. StreamInv'
  BY <1>2, Unaffected DEF IInv, StreamInv, StreamInvAt
<1>4. NobodyForgotten'
  BY DEF IInv, NobodyForgotten, Waiting
<1>5. NoProtocolError' /\ PoolsInSync' /\ PoolsNotOverdrawn' /\ NoLostTurn'
  BY DEF IInv, NoProtocolError, PoolsInSync, PoolsNotOverdrawn, NoLostTurn
<1> QED
  BY <1>1, <1>3, <1>4, <1>5 DEF IInv

\* InboundTraffic::poll_read, when it takes a chunk, preserves the invariant.
LEMMA ReadChunkStep ==
  ASSUME IInv, NEW s \in Streams, read_chunk(s), UNCHANGED outboundVars
  PROVE  IInv'
<1> DEFINE chunk    == unread[s][1]
           finished == inb[s] = "half" /\ Tail(unread[s]) = <<>>
<1>0. TypeOK /\ StreamInvAt(s)
  BY DEF IInv, StreamInv, StreamInvAt
<1>1. /\ reader[s] = "held" /\ inb[s] # "closed" /\ unread[s] # <<>>
      /\ Chain(unread[s], readTo[s], Arrived(s))
  BY <1>0 DEF read_chunk, StreamInvAt, DataInv
<1>2. /\ Chain(Tail(unread[s]), chunk.to, Arrived(s))
      /\ Tail(unread[s]) = <<>> => chunk.to = Arrived(s)
      /\ chunk.from = readTo[s] /\ readTo[s] <= chunk.to /\ chunk.to <= Arrived(s)
      /\ Tail(unread[s]) \in Seq(Frame) /\ chunk = Head(unread[s])
      /\ chunk.from \in Nat /\ chunk.to \in Nat
  <2>1. /\ unread[s] \in Seq(Frame) /\ 1 \in 1 .. Len(unread[s])
        /\ readTo[s] \in Int /\ Arrived(s) \in Int
    BY <1>0, <1>1, TypesAt, PositionsAt, TailFacts
  <2>2. chunk.from \in Nat /\ chunk.to \in Nat
    BY <2>1, FramesFields
  <2>3. Tail(unread[s]) \in Seq(Frame) /\ chunk = Head(unread[s])
    BY <1>1, <2>1, TailFacts
  <2> QED
    BY <1>1, <2>1, <2>2, <2>3, ChainTail
<1> HIDE DEF chunk
<1>3. /\ unread' = [unread EXCEPT ![s] = Tail(@)]
      /\ inb' = [inb EXCEPT ![s] = IF finished THEN "closed" ELSE @]
      /\ inFin' = [inFin EXCEPT ![s].received = finished]
      /\ credit' = [credit EXCEPT ![s] = @ + (chunk.to - chunk.from)]
      /\ readTo' = [readTo EXCEPT ![s] = chunk.to]
      /\ rxAwake' = IF finished \/ credit'[s] >= T_c
                    THEN rxAwake \cup {s} ELSE rxAwake
      /\ UNCHANGED <<rxUnacked, rxUsed, reader, parkedReaders, linkVars>>
  BY <1>2, ZenonT(40) DEF read_chunk, Size
<1> USE DEF outboundVars, linkVars
<1>4. finished \in BOOLEAN
  OBVIOUS
<1>5. /\ unread'[s] = Tail(unread[s]) /\ readTo'[s] = chunk.to
      /\ inb'[s] = (IF finished THEN "closed" ELSE inb[s])
      /\ inFin'[s].received = finished /\ inFin'[s].sent = inFin[s].sent
      /\ credit'[s] = credit[s] + (chunk.to - chunk.from)
  BY <1>0, <1>3 DEF TypeOK, InboundTypeOK
<1> HIDE DEF finished
<1>6. InboundTypeOK'
  <2>1. inFin' \in [Streams -> [sent : BOOLEAN, received : BOOLEAN]]
    BY <1>0, <1>3, <1>4, ZenonT(40) DEF TypeOK, InboundTypeOK
  <2>2. credit' \in [Streams -> Nat] /\ readTo' \in [Streams -> Nat]
    <3>1. /\ credit \in [Streams -> Nat] /\ readTo \in [Streams -> Nat]
          /\ chunk.to \in Nat /\ chunk.to - chunk.from \in Nat
      BY <1>0, <1>2 DEF TypeOK, InboundTypeOK
    <3> QED
      BY <1>3, <3>1
  <2>3. unread' \in [Streams -> Seq(Frame)]
    BY <1>0, <1>2, <1>3 DEF TypeOK, InboundTypeOK
  <2> QED
    BY <1>0, <1>3, <2>1, <2>2, <2>3 DEF TypeOK, InboundTypeOK
<1>7. TypeOK'
  BY <1>0, <1>3, <1>6 DEF TypeOK, OutboundTypeOK, LinkTypeOK
<1>8. ASSUME NEW t \in Streams, t # s PROVE UnchangedAt(t)
  BY <1>0, <1>3, <1>8 DEF SameData, SameCredit, UnchangedAt, TypeOK, InboundTypeOK
<1>9. StreamInvAt(s)'
  <2>1. /\ Arrived(s)' = Arrived(s) /\ credited(s)' = credited(s)
        /\ Returned(s)' = Returned(s) /\ Promised(s)' = Promised(s)
    <3>1. credited(s)' = credited(s)
      <4>1. /\ readTo[s] \in Nat /\ credit[s] \in Nat
            /\ chunk.from = readTo[s] /\ chunk.to \in Nat
            /\ readTo'[s] = chunk.to /\ credit'[s] = credit[s] + (chunk.to - chunk.from)
        BY <1>0, <1>2, <1>5, TypesAt, ZenonT(40)
      <4> QED
        BY <4>1 DEF credited
    <3> QED
      BY <1>3, <3>1 DEF Arrived, Returned, Promised
  <2>2. ~inFin[s].sent /\ ~inFin[s].received
    BY <1>0, <1>1 DEF StreamInvAt, CloseInv
  <2>3. after_fin_write(s)' <=> after_fin_write(s)
    BY <1>5, <2>2, ZenonT(40) DEF after_fin_write, finished
  <2>4. DataInv(s)'
    <3>1. readTo'[s] <= Arrived(s)
      BY <1>2, <1>5
    <3>2. inb'[s] # "closed" => Chain(unread'[s], readTo'[s], Arrived(s))
      BY <1>2, <1>5
    <3>3. inb'[s] = "closed" => unread'[s] = <<>>
      BY <1>1, <1>5 DEF finished
    <3>4. inb'[s] = "half" => unread'[s] # <<>>
      BY <1>5 DEF finished
    <3> QED
      BY <1>0, <1>3, <2>1, <2>3, <3>1, <3>2, <3>3, <3>4 DEF StreamInvAt, DataInv
  <2>5. CreditInv(s)'
    <3>1. credit'[s] <= readTo'[s]
      <4>1. credit[s] <= readTo[s] /\ credit[s] \in Nat /\ readTo[s] \in Nat
        BY <1>0, TypesAt DEF StreamInvAt, CreditInv
      <4> QED
        BY <1>2, <1>5, <4>1
    <3>2. ~inFin'[s].sent
      BY <1>5, <2>2
    <3> QED
      BY <1>0, <1>3, <1>5, <2>1, <3>1, <3>2 DEF StreamInvAt, CreditInv
  <2>6. CloseInv(s)'
    <3>1. finished => chunk.to = written[s]
      <4> SUFFICES ASSUME finished PROVE chunk.to = written[s]
        OBVIOUS
      <4>1. after_fin_write(s)
        BY DEF finished, after_fin_write
      <4>2. outFin[s].sent /\ toReader[s] = <<>>
        BY <1>0, <4>1 DEF StreamInvAt, DataInv
      <4>3. chunk.to = sent[s]
        BY <1>2, <4>2 DEF finished, Arrived
      <4> QED
        BY <1>0, <1>1, <4>2, <4>3 DEF StreamInvAt, CloseInv
    <3> QED
      BY <1>0, <1>1, <1>3, <1>5, <2>2, <3>1, ZenonT(40) DEF StreamInvAt, CloseInv
  <2>7. SleepInv(s)'
    <3>1. s \notin awake => base_room(txUnacked[s]) = 0 \/ Waiting(s) = 0
      BY <1>0 DEF StreamInvAt, SleepInv
    <3>2. Waiting(s)' = Waiting(s)
      BY DEF Waiting
    <3>3. T_c \in Int /\ credit'[s] \in Int
      BY <1>6, FlowAssumption
      DEF T_c, credit_threshold, Least, Greatest, InboundTypeOK
    <3> HIDE DEF T_c
    <3>4. T_c' = T_c
      BY DEF T_c
    <3> QED
      BY <1>3, <1>5, <1>1, <3>1, <3>2, <3>3, <3>4 DEF SleepInv
  <2> QED
    BY <2>4, <2>5, <2>6, <2>7 DEF StreamInvAt
<1>10. StreamInv'
  BY <1>8, <1>9, Unaffected DEF IInv, StreamInv, StreamInvAt
<1>11. NobodyForgotten'
  <2>1. ASSUME NEW t \in parkedReaders' PROVE inb'[t] = "open" /\ unread'[t] = <<>>
    <3>1. t \in Streams /\ t # s /\ inb[t] = "open" /\ unread[t] = <<>>
      BY <1>0, <1>1, <1>3, <2>1 DEF IInv, NobodyForgotten, TypeOK, InboundTypeOK
    <3> QED
      BY <1>8, <3>1 DEF UnchangedAt, SameData
  <2> QED
    BY <2>1 DEF IInv, NobodyForgotten, Waiting
<1>12. NoProtocolError' /\ PoolsInSync' /\ PoolsNotOverdrawn' /\ NoLostTurn'
  BY <1>3 DEF IInv, NoProtocolError, PoolsInSync, PoolsNotOverdrawn, NoLostTurn
<1> QED
  BY <1>7, <1>10, <1>11, <1>12 DEF IInv

\* RammuxStream::poll_next, when it returns None, preserves the invariant.
LEMMA ReadEndStep ==
  ASSUME IInv, NEW s \in Streams, read_end(s), UNCHANGED outboundVars
  PROVE  IInv'
<1> USE DEF read_end, outboundVars, linkVars
<1>0. TypeOK /\ StreamInvAt(s)
  BY DEF IInv, StreamInv, StreamInvAt
<1>1. InboundTypeOK' /\ reader'[s] = "ended"
  BY <1>0 DEF TypeOK, InboundTypeOK
<1>2. TypeOK'
  BY <1>0, <1>1 DEF TypeOK, OutboundTypeOK, LinkTypeOK
<1>3. ASSUME NEW t \in Streams
      PROVE  SameData(t) /\ SameCredit(t) /\ (t # s => UnchangedAt(t))
  BY <1>0 DEF SameData, SameCredit, UnchangedAt, TypeOK, InboundTypeOK
<1>4. StreamInvAt(s)'
  <2>1. DataInv(s)' /\ CreditInv(s)'
    BY <1>0, <1>3, KeepsData, KeepsCredit, ZenonT(40) DEF StreamInvAt, DataInv
  <2>2. CloseInv(s)'
    BY <1>0, <1>1, ZenonT(40) DEF StreamInvAt, CloseInv
  <2>3. SleepInv(s)'
    BY <1>0 DEF StreamInvAt, SleepInv, T_c, base_room, SaturatingSub, Waiting
  <2> QED
    BY <2>1, <2>2, <2>3 DEF StreamInvAt
<1>5. StreamInv'
  BY <1>3, <1>4, Unaffected, ZenonT(40) DEF IInv, StreamInv, StreamInvAt
<1>6. NobodyForgotten'
  BY DEF IInv, NobodyForgotten, Waiting
<1>7. NoProtocolError' /\ PoolsInSync' /\ PoolsNotOverdrawn' /\ NoLostTurn'
  BY DEF IInv, NoProtocolError, PoolsInSync, PoolsNotOverdrawn, NoLostTurn
<1> QED
  BY <1>2, <1>5, <1>6, <1>7 DEF IInv

\* InboundTraffic::close_reading preserves the invariant.
LEMMA CloseReadingStep ==
  ASSUME IInv, NEW s \in Streams, close_reading(s), UNCHANGED outboundVars
  PROVE  IInv'
<1> USE DEF outboundVars, linkVars
<1>0. TypeOK /\ StreamInvAt(s)
  BY DEF IInv, StreamInv, StreamInvAt
<1>1. /\ reader' = [reader EXCEPT ![s] = "dropped"]
      /\ parkedReaders' = parkedReaders \ {s}
      /\ UNCHANGED <<rxUnacked, rxUsed, credit, readTo, linkVars>>
  BY DEF close_reading
<1>2. /\ InboundTypeOK'
      /\ inb'[s] = "closed" /\ inFin'[s].sent = inFin[s].sent
      /\ unread'[s] = <<>>
      /\ inb[s] = "closed" => s \in rxAwake' \/ (s \notin rxAwake /\ s \notin rxAwake')
      /\ inb[s] # "closed" => s \in rxAwake'
      /\ after_fin_write(s)' <=> after_fin_write(s)
      /\ reader'[s] = "dropped"
  <2>1. CASE inb[s] = "closed"
    <3>1. unread[s] = <<>>
      BY <1>0, <2>1 DEF StreamInvAt, DataInv
    <3> QED
      BY <1>0, <1>1, <2>1, <3>1
      DEF close_reading, TypeOK, InboundTypeOK, after_fin_write
  <2>2. CASE inb[s] # "closed"
    <3>1. ~inFin[s].received
      BY <1>0, <2>2 DEF StreamInvAt, CloseInv
    <3>2. /\ inb' = [inb EXCEPT ![s] = "closed"]
          /\ inFin' = [inFin EXCEPT ![s].received = inb[s] = "half"]
          /\ unread' = [unread EXCEPT ![s] = <<>>]
          /\ rxAwake' = rxAwake \cup {s}
      BY <2>2 DEF close_reading
    <3> DEFINE h == inb[s] = "half"
    <3>3. h \in BOOLEAN
      OBVIOUS
    <3> HIDE DEF h
    <3>4. inFin' = [inFin EXCEPT ![s].received = h]
      BY <3>2 DEF h
    <3>5. /\ inFin' \in [Streams -> [sent : BOOLEAN, received : BOOLEAN]]
          /\ inFin'[s].sent = inFin[s].sent /\ inFin'[s].received = h
      BY <1>0, <3>3, <3>4, ZenonT(40) DEF TypeOK, InboundTypeOK
    <3>6. InboundTypeOK'
      BY <1>0, <1>1, <3>2, <3>5 DEF TypeOK, InboundTypeOK
    <3>7. inb'[s] = "closed" /\ unread'[s] = <<>> /\ s \in rxAwake' /\ reader'[s] = "dropped"
      BY <1>0, <1>1, <3>2 DEF TypeOK, InboundTypeOK
    <3>8. after_fin_write(s)' <=> after_fin_write(s)
      BY <3>1, <3>5, <3>7 DEF after_fin_write, h
    <3> QED
      BY <2>2, <3>5, <3>6, <3>7, <3>8, ZenonT(40)
  <2> QED
    BY <2>1, <2>2
<1>3. TypeOK'
  BY <1>0, <1>1, <1>2, ZenonT(40) DEF TypeOK, OutboundTypeOK, LinkTypeOK
<1>4. ASSUME NEW t \in Streams, t # s PROVE UnchangedAt(t)
  BY <1>0, <1>1, <1>4 DEF SameData, SameCredit, UnchangedAt, TypeOK, InboundTypeOK,
     close_reading
<1>5. StreamInvAt(s)'
  <2>1. CreditInv(s)'
    BY <1>0, <1>1, <1>2, KeepsCredit DEF StreamInvAt, SameCredit
  <2>2. Arrived(s)' = Arrived(s)
    BY <1>1, ZenonT(40) DEF Arrived
  <2>3. DataInv(s)'
    BY <1>0, <1>1, <1>2, <2>2, ZenonT(40) DEF StreamInvAt, DataInv
  <2>4. CloseInv(s)'
    BY <1>0, <1>2, ZenonT(40) DEF StreamInvAt, CloseInv
  <2>5. SleepInv(s)'
    BY <1>0, <1>2, ZenonT(40)
    DEF StreamInvAt, SleepInv, T_c, base_room, SaturatingSub, Waiting
  <2> QED
    BY <2>1, <2>3, <2>4, <2>5 DEF StreamInvAt
<1>6. StreamInv'
  BY <1>4, <1>5, Unaffected DEF IInv, StreamInv, StreamInvAt
<1>7. NobodyForgotten'
  <2>1. ASSUME NEW t \in parkedReaders' PROVE inb'[t] = "open" /\ unread'[t] = <<>>
    <3>1. t \in Streams /\ t # s /\ inb[t] = "open" /\ unread[t] = <<>>
      BY <1>0, <1>1, <2>1 DEF IInv, NobodyForgotten, TypeOK, InboundTypeOK
    <3> QED
      BY <1>4, <3>1 DEF UnchangedAt, SameData
  <2> QED
    BY <2>1 DEF IInv, NobodyForgotten, Waiting
<1>8. NoProtocolError' /\ PoolsInSync' /\ PoolsNotOverdrawn' /\ NoLostTurn'
  BY <1>1 DEF IInv, NoProtocolError, PoolsInSync, PoolsNotOverdrawn, NoLostTurn
<1> QED
  BY <1>3, <1>6, <1>7, <1>8 DEF IInv

-----------------------------------------------------------------------------
(* StreamUpdates::poll_progress.                                           *)

\* InboundTraffic::poll_update, with nothing to send, preserves the invariant.
LEMMA PollInboundIdleStep ==
  ASSUME IInv, NEW s \in Streams, poll_inbound_idle(s), UNCHANGED outboundVars
  PROVE  IInv'
<1> USE DEF poll_inbound_idle, outboundVars, linkVars
<1>0. TypeOK /\ StreamInvAt(s)
  BY ZenonT(40) DEF IInv, StreamInv, StreamInvAt
<1>1. TypeOK'
  BY ZenonT(40) DEF IInv, TypeOK, OutboundTypeOK, InboundTypeOK, LinkTypeOK
<1>2. ASSUME NEW t \in Streams
      PROVE  SameData(t) /\ SameCredit(t) /\ (t # s => UnchangedAt(t))
  BY DEF SameData, SameCredit, UnchangedAt
<1>3. StreamInvAt(s)'
  <2>1. DataInv(s)' /\ CreditInv(s)'
    BY <1>0, <1>2, KeepsData, KeepsCredit, ZenonT(40) DEF StreamInvAt, DataInv
  <2>2. CloseInv(s)'
    BY <1>0 DEF StreamInvAt, CloseInv
  <2>3. SleepInv(s)'
    BY <1>0 DEF StreamInvAt, SleepInv, T_c, base_room, SaturatingSub, Waiting
  <2> QED
    BY <2>1, <2>2, <2>3 DEF StreamInvAt
<1>4. StreamInv'
  BY <1>2, <1>3, Unaffected, ZenonT(40) DEF IInv, StreamInv, StreamInvAt
<1>5. NobodyForgotten'
  BY DEF IInv, NobodyForgotten, Waiting
<1>6. NoProtocolError' /\ PoolsInSync' /\ PoolsNotOverdrawn' /\ NoLostTurn'
  BY DEF IInv, NoProtocolError, PoolsInSync, PoolsNotOverdrawn, NoLostTurn
<1> QED
  BY <1>1, <1>4, <1>5, <1>6, ZenonT(40) DEF IInv

\* A frame that goes back to the writer extends the chain of what returns.
LEMMA SendBack ==
  ASSUME TypeOK, NEW s \in Streams, CreditInv(s), ~inFin[s].sent,
         NEW f \in Frame, f.from = credited(s), f.from <= f.to,
         toWriter'[s] = Append(toWriter[s], f)
  PROVE  /\ toWriter'[s] # <<>> /\ toWriter'[s] \in Seq(Frame)
         /\ Chain(toWriter'[s], Returned(s), f.to)
         /\ FinLast(toWriter'[s], f.fin)
         /\ Returned(s)' = Returned(s) /\ Promised(s)' = f.to
         /\ ~outFin[s].received
<1>1. /\ toWriter[s] \in Seq(Frame) /\ Returned(s) \in Int /\ Promised(s) \in Int
      /\ inFin[s].sent \in BOOLEAN
  BY TypesAt, PositionsAt
<1>2. /\ Promised(s) = credited(s) /\ Chain(toWriter[s], Returned(s), Promised(s))
      /\ FinLast(toWriter[s], FALSE) /\ ~outFin[s].received
  BY <1>1, ZenonT(40) DEF CreditInv
<1>3. Chain(toWriter'[s], Returned(s), f.to) /\ FinLast(toWriter'[s], f.fin)
  BY <1>1, <1>2, ChainAppend, FinLastAppend, ZenonT(40)
<1>4. /\ toWriter'[s] # <<>> /\ toWriter'[s] \in Seq(Frame)
      /\ toWriter'[s][Len(toWriter'[s])] = f
      /\ toWriter'[s][1] = IF toWriter[s] = <<>> THEN f ELSE toWriter[s][1]
  BY <1>1, AppendEnds
<1>5. Returned(s)' = Returned(s) /\ Promised(s)' = f.to
  BY <1>4 DEF Returned, Promised
<1> QED
  BY <1>2, <1>3, <1>4, <1>5, ZenonT(40)

\* InboundTraffic::poll_update, sending WINDOW, preserves the invariant.
LEMMA PollCreditStep ==
  ASSUME PoolLaws, IInv, NEW s \in Streams, poll_credit(s), UNCHANGED outboundVars
  PROVE  IInv'
<1> DEFINE n == credit_due(s)
           f == [from |-> credited(s), to |-> credited(s) + n, fin |-> FALSE]
<1>0. TypeOK /\ StreamInvAt(s) /\ PoolsInSync
  BY DEF IInv, StreamInv, StreamInvAt
<1>1. /\ inb[s] # "closed"
      /\ credit' = [credit EXCEPT ![s] = @ - n]
      /\ rxUnacked' = [rxUnacked EXCEPT ![s] = @ - n]
      /\ rxUsed' = set_used(rxUsed, rxUnacked[s], rxUnacked[s] - n)
      /\ toWriter' = [toWriter EXCEPT ![s] = Append(@, f)]
      /\ rxAwake' = rxAwake \cup {s}
      /\ UNCHANGED <<inb, inFin, unread, readTo, reader, parkedReaders, toReader, error>>
  BY DEF poll_credit
<1>2. n \in Nat /\ n <= credit[s]
  BY <1>0, TypesAt, InboundAssumption DEF credit_due, Least
<1> HIDE DEF n
<1>3. ~inFin[s].sent
  BY <1>0, <1>1, ZenonT(40) DEF StreamInvAt, CloseInv
<1>4. /\ credit[s] <= readTo[s] /\ readTo[s] <= Arrived(s) /\ Arrived(s) <= sent[s]
      /\ rxUnacked[s] = Arrived(s) - credited(s)
  BY <1>0, <1>3, ZenonT(40) DEF StreamInvAt, DataInv, CreditInv, Chain
<1>5. /\ credit[s] \in Nat /\ readTo[s] \in Nat /\ Arrived(s) \in Int /\ sent[s] \in Nat
      /\ rxUnacked[s] \in Nat
  BY <1>0, TypesAt, PositionsAt
<1>6. /\ credited(s) \in Nat /\ credited(s) + n \in Nat /\ credited(s) + n <= sent[s]
      /\ rxUnacked[s] - n \in Nat /\ credit[s] - n \in Nat
  BY <1>2, <1>4, <1>5 DEF credited
<1>7. f \in Frame /\ f.from = credited(s) /\ f.to = credited(s) + n /\ f.fin = FALSE
  BY <1>6 DEF Frame
<1> HIDE DEF f
<1>8. /\ toWriter'[s] = Append(toWriter[s], f) /\ credit'[s] = credit[s] - n
      /\ rxUnacked'[s] = rxUnacked[s] - n
  BY <1>0, <1>1 DEF TypeOK, InboundTypeOK, LinkTypeOK
<1>9. /\ toWriter'[s] # <<>> /\ toWriter'[s] \in Seq(Frame)
      /\ Chain(toWriter'[s], Returned(s), f.to)
      /\ FinLast(toWriter'[s], f.fin)
      /\ Returned(s)' = Returned(s) /\ Promised(s)' = f.to
      /\ ~outFin[s].received
  <2>1. f.from <= f.to
    BY <1>2, <1>6, <1>7
  <2> QED
    BY <1>0, <1>3, <1>7, <1>8, <2>1, SendBack, ZenonT(40) DEF StreamInvAt
<1> USE DEF outboundVars
<1>10. TypeOK'
  <2>1. toWriter' \in [Streams -> Seq(Frame)]
    BY <1>0, <1>1, <1>8, <1>9 DEF TypeOK, LinkTypeOK
  <2>2. credit' \in [Streams -> Nat]
    BY <1>0, <1>1, <1>6 DEF TypeOK, InboundTypeOK
  <2>3. rxUnacked' \in [Streams -> Nat] /\ rxUsed' \in Nat
    BY <1>0, <1>1, <1>6, RxPool, ZenonT(40)
  <2> QED
    BY <1>0, <1>1, <2>1, <2>2, <2>3, ZenonT(40)
    DEF TypeOK, OutboundTypeOK, InboundTypeOK, LinkTypeOK
<1>11. PoolsInSync'
  BY <1>0, <1>1, <1>6, RxPool, ZenonT(40) DEF PoolsInSync
<1>12. ASSUME NEW t \in Streams
       PROVE  SameData(t) /\ (t # s => UnchangedAt(t))
  BY <1>0, <1>1
  DEF SameData, SameCredit, UnchangedAt, TypeOK, InboundTypeOK, LinkTypeOK
<1>13. StreamInvAt(s)'
  <2>1. DataInv(s)'
    BY <1>0, <1>12, KeepsData, ZenonT(40) DEF StreamInvAt, DataInv
  <2>2. Arrived(s)' = Arrived(s) /\ credited(s)' = credited(s) + n
    <3>1. Arrived(s)' = Arrived(s)
      BY <1>1, ZenonT(40) DEF Arrived
    <3>2. credit'[s] = credit[s] - n /\ readTo'[s] = readTo[s]
      BY <1>1, <1>8, ZenonT(40)
    <3>3. credited(s)' = credited(s) + n
      BY <1>2, <1>5, <3>2 DEF credited
    <3> QED
      BY <3>1, <3>3
  <2>3. CreditInv(s)'
    <3>1. credit'[s] <= readTo'[s]
      <4>1. credit'[s] = credit[s] - n /\ readTo'[s] = readTo[s] /\ credit[s] <= readTo[s]
        BY <1>1, <1>4, <1>8, ZenonT(40)
      <4> QED
        BY <1>2, <1>5, <4>1
    <3>2. rxUnacked'[s] = Arrived(s) - (credited(s) + n)
      <4>1. rxUnacked'[s] = rxUnacked[s] - n /\ rxUnacked[s] = Arrived(s) - credited(s)
        BY <1>4, <1>8, ZenonT(40)
      <4> QED
        BY <1>2, <1>5, <1>6, <4>1
    <3>3. inFin'[s].sent = FALSE
      BY <1>0, <1>1, <1>3, TypesAt
    <3> QED
      BY <1>0, <1>1, <1>6, <1>7, <1>9, <2>2, <3>1, <3>2, <3>3, ZenonT(40)
      DEF StreamInvAt, CreditInv
  <2>4. CloseInv(s)'
    BY <1>0, <1>1, ZenonT(40) DEF StreamInvAt, CloseInv
  <2>5. SleepInv(s)'
    BY <1>0, <1>1, ZenonT(40)
    DEF StreamInvAt, SleepInv, T_c, base_room, SaturatingSub, Waiting
  <2> QED
    BY <2>1, <2>3, <2>4, <2>5 DEF StreamInvAt
<1>14. StreamInv'
  BY <1>12, <1>13, Unaffected DEF IInv, StreamInv, StreamInvAt
<1>15. NobodyForgotten' /\ NoProtocolError' /\ NoLostTurn'
  BY <1>1, ZenonT(40)
  DEF IInv, NobodyForgotten, Waiting, NoProtocolError, NoLostTurn
<1>16. PoolsNotOverdrawn'
  BY <1>1, <1>10, <1>11, <1>14, ReceiverCoveredNext
  DEF IInv, PoolsNotOverdrawn, is_overdrawn
<1> QED
  BY <1>10, <1>11, <1>14, <1>15, <1>16 DEF IInv

\* InboundTraffic::poll_update, sending FIN_READ, preserves the invariant.
LEMMA PollFinReadStep ==
  ASSUME PoolLaws, IInv, NEW s \in Streams, poll_fin_read(s), UNCHANGED outboundVars
  PROVE  IInv'
<1> DEFINE f == [from |-> credited(s), to |-> credited(s), fin |-> TRUE]
<1>0. TypeOK /\ StreamInvAt(s) /\ PoolsInSync
  BY DEF IInv, StreamInv, StreamInvAt
<1>1. /\ inb[s] = "closed" /\ ~inFin[s].sent
      /\ inFin' = [inFin EXCEPT ![s].sent = TRUE]
      /\ credit' = [credit EXCEPT ![s] = 0]
      /\ rxUnacked' = [rxUnacked EXCEPT ![s] = 0]
      /\ rxUsed' = set_used(rxUsed, rxUnacked[s], 0)
      /\ toWriter' = [toWriter EXCEPT ![s] = Append(@, f)]
      /\ rxAwake' = rxAwake \cup {s}
      /\ UNCHANGED <<inb, unread, readTo, reader, parkedReaders, toReader, error>>
  BY DEF poll_fin_read
<1>2. /\ credit[s] <= readTo[s] /\ readTo[s] <= Arrived(s) /\ Arrived(s) <= sent[s]
  BY <1>0, ZenonT(40) DEF StreamInvAt, DataInv, CreditInv, Chain
<1>3. /\ credit[s] \in Nat /\ readTo[s] \in Nat /\ Arrived(s) \in Int /\ sent[s] \in Nat
  BY <1>0, TypesAt, PositionsAt, ZenonT(40)
<1>4. credited(s) \in Nat /\ credited(s) <= sent[s]
  BY <1>2, <1>3 DEF credited
<1>5. f \in Frame /\ f.from = credited(s) /\ f.to = credited(s) /\ f.fin = TRUE
  BY <1>4 DEF Frame
<1> HIDE DEF f
<1>6. /\ toWriter'[s] = Append(toWriter[s], f) /\ credit'[s] = 0 /\ rxUnacked'[s] = 0
      /\ inFin'[s].sent = TRUE /\ inFin'[s].received = inFin[s].received
  BY <1>0, <1>1 DEF TypeOK, InboundTypeOK, LinkTypeOK
<1>7. /\ toWriter'[s] # <<>> /\ toWriter'[s] \in Seq(Frame)
      /\ Chain(toWriter'[s], Returned(s), f.to)
      /\ FinLast(toWriter'[s], f.fin)
      /\ Returned(s)' = Returned(s) /\ Promised(s)' = f.to
      /\ ~outFin[s].received
  <2>1. f.from <= f.to
    BY <1>4, <1>5
  <2> QED
    BY <1>0, <1>1, <1>5, <1>6, <2>1, SendBack DEF StreamInvAt
<1> USE DEF outboundVars
<1>8. TypeOK'
  <2>1. toWriter' \in [Streams -> Seq(Frame)]
    BY <1>0, <1>1, <1>6, <1>7 DEF TypeOK, LinkTypeOK
  <2>2. credit' \in [Streams -> Nat]
    BY <1>0, <1>1 DEF TypeOK, InboundTypeOK
  <2>3. rxUnacked' \in [Streams -> Nat] /\ rxUsed' \in Nat
    BY <1>0, <1>1, RxPool, ZenonT(40)
  <2>4. inFin' \in [Streams -> [sent : BOOLEAN, received : BOOLEAN]]
    BY <1>0, <1>1, ZenonT(40) DEF TypeOK, InboundTypeOK
  <2> QED
    BY <1>0, <1>1, <2>1, <2>2, <2>3, <2>4, ZenonT(40)
    DEF TypeOK, OutboundTypeOK, InboundTypeOK, LinkTypeOK
<1>9. PoolsInSync'
  BY <1>0, <1>1, RxPool, ZenonT(40) DEF PoolsInSync
<1>10. ASSUME NEW t \in Streams
       PROVE  SameData(t) /\ (t # s => UnchangedAt(t))
  BY <1>0, <1>1, ZenonT(40)
  DEF SameData, SameCredit, UnchangedAt, TypeOK, InboundTypeOK, LinkTypeOK
<1>11. StreamInvAt(s)'
  <2>1. DataInv(s)'
    BY <1>0, <1>10, KeepsData, ZenonT(40) DEF StreamInvAt, DataInv
  <2>2. CreditInv(s)'
    <3>1. credit'[s] <= readTo'[s]
      BY <1>1, <1>3, <1>6
    <3> QED
      BY <1>0, <1>1, <1>4, <1>5, <1>6, <1>7, <3>1, ZenonT(40)
      DEF StreamInvAt, CreditInv
  <2>3. CloseInv(s)'
    BY <1>0, <1>1, <1>6 DEF StreamInvAt, CloseInv
  <2>4. SleepInv(s)'
    BY <1>0, <1>1, ZenonT(40)
    DEF StreamInvAt, SleepInv, T_c, base_room, SaturatingSub, Waiting
  <2> QED
    BY <2>1, <2>2, <2>3, <2>4 DEF StreamInvAt
<1>12. StreamInv'
  BY <1>10, <1>11, Unaffected DEF IInv, StreamInv, StreamInvAt
<1>13. NobodyForgotten' /\ NoProtocolError' /\ NoLostTurn'
  BY <1>1 DEF IInv, NobodyForgotten, Waiting, NoProtocolError, NoLostTurn
<1>14. PoolsNotOverdrawn'
  BY <1>1, <1>8, <1>9, <1>12, ReceiverCoveredNext
  DEF IInv, PoolsNotOverdrawn, is_overdrawn
<1> QED
  BY <1>8, <1>9, <1>12, <1>13, <1>14 DEF IInv

-----------------------------------------------------------------------------
(* StreamHandle::received.                                                 *)

\* What is known of the first frame on its way to the reader: it starts where
\* the data that arrived ends, nothing came after FIN_WRITE, and data counts
\* against the window unless FIN_READ was sent.
LEMMA NextFrame ==
  ASSUME TypeOK, NEW s \in Streams, StreamInvAt(s), toReader[s] # <<>>
  PROVE  /\ Head(toReader[s]) = toReader[s][1] /\ toReader[s][1] \in Frame
         /\ Tail(toReader[s]) \in Seq(Frame)
         /\ toReader[s][1].from = Arrived(s) /\ Arrived(s) <= toReader[s][1].to
         /\ toReader[s][1].to <= sent[s] /\ toReader[s][1].to \in Nat
         /\ Arrived(s) \in Nat
         /\ Chain(Tail(toReader[s]), toReader[s][1].to, sent[s])
         /\ FinLast(Tail(toReader[s]), outFin[s].sent)
         /\ Tail(toReader[s]) # <<>> => Tail(toReader[s])[1].from = toReader[s][1].to
         /\ Tail(toReader[s]) = <<>> => toReader[s][1].to = sent[s]
         /\ toReader[s][1].fin \in BOOLEAN
         /\ toReader[s][1].fin <=> (outFin[s].sent /\ Tail(toReader[s]) = <<>>)
         /\ ~after_fin_write(s) /\ inb[s] # "half" /\ ~inFin[s].received
         /\ counts(s) <=> ~inFin[s].sent
<1>1. /\ toReader[s] \in Seq(Frame) /\ Arrived(s) \in Int /\ sent[s] \in Int
      /\ outFin[s].sent \in BOOLEAN /\ inFin[s].sent \in BOOLEAN
      /\ inFin[s].received \in BOOLEAN /\ inb[s] \in {"open", "half", "closed"}
  BY TypesAt, PositionsAt
<1>2. /\ Head(toReader[s]) = toReader[s][1] /\ 1 \in 1 .. Len(toReader[s])
      /\ Tail(toReader[s]) \in Seq(Frame)
  BY <1>1, TailFacts
<1>3. /\ toReader[s][1] \in Frame /\ toReader[s][1].fin \in BOOLEAN
      /\ toReader[s][1].from \in Nat /\ toReader[s][1].to \in Nat
  BY <1>1, <1>2, FramesFields, ZenonT(40)
<1>4. Chain(toReader[s], Arrived(s), sent[s]) /\ FinLast(toReader[s], outFin[s].sent)
  BY ZenonT(40) DEF StreamInvAt, DataInv
<1>5. /\ Chain(Tail(toReader[s]), toReader[s][1].to, sent[s])
      /\ Tail(toReader[s]) # <<>> => Tail(toReader[s])[1].from = toReader[s][1].to
      /\ Tail(toReader[s]) = <<>> => toReader[s][1].to = sent[s]
      /\ toReader[s][1].from = Arrived(s) /\ Arrived(s) <= toReader[s][1].to
      /\ toReader[s][1].to <= sent[s]
  BY <1>1, <1>4, ChainTail, ZenonT(40)
<1>6. /\ FinLast(Tail(toReader[s]), outFin[s].sent)
      /\ toReader[s][1].fin <=> (outFin[s].sent /\ Tail(toReader[s]) = <<>>)
  BY <1>1, <1>4, FinLastTail, ZenonT(40)
<1>7. ~after_fin_write(s)
  BY DEF StreamInvAt, DataInv
<1>8. inb[s] # "half" /\ ~inFin[s].received
  BY <1>7 DEF after_fin_write
<1>9. counts(s) <=> ~inFin[s].sent
  BY <1>1, <1>8, ZenonT(40) DEF counts, StreamInvAt, CloseInv
<1> QED
  BY <1>2, <1>3, <1>5, <1>6, <1>7, <1>8, <1>9, ZenonT(40)

\* A frame of a sender that keeps to the pool is not an error: it finds room in
\* the receive pool, and it does not come after FIN_WRITE.
LEMMA FrameAccepted ==
  ASSUME PoolLaws, IInv, NEW s \in Streams, toReader[s] # <<>>,
         NEW n, n = IF counts(s) THEN Size(Head(toReader[s])) ELSE 0
  PROVE  /\ n \in Nat
         /\ received_error(s, Head(toReader[s]),
                           set_used(rxUsed, rxUnacked[s], rxUnacked[s] + n)) = "none"
<1> DEFINE f == toReader[s][1]
           v == [rxUnacked EXCEPT ![s] = rxUnacked[s] + n]
           used == set_used(rxUsed, rxUnacked[s], rxUnacked[s] + n)
<1>0. /\ TypeOK /\ StreamInv /\ StreamInvAt(s) /\ PoolsInSync /\ PoolsNotOverdrawn
      /\ SenderNeverSmaller
  BY NeverSmaller, ZenonT(40) DEF IInv, StreamInv, StreamInvAt
<1>1. /\ Head(toReader[s]) = f /\ f.from = Arrived(s) /\ Arrived(s) <= f.to
      /\ f.to <= sent[s] /\ f.to \in Nat /\ Arrived(s) \in Nat
      /\ ~after_fin_write(s) /\ (counts(s) <=> ~inFin[s].sent)
  BY <1>0, NextFrame, ZenonT(40)
<1> HIDE DEF f
<1>2. /\ rxUnacked \in [Streams -> Nat] /\ txUnacked \in [Streams -> Nat]
      /\ rxUsed = PoolUsage(rxUnacked) /\ txUsed = PoolUsage(txUnacked)
      /\ txUsed \in Nat /\ txUsed <= PoolSize
  BY <1>0, FlowAssumption DEF TypeOK, InboundTypeOK, OutboundTypeOK, PoolsInSync,
     PoolsNotOverdrawn, is_overdrawn
<1>3. n \in Nat /\ (~inFin[s].sent => n = f.to - Arrived(s)) /\ (inFin[s].sent => n = 0)
  BY <1>1 DEF Size
<1>4. rxUnacked[s] + n <= txUnacked[s]
  <2>1. CASE inFin[s].sent
    BY <1>0, <1>2, <1>3, <2>1 DEF SenderNeverSmaller
  <2>2. CASE ~inFin[s].sent
    <3>1. /\ rxUnacked[s] = Arrived(s) - credited(s) /\ Promised(s) = credited(s)
          /\ ~outFin[s].received /\ txUnacked[s] = sent[s] - Returned(s)
          /\ Returned(s) <= Promised(s)
      BY <1>0, <2>2, ZenonT(40) DEF StreamInvAt, CreditInv, Chain
    <3>2. Returned(s) \in Int /\ Promised(s) \in Int /\ sent[s] \in Int
      BY <1>0, TypesAt, PositionsAt
    <3> QED
      <4>1. f.to <= sent[s] /\ f.to \in Nat /\ Arrived(s) \in Nat /\ n = f.to - Arrived(s)
        BY <1>1, <1>3, <2>2, ZenonT(40)
      <4> QED
        BY <3>1, <3>2, <4>1
  <2> QED
    BY <2>1, <2>2
<1>5. v \in [Streams -> Nat] /\ rxUnacked[s] + n \in Nat
  BY <1>2, <1>3
<1>6. \A t \in Streams : v[t] <= txUnacked[t]
  BY <1>0, <1>2, <1>4 DEF SenderNeverSmaller
<1>7. PoolUsage(v) = used
  <2> DEFINE m == rxUnacked[s] + n
  <2>1. m \in Nat
    BY <1>5
  <2> HIDE DEF m
  <2>2. PoolUsage([rxUnacked EXCEPT ![s] = m]) = set_used(PoolUsage(rxUnacked), rxUnacked[s], m)
    BY <1>2, <2>1, ZenonT(40) DEF PoolLaws
  <2> QED
    BY <1>2, <2>2 DEF m
<1> HIDE DEF v, used
<1>8. PoolUsage(v) <= PoolUsage(txUnacked) /\ PoolUsage(v) \in Nat
  <2>1. PoolUsage(v) <= PoolUsage(txUnacked)
    BY <1>2, <1>5, <1>6, ZenonT(40) DEF PoolLaws
  <2>2. PoolUsage(v) \in Nat
    BY <1>3, <1>5, ZenonT(40) DEF PoolLaws
  <2> QED
    BY <2>1, <2>2
<1>9. ~is_overdrawn(used)
  BY <1>2, <1>7, <1>8, FlowAssumption DEF is_overdrawn
<1>10. received_error(s, f, used) = "none"
  BY <1>1, <1>9 DEF received_error
<1> QED
  BY <1>1, <1>3, <1>10, ZenonT(40) DEF used

\* InboundTraffic::received_data and received_fin_write preserve the invariant.
LEMMA ReceivedStep ==
  ASSUME PoolLaws, IInv, NEW s \in Streams, received(s), UNCHANGED outboundVars
  PROVE  IInv'
<1> DEFINE f       == toReader[s][1]
           n       == IF counts(s) THEN Size(Head(toReader[s])) ELSE 0
           chunks  == IF inb[s] = "open" /\ Size(f) > 0
                      THEN Append(unread[s], f) ELSE unread[s]
           drained == f.fin /\ chunks = <<>>
           inb2    == IF ~f.fin \/ inb[s] = "closed" THEN inb[s]
                      ELSE IF drained THEN "closed" ELSE "half"
           rec2    == inFin[s].received \/ (f.fin /\ (inb[s] = "closed" \/ drained))
<1>0. TypeOK /\ StreamInvAt(s) /\ PoolsInSync
  BY DEF IInv, StreamInv, StreamInvAt
<1>1. toReader[s] # <<>>
  BY DEF received
<1>2. /\ Head(toReader[s]) = f /\ f \in Frame /\ Tail(toReader[s]) \in Seq(Frame)
      /\ f.from = Arrived(s) /\ Arrived(s) <= f.to
      /\ f.to <= sent[s] /\ f.to \in Nat /\ Arrived(s) \in Nat
      /\ Chain(Tail(toReader[s]), f.to, sent[s])
      /\ FinLast(Tail(toReader[s]), outFin[s].sent)
      /\ Tail(toReader[s]) # <<>> => Tail(toReader[s])[1].from = f.to
      /\ Tail(toReader[s]) = <<>> => f.to = sent[s]
      /\ f.fin \in BOOLEAN
      /\ f.fin <=> (outFin[s].sent /\ Tail(toReader[s]) = <<>>)
      /\ ~after_fin_write(s) /\ inb[s] # "half" /\ ~inFin[s].received
      /\ counts(s) <=> ~inFin[s].sent
  BY <1>0, <1>1, NextFrame, ZenonT(40)
<1>3. /\ n \in Nat
      /\ received_error(s, f, set_used(rxUsed, rxUnacked[s], rxUnacked[s] + n)) = "none"
  BY <1>1, <1>2, FrameAccepted, ZenonT(40)
<1>4. /\ toReader' = [toReader EXCEPT ![s] = Tail(@)] /\ error' = "none"
      /\ rxUnacked' = [rxUnacked EXCEPT ![s] = @ + n]
      /\ rxUsed' = set_used(rxUsed, rxUnacked[s], rxUnacked[s] + n)
      /\ unread' = [unread EXCEPT ![s] = chunks]
      /\ rxAwake' = IF inb[s] = "open" /\ drained THEN rxAwake \cup {s} ELSE rxAwake
      /\ parkedReaders' = IF inb[s] = "open" /\ (Size(f) > 0 \/ drained)
                          THEN parkedReaders \ {s} ELSE parkedReaders
      /\ UNCHANGED <<credit, readTo, reader, toWriter>>
  BY <1>2, <1>3, ZenonT(40) DEF received, add_chunk, drains, wakes_reader
<1>5. /\ inb' = [inb EXCEPT ![s] = inb2]
      /\ inFin' = [inFin EXCEPT ![s].received = rec2]
  BY <1>2, <1>3 DEF received, add_chunk, drains
<1>6. /\ n = (IF inFin[s].sent THEN 0 ELSE f.to - Arrived(s))
      /\ f.from = Arrived(s) /\ f.from <= f.to /\ Arrived(s) <= f.to
      /\ f \in Frame /\ f.to \in Nat /\ Arrived(s) \in Nat
      /\ Size(f) = f.to - Arrived(s) /\ Size(f) \in Nat
  <2>1. n = IF inFin[s].sent THEN 0 ELSE f.to - Arrived(s)
    BY <1>2, ZenonT(40) DEF Size
  <2>2. /\ f.from = Arrived(s) /\ f.from <= f.to /\ Arrived(s) <= f.to
        /\ f \in Frame /\ f.to \in Nat /\ Arrived(s) \in Nat
        /\ Size(f) = f.to - Arrived(s)
    BY <1>2, ZenonT(40) DEF Size
  <2> HIDE DEF f, n
  <2>3. Size(f) \in Nat
    BY <2>2
  <2> QED
    BY <2>1, <2>2, <2>3, ZenonT(40)
<1>7. /\ Size(f) = f.to - Arrived(s) /\ drained \in BOOLEAN /\ rec2 \in BOOLEAN
      /\ rec2 <=> f.fin /\ (inb[s] = "closed" \/ drained)
      /\ inb2 = (IF ~f.fin \/ inb[s] = "closed" THEN inb[s]
                 ELSE IF drained THEN "closed" ELSE "half")
      /\ drained <=> f.fin /\ chunks = <<>>
      /\ inb[s] = "open" \/ inb[s] = "closed"
  BY <1>0, <1>2, TypesAt, ZenonT(40) DEF Size
<1>8. /\ chunks \in Seq(Frame)
      /\ inb[s] = "open" => Chain(chunks, readTo[s], f.to)
      /\ inb[s] = "closed" => chunks = <<>>
      /\ inb[s] = "open" /\ Size(f) = 0 => chunks = unread[s]
  <2>1. unread[s] \in Seq(Frame) /\ readTo[s] \in Int /\ Size(f) \in Nat
    <3>1. unread[s] \in Seq(Frame) /\ readTo[s] \in Nat
      BY <1>0, TypesAt, ZenonT(40)
    <3>2. Size(f) \in Nat
      BY <1>6, ZenonT(40)
    <3> QED
      BY <3>1, <3>2
  <2>2. /\ inb[s] = "open" => Chain(unread[s], readTo[s], Arrived(s))
        /\ inb[s] = "closed" => unread[s] = <<>>
    BY <1>0 DEF StreamInvAt, DataInv
  <2>3. CASE inb[s] = "open" /\ Size(f) > 0
    <3>1. chunks = Append(unread[s], f) /\ Size(f) # 0 /\ inb[s] # "closed"
      BY <2>1, <2>3
    <3>2. Append(unread[s], f) \in Seq(Frame)
      BY <1>2, <2>1, AppendEnds
    <3>3. Chain(Append(unread[s], f), readTo[s], f.to)
      <4>1. Chain(unread[s], readTo[s], Arrived(s)) /\ Arrived(s) \in Int
        BY <1>6, <2>2, <2>3
      <4> QED
        BY <1>6, <2>1, <4>1, ChainAppend, ZenonT(40)
    <3> QED
      BY <3>1, <3>2, <3>3, ZenonT(40)
  <2>4. CASE ~(inb[s] = "open" /\ Size(f) > 0)
    <3>1. chunks = unread[s]
      BY <2>4, ZenonT(40)
    <3>2. inb[s] = "open" => f.to = Arrived(s)
      BY <1>6, <2>4
    <3> QED
      BY <2>1, <2>2, <3>1, <3>2, ZenonT(40)
  <2> QED
    BY <2>3, <2>4, ZenonT(40)
<1> HIDE DEF f, n, chunks, drained, inb2, rec2
<1>9. /\ toReader'[s] = Tail(toReader[s]) /\ unread'[s] = chunks /\ inb'[s] = inb2
      /\ inFin'[s].received = rec2 /\ inFin'[s].sent = inFin[s].sent
      /\ rxUnacked'[s] = rxUnacked[s] + n
  BY <1>0, <1>4, <1>5 DEF TypeOK, InboundTypeOK, LinkTypeOK
<1> USE DEF outboundVars
<1>10. rxUnacked' \in [Streams -> Nat] /\ rxUsed' \in Nat /\ rxUsed' = PoolUsage(rxUnacked')
  <2>1. rxUnacked[s] + n \in Nat /\ rxUnacked' = [rxUnacked EXCEPT ![s] = rxUnacked[s] + n]
    <3>1. rxUnacked[s] \in Nat /\ rxUnacked' = [rxUnacked EXCEPT ![s] = rxUnacked[s] + n]
      BY <1>0, <1>4, TypesAt, ZenonT(40)
    <3> QED
      BY <1>3, <3>1
  <2> QED
    BY <1>0, <1>4, <2>1, RxPool, ZenonT(40)
<1>11. TypeOK'
  <2>1. toReader' \in [Streams -> Seq(Frame)]
    BY <1>0, <1>2, <1>4, ZenonT(40) DEF TypeOK, LinkTypeOK
  <2>2. unread' \in [Streams -> Seq(Frame)]
    BY <1>0, <1>4, <1>8 DEF TypeOK, InboundTypeOK
  <2>3. inFin' \in [Streams -> [sent : BOOLEAN, received : BOOLEAN]]
    BY <1>0, <1>5, <1>7, ZenonT(40) DEF TypeOK, InboundTypeOK
  <2>4. inb' \in [Streams -> {"open", "half", "closed"}]
    BY <1>0, <1>5, <1>7, ZenonT(40) DEF TypeOK, InboundTypeOK
  <2>5. rxAwake' \subseteq Streams /\ parkedReaders' \subseteq Streams /\ error' \in Errors
    BY <1>0, <1>4 DEF TypeOK, InboundTypeOK, Errors
  <2> QED
    BY <1>0, <1>4, <1>10, <2>1, <2>2, <2>3, <2>4, <2>5, ZenonT(40)
    DEF TypeOK, OutboundTypeOK, InboundTypeOK, LinkTypeOK
<1>12. ASSUME NEW t \in Streams, t # s PROVE UnchangedAt(t)
  BY <1>0, <1>4, <1>5, <1>12, ZenonT(40)
  DEF SameData, SameCredit, UnchangedAt, TypeOK, InboundTypeOK, LinkTypeOK
<1>13. Arrived(s)' = f.to
  BY <1>2, <1>9, ZenonT(40) DEF Arrived
<1>14. StreamInvAt(s)'
  <2>1. after_fin_write(s)' <=> f.fin
    BY <1>7, <1>9, ZenonT(40) DEF after_fin_write
  <2>2. readTo[s] <= f.to
    <3>1. readTo[s] <= Arrived(s) /\ readTo[s] \in Nat
      BY <1>0, TypesAt, ZenonT(40) DEF StreamInvAt, DataInv
    <3> QED
      BY <1>2, <3>1
  <2>3. DataInv(s)'
    <3>1. outFin'[s].sent /\ toReader'[s] = <<>> <=> after_fin_write(s)'
      BY <1>2, <1>9, <2>1, ZenonT(40)
    <3>2. /\ inb'[s] # "closed" => Chain(unread'[s], readTo[s], f.to)
          /\ inb'[s] = "closed" => unread'[s] = <<>>
          /\ inb'[s] = "half" => unread'[s] # <<>>
      BY <1>2, <1>7, <1>8, <1>9, ZenonT(40)
    <3>3. sent[s] <= written[s]
      BY <1>0, ZenonT(40) DEF StreamInvAt, DataInv
    <3> QED
      BY <1>2, <1>4, <1>9, <1>13, <2>2, <3>1, <3>2, <3>3, ZenonT(40) DEF DataInv
  <2>4. CreditInv(s)'
    <3>1. /\ Returned(s)' = Returned(s) /\ Promised(s)' = Promised(s)
          /\ credited(s)' = credited(s)
      BY <1>4 DEF Returned, Promised, credited
    <3>2. rxUnacked'[s] = IF inFin'[s].sent THEN 0 ELSE f.to - credited(s)
      <4>1. rxUnacked[s] = IF inFin[s].sent THEN 0 ELSE Arrived(s) - credited(s)
        BY <1>0, ZenonT(40) DEF StreamInvAt, CreditInv
      <4>2. credited(s) \in Int
        BY <1>0, TypesAt, ZenonT(40)
      <4> QED
        <5>1. CASE inFin[s].sent
          <6>1. n = 0 /\ rxUnacked[s] = 0 /\ rxUnacked'[s] = rxUnacked[s] + n /\ inFin'[s].sent
            BY <1>6, <1>9, <4>1, <5>1, ZenonT(40)
          <6> QED
            BY <6>1
        <5>2. CASE ~inFin[s].sent
          <6>1. /\ n = f.to - Arrived(s) /\ rxUnacked[s] = Arrived(s) - credited(s)
                /\ rxUnacked'[s] = rxUnacked[s] + n /\ ~inFin'[s].sent
            BY <1>6, <1>9, <4>1, <5>2, ZenonT(40)
          <6> QED
            BY <1>6, <4>2, <6>1
        <5> QED
          BY <5>1, <5>2
    <3> QED
      BY <1>0, <1>4, <1>9, <1>13, <3>1, <3>2, ZenonT(40) DEF StreamInvAt, CreditInv
  <2>5. CloseInv(s)'
    <3>1. CASE inb[s] = "closed"
      <4>1. reader[s] = "dropped"
        BY <1>0, <1>2, <3>1, ZenonT(40) DEF StreamInvAt, CloseInv
      <4>2. inb'[s] = "closed"
        BY <1>7, <1>9, <3>1, ZenonT(40)
      <4> QED
        BY <1>0, <1>4, <1>9, <4>1, <4>2, ZenonT(40) DEF StreamInvAt, CloseInv
    <3>2. CASE inb[s] = "open"
      <4>1. reader[s] # "ended" /\ ~inFin[s].sent
        BY <1>0, <3>2, ZenonT(40) DEF StreamInvAt, CloseInv
      <4>2. /\ inb'[s] = "closed" <=> drained
            /\ inFin'[s].received <=> drained
        BY <1>7, <1>9, <3>2, ZenonT(40)
      <4>3. drained /\ reader[s] # "dropped" => readTo[s] = written[s]
        <5> SUFFICES ASSUME drained, reader[s] # "dropped"
                     PROVE  readTo[s] = written[s]
          OBVIOUS
        <5>1. readTo[s] = f.to
          BY <1>7, <1>8, <3>2 DEF Chain
        <5>2. f.to = sent[s] /\ outFin[s].sent
          BY <1>2, <1>7, ZenonT(40)
        <5>3. sent[s] = written[s]
          BY <1>0, <5>2 DEF StreamInvAt, CloseInv
        <5> QED
          BY <5>1, <5>2, <5>3
      <4> QED
        BY <1>0, <1>4, <1>9, <4>1, <4>2, <4>3, ZenonT(40) DEF StreamInvAt, CloseInv
    <3> QED
      BY <1>7, <3>1, <3>2
  <2>6. SleepInv(s)'
    <3>1. inb'[s] = "closed" => inb[s] = "closed" \/ s \in rxAwake'
      BY <1>4, <1>7, <1>9, ZenonT(40)
    <3>2. inb'[s] # "closed" => inb[s] # "closed"
      BY <1>7, <1>9, ZenonT(40)
    <3>3. s \in rxAwake => s \in rxAwake'
      BY <1>4
    <3> QED
      BY <1>0, <1>4, <1>9, <3>1, <3>2, <3>3, ZenonT(40)
      DEF StreamInvAt, SleepInv, T_c, base_room, SaturatingSub, Waiting
  <2> QED
    BY <2>3, <2>4, <2>5, <2>6 DEF StreamInvAt
<1>15. StreamInv'
  BY <1>12, <1>14, Unaffected DEF IInv, StreamInv, StreamInvAt
<1>16. NobodyForgotten'
  <2>1. ASSUME NEW t \in parkedReaders' PROVE inb'[t] = "open" /\ unread'[t] = <<>>
    <3>1. t \in Streams /\ inb[t] = "open" /\ unread[t] = <<>>
      BY <1>0, <1>4, <2>1, ZenonT(40)
      DEF IInv, NobodyForgotten, TypeOK, InboundTypeOK
    <3>2. CASE t = s
      <4>1. ~(Size(f) > 0) /\ ~drained
        BY <1>4, <2>1, <3>1, <3>2
      <4>2. Size(f) = 0
        BY <1>6, <4>1
      <4>3. chunks = <<>>
        BY <1>8, <3>1, <3>2, <4>2, ZenonT(40)
      <4> QED
        BY <1>7, <1>9, <3>1, <3>2, <4>1, <4>3, ZenonT(40)
    <3>3. CASE t # s
      BY <1>12, <3>1, <3>3, ZenonT(40) DEF UnchangedAt, SameData
    <3> QED
      BY <3>2, <3>3
  <2> QED
    BY <2>1 DEF IInv, NobodyForgotten, Waiting
<1>17. NoProtocolError' /\ NoLostTurn' /\ PoolsInSync'
  BY <1>4, <1>10, ZenonT(40) DEF IInv, NoProtocolError, NoLostTurn, PoolsInSync
<1>18. PoolsNotOverdrawn'
  BY <1>11, <1>15, <1>17, ReceiverCoveredNext
  DEF IInv, PoolsNotOverdrawn, is_overdrawn
<1> QED
  BY <1>11, <1>15, <1>16, <1>17, <1>18 DEF IInv
=============================================================================
