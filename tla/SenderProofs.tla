---------------------------- MODULE SenderProofs ----------------------------
(***************************************************************************)
(* What the proofs about Transit share (facts about the turn queue and the *)
(* frames on the link, the types and positions of one stream, and the two  *)
(* sides of the accounting), and that every step of the sending side       *)
(* preserves the inductive invariant of Transit.                           *)
(***************************************************************************)
EXTENDS Transit, TLAPS

\* The provers of a leaf that names none, in the order they are tried.
USE SMTT(40), ZenonT(20), SMTT(45)

\* Leaving and joining the turn queue keep it a queue of streams.
LEMMA TurnQueueType ==
  ASSUME NEW q \in Seq(Streams), NEW s \in Streams
  PROVE  leave(q, s) \in Seq(Streams) /\ join(q, s) \in Seq(Streams)
<1>1. CASE ~InQueue(q, s)
  BY <1>1 DEF leave, join
<1>2. CASE InQueue(q, s)
  <2> DEFINE k == CHOOSE i \in 1 .. Len(q) : q[i] = s
             r == [i \in 1 .. Len(q) - 1 |-> IF i < k THEN q[i] ELSE q[i + 1]]
  <2>1. Len(q) \in Nat /\ Len(q) >= 1 /\ \A i \in 1 .. Len(q) : q[i] \in Streams
    BY <1>2 DEF InQueue
  <2>2. k \in 1 .. Len(q)
    BY <1>2 DEF InQueue
  <2> HIDE DEF k
  <2>3. \A i \in 1 .. Len(q) - 1 : r[i] \in Streams
    BY <2>1, <2>2
  <2>4. r \in [1 .. Len(q) - 1 -> Streams]
    BY <2>3
  <2>5. r \in Seq(Streams)
    BY <2>1, <2>4
  <2>6. leave(q, s) = r
    BY <1>2 DEF leave, k
  <2> QED
    BY <1>2, <2>5, <2>6 DEF join
<1> QED
  BY <1>1, <1>2

\* The fields of a frame.
LEMMA FrameFields ==
  \A f \in Frame : f.from \in Nat /\ f.to \in Nat /\ f.fin \in BOOLEAN
BY DEF Frame

\* The fields of the frames of a queue.
LEMMA FramesFields ==
  ASSUME NEW q \in Seq(Frame), NEW i \in 1 .. Len(q)
  PROVE  /\ q[i] \in Frame
         /\ q[i].from \in Nat /\ q[i].to \in Nat /\ q[i].fin \in BOOLEAN
<1>1. q[i] \in Frame
  OBVIOUS
<1> QED
  BY <1>1, FrameFields

\* The rest of a queue.
LEMMA TailFacts ==
  ASSUME NEW q \in Seq(Frame), q # <<>>
  PROVE  /\ Len(q) \in Nat /\ Len(q) >= 1 /\ 1 \in 1 .. Len(q) /\ Head(q) = q[1]
         /\ Tail(q) \in Seq(Frame)
         /\ Len(Tail(q)) = Len(q) - 1
         /\ \A i \in 1 .. Len(Tail(q)) : i + 1 \in 1 .. Len(q) /\ Tail(q)[i] = q[i + 1]
         /\ Tail(q) = <<>> <=> Len(q) = 1
<1> DEFINE r == Tail(q)
<1>1. Len(q) \in Nat /\ Len(q) >= 1
  OBVIOUS
<1>2. r \in Seq(Frame) /\ Len(r) = Len(q) - 1 /\ \A i \in 1 .. Len(r) : r[i] = q[i + 1]
  OBVIOUS
<1>3. Head(q) = q[1]
  OBVIOUS
<1> HIDE DEF r
<1>4. r = <<>> => Len(q) = 1
  <2>1. Len(<<>>) = 0
    OBVIOUS
  <2> QED
    BY <1>1, <1>2, <2>1
<1>5. Len(q) = 1 => r = <<>>
  <2>1. r # <<>> => Len(r) \in Nat \ {0}
    BY <1>2
  <2> QED
    BY <1>1, <1>2, <2>1
<1>6. \A i \in 1 .. Len(r) : i + 1 \in 1 .. Len(q) /\ r[i] = q[i + 1]
  BY <1>1, <1>2
<1> QED
  BY <1>1, <1>2, <1>3, <1>4, <1>5, <1>6 DEF r

\* The queue without a frame is a chain, whose last frame has any FIN.
LEMMA EmptyChain ==
  ASSUME NEW a \in Int, NEW fin
  PROVE  Chain(<<>>, a, a) /\ FinLast(<<>>, fin)
<1>1. Len(<<>>) = 0
  OBVIOUS
<1>2. \A i \in 1 .. Len(<<>>) : FALSE
  BY <1>1
<1>3. \A i \in 1 .. Len(<<>>) - 1 : FALSE
  BY <1>1
<1>4. a <= a
  OBVIOUS
<1> QED
  BY <1>2, <1>3, <1>4, ZenonT(40) DEF Chain, FinLast

\* Appending the next frame extends a chain.
LEMMA ChainAppend ==
  ASSUME NEW q \in Seq(Frame), NEW a \in Int, NEW b \in Int, NEW f \in Frame,
         Chain(q, a, b), f.from = b, f.from <= f.to
  PROVE  Chain(Append(q, f), a, f.to)
<1> DEFINE r == Append(q, f)
<1>1. /\ Len(r) = Len(q) + 1 /\ r # <<>> /\ Len(q) \in Nat
      /\ \A i \in 1 .. Len(q) : r[i] = q[i]
      /\ r[Len(q) + 1] = f
  OBVIOUS
<1>2. f.from \in Nat /\ f.to \in Nat
  BY DEF Frame
<1>3. \A i \in 1 .. Len(q) : q[i].from \in Nat /\ q[i].to \in Nat
  BY FramesFields
<1> HIDE DEF r
<1>4. r[1].from = a
  <2>1. CASE q = <<>>
    BY <2>1, <1>1 DEF Chain
  <2>2. CASE q # <<>>
    <3>1. 1 \in 1 .. Len(q)
      BY <2>2, <1>1
    <3> QED
      BY <3>1, <2>2, <1>1 DEF Chain
  <2> QED
    BY <2>1, <2>2
<1>5. r[Len(r)].to = f.to
  BY <1>1
<1>6. a <= f.to
  BY <1>2 DEF Chain
<1>7. ASSUME NEW i \in 1 .. Len(r)
      PROVE  a <= r[i].from /\ r[i].from <= r[i].to /\ r[i].to <= f.to
  <2>1. CASE i \in 1 .. Len(q)
    BY <2>1, <1>1, <1>2, <1>3 DEF Chain
  <2>2. CASE i = Len(q) + 1
    BY <2>2, <1>1, <1>2 DEF Chain
  <2> QED
    BY <1>1, <2>1, <2>2
<1>8. ASSUME NEW i \in 1 .. Len(r) - 1
      PROVE  r[i].to = r[i + 1].from
  <2>1. CASE i \in 1 .. Len(q) - 1
    BY <2>1, <1>1 DEF Chain
  <2>2. CASE i = Len(q)
    <3>1. q # <<>> /\ q[Len(q)].to = b
      BY <2>2, <1>1 DEF Chain
    <3> QED
      BY <2>2, <3>1, <1>1
  <2> QED
    BY <1>1, <2>1, <2>2
<1>9. ASSUME NEW i \in 1 .. Len(r), NEW j \in 1 .. Len(r), i < j
      PROVE  r[i].to <= r[j].from
  <2>1. CASE j \in 1 .. Len(q)
    BY <2>1, <1>1, <1>9 DEF Chain
  <2>2. CASE j = Len(q) + 1
    <3>1. i \in 1 .. Len(q)
      BY <2>2, <1>1, <1>9
    <3> QED
      BY <3>1, <2>2, <1>1 DEF Chain
  <2> QED
    BY <1>1, <2>1, <2>2
<1>10. Chain(r, a, f.to)
  BY <1>1, <1>4, <1>5, <1>6, <1>7, <1>8, <1>9 DEF Chain
<1> QED
  BY <1>10 DEF r

\* Taking the first frame leaves a chain that starts where the frame ended.
LEMMA ChainTail ==
  ASSUME NEW q \in Seq(Frame), NEW a \in Int, NEW b \in Int,
         Chain(q, a, b), q # <<>>
  PROVE  /\ Chain(Tail(q), q[1].to, b)
         /\ Tail(q) # <<>> => Tail(q)[1].from = q[1].to
         /\ Tail(q) = <<>> => q[1].to = b
         /\ q[1].from = a /\ a <= q[1].to /\ q[1].to <= b
<1> DEFINE r == Tail(q)
<1>1. /\ Len(q) \in Nat /\ Len(q) >= 1
      /\ Len(r) = Len(q) - 1
      /\ \A i \in 1 .. Len(r) : i + 1 \in 1 .. Len(q) /\ r[i] = q[i + 1]
  BY TailFacts
<1>2. r = <<>> <=> Len(q) = 1
  BY TailFacts
<1>3. \A i \in 1 .. Len(q) : q[i].from \in Nat /\ q[i].to \in Nat
  BY FramesFields
<1> HIDE DEF r
<1>4. q[1].from = a /\ a <= q[1].to /\ q[1].to <= b
  BY <1>1 DEF Chain
<1>5. r = <<>> => q[1].to = b
  BY <1>1, <1>2, ZenonT(40) DEF Chain
<1>6. r # <<>> => r[1].from = q[1].to /\ r[Len(r)].to = b
  BY <1>1, <1>2 DEF Chain
<1>7. ASSUME NEW i \in 1 .. Len(r)
      PROVE  q[1].to <= r[i].from /\ r[i].from <= r[i].to /\ r[i].to <= b
  <2>1. i + 1 \in 1 .. Len(q) /\ 1 \in 1 .. Len(q) /\ 1 < i + 1 /\ r[i] = q[i + 1]
    BY <1>1
  <2> QED
    BY <2>1 DEF Chain
<1>8. ASSUME NEW i \in 1 .. Len(r), NEW j \in 1 .. Len(r), i < j
      PROVE  r[i].to <= r[j].from
  <2>1. /\ i + 1 \in 1 .. Len(q) /\ j + 1 \in 1 .. Len(q) /\ i + 1 < j + 1
        /\ r[i] = q[i + 1] /\ r[j] = q[j + 1]
    BY <1>1, <1>8
  <2> QED
    BY <2>1 DEF Chain
<1>9. ASSUME NEW i \in 1 .. Len(r) - 1
      PROVE  r[i].to = r[i + 1].from
  <2>1. /\ i \in 1 .. Len(r) /\ i + 1 \in 1 .. Len(r) /\ i + 1 \in 1 .. Len(q) - 1
    BY <1>1
  <2>2. r[i] = q[i + 1] /\ r[i + 1] = q[i + 1 + 1]
    BY <1>1, <2>1, ZenonT(40)
  <2> QED
    BY <2>1, <2>2, ZenonT(40) DEF Chain
<1>10. Chain(r, q[1].to, b)
  BY <1>4, <1>5, <1>6, <1>7, <1>8, <1>9 DEF Chain
<1> QED
  BY <1>4, <1>5, <1>6, <1>10 DEF r

\* Only the last frame sent carries a FIN.
LEMMA FinLastAppend ==
  ASSUME NEW q \in Seq(Frame), NEW f \in Frame, FinLast(q, FALSE)
  PROVE  FinLast(Append(q, f), f.fin)
<1> DEFINE r == Append(q, f)
<1>1. /\ Len(r) = Len(q) + 1 /\ Len(q) \in Nat
      /\ \A i \in 1 .. Len(q) : r[i] = q[i]
      /\ r[Len(q) + 1] = f
  OBVIOUS
<1>2. f.fin \in BOOLEAN
  BY FrameFields
<1> HIDE DEF r
<1>3. ASSUME NEW i \in 1 .. Len(r)
      PROVE  r[i].fin <=> (f.fin /\ i = Len(r))
  <2>1. CASE i \in 1 .. Len(q)
    BY <2>1, <1>1 DEF FinLast
  <2>2. CASE i = Len(q) + 1
    BY <2>2, <1>1, <1>2
  <2> QED
    BY <1>1, <2>1, <2>2
<1> QED
  BY <1>3 DEF FinLast, r

\* Taking the first frame leaves the FIN with the last one, if there is one.
LEMMA FinLastTail ==
  ASSUME NEW q \in Seq(Frame), NEW fin \in BOOLEAN, FinLast(q, fin), q # <<>>
  PROVE  /\ FinLast(Tail(q), fin)
         /\ q[1].fin <=> (fin /\ Tail(q) = <<>>)
<1> DEFINE r == Tail(q)
<1>1. /\ Len(q) \in Nat /\ Len(q) >= 1
      /\ Len(r) = Len(q) - 1
      /\ \A i \in 1 .. Len(r) : i + 1 \in 1 .. Len(q) /\ r[i] = q[i + 1]
  BY TailFacts
<1>2. r = <<>> <=> Len(q) = 1
  BY TailFacts
<1> HIDE DEF r
<1>3. q[1].fin <=> (fin /\ r = <<>>)
  BY <1>1, <1>2 DEF FinLast
<1>4. ASSUME NEW i \in 1 .. Len(r)
      PROVE  r[i].fin <=> (fin /\ i = Len(r))
  BY <1>1 DEF FinLast
<1> QED
  BY <1>3, <1>4 DEF FinLast, r

\* The ends of a queue after a frame is appended.
LEMMA AppendEnds ==
  ASSUME NEW q \in Seq(Frame), NEW f \in Frame
  PROVE  /\ Append(q, f) # <<>> /\ Append(q, f) \in Seq(Frame)
         /\ Append(q, f)[Len(Append(q, f))] = f
         /\ Append(q, f)[1] = IF q = <<>> THEN f ELSE q[1]
<1> DEFINE r == Append(q, f)
<1>1. /\ r # <<>> /\ r \in Seq(Frame) /\ Len(r) = Len(q) + 1
      /\ \A i \in 1 .. Len(q) : r[i] = q[i]
      /\ r[Len(q) + 1] = f /\ Len(q) \in Nat
  OBVIOUS
<1> HIDE DEF r
<1>2. q = <<>> => r[1] = f
  <2>1. Len(<<>>) = 0
    OBVIOUS
  <2> QED
    BY <1>1, <2>1
<1>3. q # <<>> => r[1] = q[1]
  BY <1>1, TailFacts
<1> QED
  BY <1>1, <1>2, <1>3 DEF r

-----------------------------------------------------------------------------
\* The invariant of one stream.
StreamInvAt(s) == DataInv(s) /\ CreditInv(s) /\ CloseInv(s) /\ SleepInv(s)

(***************************************************************************)
(* What a step may leave alone.                                            *)
(***************************************************************************)

\* The data and the credit of stream `t' are where they were.
SameData(t) ==
  /\ toReader'[t] = toReader[t] /\ sent'[t] = sent[t]
  /\ outFin'[t].sent = outFin[t].sent
  /\ inb'[t] = inb[t] /\ inFin'[t].received = inFin[t].received
  /\ unread'[t] = unread[t] /\ readTo'[t] = readTo[t]

SameCredit(t) ==
  /\ toReader'[t] = toReader[t] /\ sent'[t] = sent[t]
  /\ toWriter'[t] = toWriter[t] /\ readTo'[t] = readTo[t]
  /\ credit'[t] = credit[t] /\ inFin'[t].sent = inFin[t].sent
  /\ outFin'[t].received = outFin[t].received
  /\ txUnacked'[t] = txUnacked[t] /\ rxUnacked'[t] = rxUnacked[t]

\* The step does not touch stream `t', except to wake it.
UnchangedAt(t) ==
  /\ SameData(t) /\ SameCredit(t)
  /\ out'[t] = out[t] /\ written'[t] = written[t] /\ reader'[t] = reader[t]
  /\ t \in awake => t \in awake'
  /\ t \in rxAwake => t \in rxAwake'

\* The data of a stream keeps its invariant if only more was written.
LEMMA KeepsData ==
  ASSUME NEW t \in Streams, DataInv(t), SameData(t), sent[t] <= written'[t]
  PROVE  DataInv(t)'
<1>1. Arrived(t)' = Arrived(t) /\ (after_fin_write(t)' <=> after_fin_write(t))
  BY DEF SameData, Arrived, after_fin_write
<1> QED
  BY <1>1 DEF SameData, DataInv

\* The credit of a stream keeps its invariant if nothing moved.
LEMMA KeepsCredit ==
  ASSUME NEW t \in Streams, CreditInv(t), SameCredit(t)
  PROVE  CreditInv(t)'
<1>1. /\ Arrived(t)' = Arrived(t) /\ Returned(t)' = Returned(t)
      /\ Promised(t)' = Promised(t) /\ credited(t)' = credited(t)
  BY DEF SameCredit, Arrived, Returned, Promised, credited
<1> QED
  BY <1>1 DEF SameCredit, CreditInv

\* A stream a step does not touch, except to wake it, keeps its invariant.
LEMMA Unaffected ==
  ASSUME NEW t \in Streams, StreamInvAt(t), UnchangedAt(t)
  PROVE  StreamInvAt(t)'
<1>1. DataInv(t)'
  <2>1. sent[t] <= written'[t]
    BY DEF StreamInvAt, UnchangedAt, DataInv
  <2> QED
    BY <2>1, KeepsData DEF StreamInvAt, UnchangedAt
<1>2. CreditInv(t)'
  BY KeepsCredit DEF StreamInvAt, UnchangedAt
<1>3. CloseInv(t)'
  BY DEF StreamInvAt, UnchangedAt, SameData, SameCredit, CloseInv
<1>4. SleepInv(t)'
  BY DEF StreamInvAt, UnchangedAt, SameData, SameCredit, SleepInv, base_room,
         SaturatingSub, T_c, Waiting
<1> QED
  BY <1>1, <1>2, <1>3, <1>4 DEF StreamInvAt

\* The types at one stream.
LEMMA TypesAt ==
  ASSUME TypeOK, NEW s \in Streams
  PROVE  /\ out[s] \in {"open", "half", "closed"}
         /\ outFin[s].sent \in BOOLEAN /\ outFin[s].received \in BOOLEAN
         /\ outFin[s] \in FinState /\ inFin[s] \in FinState
         /\ written[s] \in Nat /\ sent[s] \in Nat /\ txUnacked[s] \in Nat
         /\ inb[s] \in {"open", "half", "closed"}
         /\ inFin[s].sent \in BOOLEAN /\ inFin[s].received \in BOOLEAN
         /\ unread[s] \in Seq(Frame) /\ toReader[s] \in Seq(Frame)
         /\ toWriter[s] \in Seq(Frame)
         /\ rxUnacked[s] \in Nat /\ credit[s] \in Nat /\ readTo[s] \in Nat
         /\ reader[s] \in {"held", "ended", "dropped"}
         /\ credited(s) \in Int /\ Waiting(s) \in Int
<1>1. /\ out[s] \in {"open", "half", "closed"} /\ outFin[s] \in FinState
      /\ written[s] \in 0 .. MaxWritten /\ sent[s] \in 0 .. MaxWritten
      /\ txUnacked[s] \in Nat
  BY ZenonT(40) DEF TypeOK, OutboundTypeOK
<1>2. /\ inb[s] \in {"open", "half", "closed"} /\ inFin[s] \in FinState
      /\ unread[s] \in Seq(Frame) /\ reader[s] \in {"held", "ended", "dropped"}
      /\ rxUnacked[s] \in Nat /\ credit[s] \in Nat /\ readTo[s] \in Nat
  BY ZenonT(40) DEF TypeOK, InboundTypeOK, FinState
<1>3. toReader[s] \in Seq(Frame) /\ toWriter[s] \in Seq(Frame)
  BY ZenonT(40) DEF TypeOK, LinkTypeOK
<1>4. /\ outFin[s].sent \in BOOLEAN /\ outFin[s].received \in BOOLEAN
      /\ inFin[s].sent \in BOOLEAN /\ inFin[s].received \in BOOLEAN
  BY <1>1, <1>2 DEF FinState
<1>5. written[s] \in Nat /\ sent[s] \in Nat
  BY <1>1, OutboundAssumption
<1>6. credited(s) \in Int /\ Waiting(s) \in Int
  BY <1>2, <1>5 DEF credited, Waiting
<1> QED
  BY <1>1, <1>2, <1>3, <1>4, <1>5, <1>6, ZenonT(40)

\* The positions of one stream.
LEMMA PositionsAt ==
  ASSUME TypeOK, NEW s \in Streams
  PROVE  Arrived(s) \in Int /\ Returned(s) \in Int /\ Promised(s) \in Int
<1>1. toReader[s] # <<>> => toReader[s][1].from \in Nat
  <2>1. toReader[s] # <<>> => 1 \in 1 .. Len(toReader[s])
    BY TypesAt, TailFacts
  <2> QED
    BY <2>1, TypesAt, FramesFields
<1>2. toWriter[s] # <<>> =>
        toWriter[s][1].from \in Nat /\ toWriter[s][Len(toWriter[s])].to \in Nat
  <2>1. toWriter[s] # <<>> =>
          1 \in 1 .. Len(toWriter[s]) /\ Len(toWriter[s]) \in 1 .. Len(toWriter[s])
    BY TypesAt, TailFacts
  <2> QED
    BY <2>1, TypesAt, FramesFields
<1> QED
  BY <1>1, <1>2, TypesAt DEF Arrived, Returned, Promised

-----------------------------------------------------------------------------
(* The two sides of the accounting.                                        *)

\* The receiver never counts more than the sender (TRANSIT_CONTROL.md).
LEMMA NeverSmaller == TypeOK /\ StreamInv => SenderNeverSmaller
<1> SUFFICES ASSUME TypeOK, StreamInv, NEW s \in Streams
             PROVE  rxUnacked[s] <= txUnacked[s]
  BY DEF SenderNeverSmaller
<1>1. DataInv(s) /\ CreditInv(s)
  BY ZenonT(40) DEF StreamInv
<1>2. Arrived(s) <= sent[s] /\ Returned(s) <= Promised(s)
  BY <1>1, ZenonT(40) DEF DataInv, CreditInv, Chain
<1>3. txUnacked[s] \in Nat /\ sent[s] \in Nat /\ credited(s) \in Int
  BY TypesAt, ZenonT(40)
<1>4. Arrived(s) \in Int /\ Returned(s) \in Int
  BY PositionsAt, ZenonT(40)
<1>5. CASE inFin[s].sent
  <2>1. rxUnacked[s] = 0
    BY <1>1, <1>5, ZenonT(40) DEF CreditInv
  <2> QED
    BY <1>3, <2>1
<1>6. CASE ~inFin[s].sent
  <2>1. /\ rxUnacked[s] = Arrived(s) - credited(s) /\ Promised(s) = credited(s)
        /\ txUnacked[s] = sent[s] - Returned(s)
    BY <1>1, <1>6, ZenonT(40) DEF CreditInv
  <2> QED
    BY <1>2, <1>3, <1>4, <2>1
<1> QED
  BY <1>5, <1>6, ZenonT(40)

(***************************************************************************)
(* What the steps need to know of the sum over the streams that a pool     *)
(* stands for.  TransitProofs shows it, from facts about finite sets that  *)
(* nothing here or in the proofs of the steps depends on.                  *)
(***************************************************************************)
PoolLaws ==
  /\ \A u \in [Streams -> Nat], s \in Streams, n \in Nat :
       /\ PoolUsage([u EXCEPT ![s] = n]) = set_used(PoolUsage(u), u[s], n)
       /\ PoolUsage(u) \in Nat
  /\ \A u, v \in [Streams -> Nat] :
       (\A s \in Streams : u[s] <= v[s]) => PoolUsage(u) <= PoolUsage(v)
  /\ PoolUsage([s \in Streams |-> 0]) = 0

\* If the sender keeps to the pool, so does the receiver.
LEMMA ReceiverCovered ==
  ASSUME PoolLaws, TypeOK, StreamInv, PoolsInSync, ~is_overdrawn(txUsed)
  PROVE  PoolsNotOverdrawn
<1>1. rxUnacked \in [Streams -> Nat] /\ txUnacked \in [Streams -> Nat]
      /\ rxUsed \in Nat /\ txUsed \in Nat
  BY DEF TypeOK, OutboundTypeOK, InboundTypeOK
<1>2. \A s \in Streams : rxUnacked[s] <= txUnacked[s]
  BY NeverSmaller DEF SenderNeverSmaller
<1>3. PoolUsage(rxUnacked) <= PoolUsage(txUnacked)
  BY <1>1, <1>2, ZenonT(40) DEF PoolLaws
<1> QED
  BY <1>1, <1>3, FlowAssumption DEF PoolsInSync, PoolsNotOverdrawn, is_overdrawn

\* The same, after a step.
LEMMA ReceiverCoveredNext ==
  ASSUME PoolLaws
  PROVE  (TypeOK /\ StreamInv /\ PoolsInSync /\ ~is_overdrawn(txUsed) => PoolsNotOverdrawn)'
<1>1. TypeOK /\ StreamInv /\ PoolsInSync /\ ~is_overdrawn(txUsed) => PoolsNotOverdrawn
  BY ReceiverCovered
<1> QED
  BY <1>1, PTL

\* Window::set keeps the receiver's pool in step with its streams.
LEMMA RxPool ==
  ASSUME PoolLaws, TypeOK, PoolsInSync, NEW s \in Streams, NEW n \in Nat,
         rxUnacked' = [rxUnacked EXCEPT ![s] = n],
         rxUsed' = set_used(rxUsed, rxUnacked[s], n)
  PROVE  /\ rxUnacked' \in [Streams -> Nat] /\ rxUsed' \in Nat
         /\ rxUsed' = PoolUsage(rxUnacked')
<1>1. rxUnacked \in [Streams -> Nat] /\ rxUsed = PoolUsage(rxUnacked)
  BY DEF TypeOK, InboundTypeOK, PoolsInSync
<1>2. rxUnacked' \in [Streams -> Nat]
  BY <1>1
<1>3. PoolUsage([rxUnacked EXCEPT ![s] = n]) = set_used(rxUsed, rxUnacked[s], n)
  BY <1>1, ZenonT(40) DEF PoolLaws
<1>4. PoolUsage(rxUnacked') \in Nat
  BY <1>2, ZenonT(40) DEF PoolLaws
<1> QED
  BY <1>2, <1>3, <1>4

\* ... and the sender's.
LEMMA TxPool ==
  ASSUME PoolLaws, TypeOK, PoolsInSync, NEW s \in Streams, NEW n \in Nat,
         txUnacked' = [txUnacked EXCEPT ![s] = n],
         txUsed' = set_used(txUsed, txUnacked[s], n)
  PROVE  /\ txUnacked' \in [Streams -> Nat] /\ txUsed' \in Nat
         /\ txUsed' = PoolUsage(txUnacked')
<1>1. txUnacked \in [Streams -> Nat] /\ txUsed = PoolUsage(txUnacked)
  BY DEF TypeOK, OutboundTypeOK, PoolsInSync
<1>2. txUnacked' \in [Streams -> Nat]
  BY <1>1
<1>3. PoolUsage([txUnacked EXCEPT ![s] = n]) = set_used(txUsed, txUnacked[s], n)
  BY <1>1, ZenonT(40) DEF PoolLaws
<1>4. PoolUsage(txUnacked') \in Nat
  BY <1>2, ZenonT(40) DEF PoolLaws
<1> QED
  BY <1>2, <1>3, <1>4

\* The invariant holds initially.
LEMMA InitIInv ==
  ASSUME PoolLaws, Init
  PROVE  IInv
<1> USE DEF Init, OutboundInit, InboundInit, LinkInit
<1>1. TypeOK
  BY OutboundAssumption DEF TypeOK, OutboundTypeOK, InboundTypeOK, LinkTypeOK,
     FinState, Errors
<1>2. NoProtocolError /\ NoLostTurn /\ NobodyForgotten
  BY DEF NoProtocolError, NoLostTurn, NobodyForgotten
<1>3. PoolsInSync /\ PoolsNotOverdrawn
  <2>1. txUsed = 0 /\ rxUsed = 0 /\ PoolUsage(txUnacked) = 0 /\ PoolUsage(rxUnacked) = 0
    BY ZenonT(40) DEF PoolLaws
  <2> QED
    BY <2>1, FlowAssumption DEF PoolsInSync, PoolsNotOverdrawn, is_overdrawn
<1>4. StreamInv
  <2> SUFFICES ASSUME NEW s \in Streams
               PROVE  DataInv(s) /\ CreditInv(s) /\ CloseInv(s) /\ SleepInv(s)
    BY DEF StreamInv
  <2>1. DataInv(s)
    BY DEF DataInv, Chain, FinLast, Arrived, after_fin_write
  <2>2. CreditInv(s)
    BY DEF CreditInv, Chain, FinLast, Arrived, Returned, Promised, credited
  <2>3. CloseInv(s)
    BY DEF CloseInv
  <2>4. SleepInv(s)
    BY DEF SleepInv
  <2> QED
    BY <2>1, <2>2, <2>3, <2>4
<1> QED
  BY <1>1, <1>2, <1>3, <1>4 DEF IInv

-----------------------------------------------------------------------------
(* What the invariant implies.                                             *)

\* The next unread chunk starts where the reader is, because the chunks that
\* add_chunk queued form a chain.
LEMMA InvReads == IInv => ReadsInOrder
<1> SUFFICES ASSUME IInv, NEW s \in Streams, unread[s] # <<>>
             PROVE  Head(unread[s]).from = readTo[s]
  BY DEF ReadsInOrder
<1>1. TypeOK /\ DataInv(s)
  BY DEF IInv, StreamInv
<1>2. Chain(unread[s], readTo[s], Arrived(s))
  BY <1>1 DEF DataInv
<1>3. Head(unread[s]) = unread[s][1]
  BY <1>1, TypesAt, TailFacts
<1> QED
  BY <1>2, <1>3 DEF Chain

\* FIN_WRITE is the last thing the reader sees, behind all data.
LEMMA InvEnd == IInv => EndIsComplete
<1> SUFFICES ASSUME IInv, NEW s \in Streams, reader[s] = "ended"
             PROVE  readTo[s] = written[s] /\ out[s] = "closed"
  BY DEF EndIsComplete
<1>1. DataInv(s) /\ CloseInv(s)
  BY DEF IInv, StreamInv
<1>2. inFin[s].received /\ readTo[s] = written[s]
  BY <1>1 DEF CloseInv
<1>3. outFin[s].sent
  BY <1>1, <1>2 DEF DataInv, after_fin_write
<1> QED
  BY <1>1, <1>2, <1>3 DEF CloseInv

\* A sleeping stream with data has a full base window, and less than T_c of
\* credit is held back by the receiver.
LEMMA InvCredit == IInv => NoCreditDeadlock
<1> SUFFICES ASSUME IInv, NEW s \in Streams, Waiting(s) > 0, s \notin awake
             PROVE  /\ base_room(txUnacked[s]) = 0
                    /\ \/ toReader[s] # <<>> \/ toWriter[s] # <<>>
                       \/ unread[s] # <<>> \/ s \in rxAwake
  BY DEF NoCreditDeadlock
<1>1. TypeOK /\ StreamInvAt(s)
  BY DEF IInv, StreamInv, StreamInvAt
<1>2. base_room(txUnacked[s]) = 0
  <2>1. Waiting(s) # 0
    BY <1>1, TypesAt
  <2> QED
    BY <1>1, <2>1 DEF StreamInvAt, SleepInv
<1>3. ASSUME toReader[s] = <<>>, toWriter[s] = <<>>, unread[s] = <<>>, s \notin rxAwake
      PROVE  FALSE
  <2>1. /\ Arrived(s) = sent[s] /\ Returned(s) = credited(s)
    BY <1>3 DEF Arrived, Returned
  <2>2. out[s] # "closed"
    BY DEF Waiting
  <2>3. ~outFin[s].received
    BY <1>1, <2>2 DEF StreamInvAt, CloseInv
  <2>4. ~inFin[s].sent
    BY <1>1, <1>3, <2>3 DEF StreamInvAt, CreditInv
  <2>5. inb[s] # "closed" /\ credit[s] < T_c
    BY <1>1, <1>3, <2>4 DEF StreamInvAt, SleepInv
  <2>6. Chain(unread[s], readTo[s], Arrived(s))
    BY <1>1, <2>5 DEF StreamInvAt, DataInv
  <2>7. readTo[s] = sent[s]
    BY <1>3, <2>1, <2>6 DEF Chain
  <2>8. txUnacked[s] = sent[s] - credited(s)
    BY <1>1, <2>1, <2>3 DEF StreamInvAt, CreditInv
  <2>9. credit[s] \in Nat /\ readTo[s] \in Nat /\ sent[s] \in Nat
    BY <1>1, TypesAt
  <2>10. txUnacked[s] = credit[s]
    BY <2>7, <2>8, <2>9 DEF credited
  <2>11. txUnacked[s] >= B
    BY <1>2, <2>9, <2>10, FlowAssumption DEF base_room, SaturatingSub
  <2>12. T_c <= B /\ T_c \in Nat
    BY FlowAssumption DEF T_c, credit_threshold, Least, Greatest
  <2> QED
    BY <2>5, <2>9, <2>10, <2>11, <2>12, FlowAssumption
<1> QED
  BY <1>2, <1>3

-----------------------------------------------------------------------------
(* The application that writes.                                            *)

\* OutboundTraffic::write preserves the invariant.
LEMMA WriteStep ==
  ASSUME IInv, NEW s \in Streams, NEW n \in 1 .. MaxWritten,
         write(s, n), UNCHANGED inboundVars
  PROVE  IInv'
<1> USE DEF write, inboundVars, linkVars
<1>0. TypeOK /\ StreamInvAt(s) /\ out[s] = "open"
  BY DEF IInv, StreamInv, StreamInvAt
<1>1. OutboundTypeOK' /\ written'[s] = written[s] + n /\ n \in Nat
  BY <1>0, OutboundAssumption DEF TypeOK, OutboundTypeOK
<1>2. TypeOK'
  BY <1>0, <1>1 DEF TypeOK, InboundTypeOK, LinkTypeOK
<1>3. ASSUME NEW t \in Streams
      PROVE  SameData(t) /\ SameCredit(t) /\ (t # s => UnchangedAt(t))
  BY <1>0 DEF SameData, SameCredit, UnchangedAt, TypeOK, OutboundTypeOK
<1>4. StreamInvAt(s)'
  <2>1. sent[s] <= written'[s]
    BY <1>0, <1>1, TypesAt DEF StreamInvAt, DataInv
  <2>2. DataInv(s)' /\ CreditInv(s)'
    BY <1>0, <1>3, <2>1, KeepsData, KeepsCredit DEF StreamInvAt
  <2>3. CloseInv(s)'
    BY <1>0 DEF StreamInvAt, CloseInv, DataInv, after_fin_write
  <2>4. SleepInv(s)'
    BY <1>0 DEF StreamInvAt, SleepInv, T_c
  <2> QED
    BY <2>2, <2>3, <2>4 DEF StreamInvAt
<1>5. StreamInv'
  BY <1>3, <1>4, Unaffected DEF IInv, StreamInv, StreamInvAt
<1>6. NobodyForgotten'
  BY <1>0, OutboundAssumption
  DEF IInv, NobodyForgotten, Waiting, TypeOK, OutboundTypeOK
<1>7. NoProtocolError' /\ PoolsInSync' /\ PoolsNotOverdrawn' /\ NoLostTurn'
  BY DEF IInv, NoProtocolError, PoolsInSync, PoolsNotOverdrawn, NoLostTurn
<1> QED
  BY <1>2, <1>5, <1>6, <1>7 DEF IInv

\* poll_write_ready and poll_flushed, when they wait, preserve the invariant.
LEMMA ParkWriterStep ==
  ASSUME IInv, NEW s \in Streams, park_writer(s), UNCHANGED inboundVars
  PROVE  IInv'
<1> USE DEF park_writer, inboundVars, linkVars
<1>1. TypeOK'
  BY DEF IInv, TypeOK, OutboundTypeOK, InboundTypeOK, LinkTypeOK
<1>2. ASSUME NEW t \in Streams PROVE UnchangedAt(t)
  BY DEF SameData, SameCredit, UnchangedAt
<1>3. StreamInv'
  BY <1>2, Unaffected DEF IInv, StreamInv, StreamInvAt
<1>4. NobodyForgotten'
  BY DEF IInv, NobodyForgotten, Waiting
<1>5. NoProtocolError' /\ PoolsInSync' /\ PoolsNotOverdrawn' /\ NoLostTurn'
  BY DEF IInv, NoProtocolError, PoolsInSync, PoolsNotOverdrawn, NoLostTurn
<1> QED
  BY <1>1, <1>3, <1>4, <1>5 DEF IInv

\* OutboundTraffic::close_writing preserves the invariant.
LEMMA CloseWritingStep ==
  ASSUME IInv, NEW s \in Streams, NEW waits \in BOOLEAN,
         close_writing(s, waits), UNCHANGED inboundVars
  PROVE  IInv'
<1> USE DEF close_writing, inboundVars, linkVars
<1>0. TypeOK /\ StreamInvAt(s) /\ out[s] = "open"
  BY DEF IInv, StreamInv, StreamInvAt
<1>1. OutboundTypeOK'
  BY <1>0 DEF TypeOK, OutboundTypeOK
<1>2. TypeOK'
  BY <1>0, <1>1 DEF TypeOK, InboundTypeOK, LinkTypeOK
<1>3. ASSUME NEW t \in Streams
      PROVE  SameData(t) /\ SameCredit(t) /\ (t # s => UnchangedAt(t))
  BY <1>0 DEF SameData, SameCredit, UnchangedAt, TypeOK, OutboundTypeOK
<1>4. /\ Waiting(s) = written[s] - sent[s]
      /\ out'[s] = IF Waiting(s) = 0 THEN "closed" ELSE "half"
      /\ Waiting(s)' = Waiting(s)
  BY <1>0, TypesAt DEF Waiting, TypeOK, OutboundTypeOK
<1>5. StreamInvAt(s)'
  <2>1. sent[s] <= written'[s]
    BY <1>0 DEF StreamInvAt, DataInv
  <2>2. DataInv(s)' /\ CreditInv(s)'
    BY <1>0, <1>3, <2>1, KeepsData, KeepsCredit, ZenonT(40) DEF StreamInvAt
  <2>3. CloseInv(s)'
    BY <1>0, <1>4, TypesAt DEF StreamInvAt, CloseInv
  <2>4. SleepInv(s)'
    BY <1>0, <1>4 DEF StreamInvAt, SleepInv, T_c, base_room, SaturatingSub
  <2> QED
    BY <2>2, <2>3, <2>4 DEF StreamInvAt
<1>6. StreamInv'
  BY <1>3, <1>5, Unaffected DEF IInv, StreamInv, StreamInvAt
<1>7. NobodyForgotten'
  <2>1. ASSUME NEW t \in parkedWriters' PROVE Waiting(t)' > 0
    <3>1. CASE t = s
      BY <1>0, <1>4, <2>1, <3>1, ZenonT(40) DEF IInv, NobodyForgotten
    <3>2. CASE t # s
      BY <1>0, <1>3, <2>1, <3>2 DEF IInv, NobodyForgotten, Waiting, UnchangedAt,
         SameData, TypeOK, OutboundTypeOK
    <3> QED
      BY <3>1, <3>2
  <2> QED
    BY <2>1 DEF IInv, NobodyForgotten
<1>8. NoProtocolError' /\ PoolsInSync' /\ PoolsNotOverdrawn' /\ NoLostTurn'
  BY DEF IInv, NoProtocolError, PoolsInSync, PoolsNotOverdrawn, NoLostTurn
<1> QED
  BY <1>2, <1>6, <1>7, <1>8 DEF IInv

-----------------------------------------------------------------------------
(* The turn queue and the plan.                                            *)

\* ConnFlow::pass_turn loses no turn: the stream that leaves wakes the next one
\* if it was in the queue and there is room, and was not first otherwise.
LEMMA LeaveKeepsTurn ==
  ASSUME NoLostTurn, NEW s \in Streams, turns' = leave(turns, s), txUsed' = txUsed,
         awake \ {s} \subseteq awake', pass_turn(turns, s, txUsed) \subseteq awake',
         turns \in Seq(Streams)
  PROVE  NoLostTurn'
<1> SUFFICES ASSUME has_room(txUsed), turns' # <<>> PROVE Head(turns') \in awake'
  BY DEF NoLostTurn, has_room, room, SaturatingSub
<1>1. CASE InQueue(turns, s)
  BY <1>1 DEF pass_turn, wake_front
<1>2. CASE ~InQueue(turns, s)
  <2>1. turns' = turns
    BY <1>2 DEF leave
  <2>2. Head(turns) \in awake /\ Head(turns) = turns[1] /\ 1 \in 1 .. Len(turns)
    BY <2>1 DEF NoLostTurn
  <2>3. Head(turns) # s
    BY <1>2, <2>2 DEF InQueue
  <2> QED
    BY <2>1, <2>2, <2>3
<1> QED
  BY <1>1, <1>2

\* Joining the queue behind a stream that is awake loses no turn.
LEMMA JoinKeepsTurn ==
  ASSUME NoLostTurn, NEW s \in Streams, turns' = join(turns, s), txUsed' = txUsed,
         awake \ {s} \subseteq awake', turns \in Seq(Streams),
         has_room(txUsed) => ~has_turn(s)
  PROVE  NoLostTurn'
<1> SUFFICES ASSUME has_room(txUsed) PROVE Head(turns') \in awake'
  BY DEF NoLostTurn, has_room, room, SaturatingSub
<1>1. turns # <<>> /\ Head(turns) # s /\ Head(turns) \in awake
  BY DEF has_turn, NoLostTurn
<1>2. Head(turns') = Head(turns)
  <2>1. Head(Append(turns, s)) = Head(turns)
    BY <1>1
  <2> QED
    BY <2>1 DEF join
<1> QED
  BY <1>1, <1>2

\* Ledger::plan never takes more than is waiting, nor more than the base window
\* and the pool have room for; and it takes nothing of a stream with data only
\* if its base window is full and it may not use the pool.
LEMMA PlanBounds ==
  ASSUME TypeOK, NEW s \in Streams, NEW allowance \in Allowances, Waiting(s) \in Nat
  PROVE  /\ plan(s, allowance) \in Nat
         /\ plan(s, allowance) <= Waiting(s)
         /\ base_room(txUnacked[s]) \in Nat /\ room(txUsed) \in Nat
         /\ may_borrow(s, allowance) \in Nat
         /\ plan(s, allowance) <= base_room(txUnacked[s]) + room(txUsed)
         /\ plan(s, allowance) = 0 /\ Waiting(s) > 0 =>
               base_room(txUnacked[s]) = 0 /\ shared(s, allowance) = 0
<1>1. txUnacked[s] \in Nat /\ txUsed \in Nat /\ allowance \in Nat
  BY OutboundAssumption DEF TypeOK, OutboundTypeOK
<1>2. base_room(txUnacked[s]) \in Nat /\ room(txUsed) \in Nat
  BY <1>1, FlowAssumption DEF base_room, room, SaturatingSub
<1>3. may_borrow(s, allowance) \in Nat
  BY <1>1, FlowAssumption DEF may_borrow, borrowed_at, SaturatingSub
<1>4. shared(s, allowance) \in Nat /\ shared(s, allowance) <= room(txUsed)
  BY <1>2, <1>3 DEF shared, Least
<1>5. /\ full(s) \in Nat /\ full(s) <= Waiting(s)
      /\ Waiting(s) > 0 => full(s) > 0
  BY FlowAssumption DEF full, Least
<1> QED
  BY <1>2, <1>3, <1>4, <1>5 DEF plan, Least

\* What is waiting is not negative.
LEMMA WaitingNat ==
  ASSUME TypeOK, NEW s \in Streams, StreamInvAt(s)
  PROVE  Waiting(s) \in Nat
BY TypesAt DEF StreamInvAt, DataInv, Waiting

-----------------------------------------------------------------------------
(* StreamUpdates::poll_progress.                                           *)

\* OutboundTraffic::poll_update, with nothing to send, preserves the invariant.
LEMMA PollIdleStep ==
  ASSUME IInv, NEW s \in Streams, poll_idle(s), UNCHANGED inboundVars
  PROVE  IInv'
<1> USE DEF inboundVars, linkVars
<1>0. TypeOK /\ StreamInvAt(s) /\ turns \in Seq(Streams)
  BY ZenonT(40) DEF IInv, StreamInv, StreamInvAt, TypeOK, OutboundTypeOK
<1>1. /\ Waiting(s) = 0
      /\ turns' = leave(turns, s)
      /\ awake' = (awake \ {s}) \cup pass_turn(turns, s, txUsed)
      /\ UNCHANGED <<out, outFin, written, sent, txUnacked, txUsed, parkedWriters, linkVars>>
  BY DEF poll_idle
<1>2. turns' \in Seq(Streams) /\ awake' \subseteq Streams
  <2>1. turns' \in Seq(Streams)
    BY <1>0, <1>1, TurnQueueType
  <2>2. turns' # <<>> => Head(turns') \in Streams
    BY <2>1
  <2> QED
    BY <1>0, <1>1, <2>1, <2>2 DEF pass_turn, wake_front, TypeOK, OutboundTypeOK
<1>3. TypeOK'
  BY <1>0, <1>1, <1>2, ZenonT(40)
  DEF TypeOK, OutboundTypeOK, InboundTypeOK, LinkTypeOK
<1>4. ASSUME NEW t \in Streams
      PROVE  SameData(t) /\ SameCredit(t) /\ (t # s => UnchangedAt(t))
  BY <1>1 DEF SameData, SameCredit, UnchangedAt
<1>5. StreamInvAt(s)'
  <2>1. DataInv(s)' /\ CreditInv(s)'
    BY <1>0, <1>1, <1>4, KeepsData, KeepsCredit, ZenonT(40) DEF StreamInvAt, DataInv
  <2>2. CloseInv(s)'
    BY <1>0, <1>1, ZenonT(40) DEF StreamInvAt, CloseInv
  <2>3. SleepInv(s)'
    BY <1>0, <1>1, ZenonT(40) DEF StreamInvAt, SleepInv, T_c, Waiting
  <2> QED
    BY <2>1, <2>2, <2>3 DEF StreamInvAt
<1>6. StreamInv'
  BY <1>4, <1>5, Unaffected, ZenonT(40) DEF IInv, StreamInv, StreamInvAt
<1>7. NobodyForgotten' /\ NoProtocolError' /\ PoolsInSync' /\ PoolsNotOverdrawn'
  BY <1>1, ZenonT(40)
  DEF IInv, NobodyForgotten, Waiting, NoProtocolError, PoolsInSync,
     PoolsNotOverdrawn
<1>8. NoLostTurn'
  BY <1>0, <1>1, LeaveKeepsTurn DEF IInv
<1> QED
  BY <1>3, <1>6, <1>7, <1>8 DEF IInv

\* OutboundTraffic::poll_update, when no byte can go out, preserves the
\* invariant: the stream sleeps with its base window full.
LEMMA PollBlockedStep ==
  ASSUME IInv, NEW s \in Streams, NEW allowance \in Allowances,
         poll_blocked(s, allowance), UNCHANGED inboundVars
  PROVE  IInv'
<1> USE DEF inboundVars, linkVars
<1>0. TypeOK /\ StreamInvAt(s) /\ turns \in Seq(Streams) /\ Waiting(s) \in Nat
  BY WaitingNat DEF IInv, StreamInv, StreamInvAt, TypeOK, OutboundTypeOK
<1>1. /\ Waiting(s) > 0 /\ plan(s, allowance) = 0
      /\ \/ /\ turns' = leave(turns, s)
            /\ awake' = (awake \ {s}) \cup pass_turn(turns, s, txUsed)
         \/ /\ may_borrow(s, allowance) # 0
            /\ turns' = join(turns, s)
            /\ awake' = awake \ {s}
      /\ UNCHANGED <<out, outFin, written, sent, txUnacked, txUsed, parkedWriters, linkVars>>
  BY DEF poll_blocked
<1>2. turns' \in Seq(Streams) /\ awake' \subseteq Streams
  <2>1. turns' \in Seq(Streams)
    BY <1>0, <1>1, TurnQueueType, ZenonT(40)
  <2>2. turns' # <<>> => Head(turns') \in Streams
    BY <2>1
  <2> QED
    BY <1>0, <1>1, <2>1, <2>2 DEF pass_turn, wake_front, TypeOK, OutboundTypeOK
<1>3. TypeOK'
  BY <1>0, <1>1, <1>2, ZenonT(40)
  DEF TypeOK, OutboundTypeOK, InboundTypeOK, LinkTypeOK
<1>4. ASSUME NEW t \in Streams
      PROVE  SameData(t) /\ SameCredit(t) /\ (t # s => UnchangedAt(t))
  BY <1>1, ZenonT(40) DEF SameData, SameCredit, UnchangedAt
<1>5. base_room(txUnacked[s]) = 0 /\ shared(s, allowance) = 0
  BY <1>0, <1>1, PlanBounds
<1>6. StreamInvAt(s)'
  <2>1. DataInv(s)' /\ CreditInv(s)'
    BY <1>0, <1>1, <1>4, KeepsData, KeepsCredit, ZenonT(40) DEF StreamInvAt, DataInv
  <2>2. CloseInv(s)'
    BY <1>0, <1>1, ZenonT(40) DEF StreamInvAt, CloseInv
  <2>3. SleepInv(s)'
    BY <1>0, <1>1, <1>5, ZenonT(40)
    DEF StreamInvAt, SleepInv, T_c, base_room, SaturatingSub
  <2> QED
    BY <2>1, <2>2, <2>3 DEF StreamInvAt
<1>7. StreamInv'
  BY <1>4, <1>6, Unaffected DEF IInv, StreamInv, StreamInvAt
<1>8. NobodyForgotten' /\ NoProtocolError' /\ PoolsInSync' /\ PoolsNotOverdrawn'
  BY <1>1, ZenonT(40)
  DEF IInv, NobodyForgotten, Waiting, NoProtocolError, PoolsInSync,
     PoolsNotOverdrawn
<1>9. NoLostTurn'
  <2>1. CASE turns' = leave(turns, s) /\ awake' = (awake \ {s}) \cup pass_turn(turns, s, txUsed)
    BY <1>0, <1>1, <2>1, LeaveKeepsTurn, ZenonT(40) DEF IInv
  <2>2. CASE /\ may_borrow(s, allowance) # 0
             /\ turns' = join(turns, s) /\ awake' = awake \ {s}
    <3>1. may_borrow(s, allowance) \in Nat /\ room(txUsed) \in Nat
      BY <1>0, PlanBounds
    <3>2. has_room(txUsed) => ~has_turn(s)
      BY <1>5, <2>2, <3>1 DEF shared, has_room, Least
    <3> QED
      BY <1>0, <1>1, <2>2, <3>2, JoinKeepsTurn, ZenonT(40) DEF IInv
  <2> QED
    BY <1>1, <2>1, <2>2
<1> QED
  BY <1>3, <1>7, <1>8, <1>9 DEF IInv

\* A frame that goes out extends the chain of what is on its way.
LEMMA SendOut ==
  ASSUME TypeOK, NEW s \in Streams, DataInv(s), ~outFin[s].sent,
         NEW f \in Frame, f.from = sent[s], f.from <= f.to,
         toReader'[s] = Append(toReader[s], f)
  PROVE  /\ toReader'[s] # <<>> /\ toReader'[s] \in Seq(Frame)
         /\ Chain(toReader'[s], Arrived(s), f.to)
         /\ FinLast(toReader'[s], f.fin)
         /\ Arrived(s)' = Arrived(s)
         /\ ~after_fin_write(s)
<1>1. /\ toReader[s] \in Seq(Frame) /\ Arrived(s) \in Int /\ sent[s] \in Int
      /\ outFin[s].sent \in BOOLEAN
  BY TypesAt, PositionsAt
<1>2. /\ Chain(toReader[s], Arrived(s), sent[s])
      /\ FinLast(toReader[s], FALSE) /\ ~after_fin_write(s)
  BY <1>1, ZenonT(40) DEF DataInv
<1>3. Chain(toReader'[s], Arrived(s), f.to) /\ FinLast(toReader'[s], f.fin)
  BY <1>1, <1>2, ChainAppend, FinLastAppend, ZenonT(40)
<1>4. /\ toReader'[s] # <<>> /\ toReader'[s] \in Seq(Frame)
      /\ toReader'[s][1] = IF toReader[s] = <<>> THEN f ELSE toReader[s][1]
  BY <1>1, AppendEnds
<1>5. Arrived(s)' = Arrived(s)
  BY <1>4 DEF Arrived
<1> QED
  BY <1>2, <1>3, <1>4, <1>5, ZenonT(40)

\* OutboundTraffic::poll_update, sending FIN_WRITE on its own, preserves the
\* invariant.
LEMMA PollFinWriteStep ==
  ASSUME IInv, NEW s \in Streams, NEW breaks \in BOOLEAN,
         poll_fin_write(s, breaks), UNCHANGED inboundVars
  PROVE  IInv'
<1> DEFINE f == [from |-> sent[s], to |-> sent[s], fin |-> TRUE]
<1>0. TypeOK /\ StreamInvAt(s) /\ turns \in Seq(Streams)
  BY DEF IInv, StreamInv, StreamInvAt, TypeOK, OutboundTypeOK
<1>1. /\ out[s] = "closed" /\ ~outFin[s].sent
      /\ outFin' = [outFin EXCEPT ![s].sent = TRUE]
      /\ toReader' = [toReader EXCEPT ![s] = Append(@, f)]
      /\ turns' = leave(turns, s)
      /\ awake' = (IF breaks THEN awake \ {s} ELSE awake \cup {s})
                    \cup pass_turn(turns, s, txUsed)
      /\ UNCHANGED <<out, written, sent, txUnacked, txUsed, parkedWriters, toWriter, error>>
  BY ZenonT(40) DEF poll_fin_write
<1>2. sent[s] \in Nat /\ f \in Frame /\ f.from = sent[s] /\ f.to = sent[s] /\ f.fin = TRUE
  BY <1>0, TypesAt DEF Frame
<1> HIDE DEF f
<1>3. /\ toReader'[s] = Append(toReader[s], f)
      /\ outFin'[s].sent = TRUE /\ outFin'[s].received = outFin[s].received
  BY <1>0, <1>1 DEF TypeOK, OutboundTypeOK, LinkTypeOK, FinState
<1>4. /\ toReader'[s] # <<>> /\ toReader'[s] \in Seq(Frame)
      /\ Chain(toReader'[s], Arrived(s), f.to)
      /\ FinLast(toReader'[s], f.fin)
      /\ Arrived(s)' = Arrived(s)
      /\ ~after_fin_write(s)
  BY <1>0, <1>1, <1>2, <1>3, SendOut DEF StreamInvAt
<1> USE DEF inboundVars
<1>5. turns' \in Seq(Streams) /\ awake' \subseteq Streams
  <2>1. turns' \in Seq(Streams)
    BY <1>0, <1>1, TurnQueueType
  <2>2. turns' # <<>> => Head(turns') \in Streams
    BY <2>1
  <2> QED
    BY <1>0, <1>1, <2>1, <2>2 DEF pass_turn, wake_front, TypeOK, OutboundTypeOK
<1>6. TypeOK'
  <2>1. toReader' \in [Streams -> Seq(Frame)]
    BY <1>0, <1>1, <1>3, <1>4 DEF TypeOK, LinkTypeOK
  <2>2. outFin' \in [Streams -> FinState]
    BY <1>0, <1>1, ZenonT(40) DEF TypeOK, OutboundTypeOK, FinState
  <2> QED
    BY <1>0, <1>1, <1>5, <2>1, <2>2, ZenonT(40)
    DEF TypeOK, OutboundTypeOK, InboundTypeOK, LinkTypeOK
<1>7. ASSUME NEW t \in Streams, t # s PROVE UnchangedAt(t)
  BY <1>0, <1>1, <1>7 DEF SameData, SameCredit, UnchangedAt, TypeOK, OutboundTypeOK,
     LinkTypeOK
<1>8. StreamInvAt(s)'
  <2>1. DataInv(s)'
    <3>1. ~after_fin_write(s)'
      BY <1>4, ZenonT(40) DEF after_fin_write
    <3> QED
      BY <1>0, <1>1, <1>2, <1>3, <1>4, <3>1, ZenonT(40) DEF StreamInvAt, DataInv
  <2>2. CreditInv(s)'
    <3>1. /\ Returned(s)' = Returned(s) /\ Promised(s)' = Promised(s)
          /\ credited(s)' = credited(s)
      BY <1>1 DEF Returned, Promised, credited
    <3> QED
      BY <1>0, <1>1, <1>3, <1>4, <3>1, ZenonT(40) DEF StreamInvAt, CreditInv
  <2>3. CloseInv(s)'
    BY <1>0, <1>1, <1>3 DEF StreamInvAt, CloseInv
  <2>4. SleepInv(s)'
    BY <1>0, <1>1 DEF StreamInvAt, SleepInv, T_c, Waiting
  <2> QED
    BY <2>1, <2>2, <2>3, <2>4 DEF StreamInvAt
<1>9. StreamInv'
  BY <1>7, <1>8, Unaffected DEF IInv, StreamInv, StreamInvAt
<1>10. NobodyForgotten' /\ NoProtocolError' /\ PoolsInSync' /\ PoolsNotOverdrawn'
  BY <1>1 DEF IInv, NobodyForgotten, Waiting, NoProtocolError, PoolsInSync,
     PoolsNotOverdrawn
<1>11. NoLostTurn'
  <2>1. awake \ {s} \subseteq awake' /\ pass_turn(turns, s, txUsed) \subseteq awake'
    BY <1>1
  <2> QED
    BY <1>0, <1>1, <2>1, LeaveKeepsTurn DEF IInv
<1> QED
  BY <1>6, <1>9, <1>10, <1>11 DEF IInv

\* A plan within the base window borrows nothing, and no plan borrows more
\* than the pool has room for.
LEMMA PlanUse ==
  ASSUME NEW used \in Nat, NEW u \in Nat, NEW n \in Nat, n > 0,
         used <= PoolSize, n <= base_room(u) + room(used)
  PROVE  /\ n <= base_room(u) => set_used(used, u, u + n) = used
         /\ set_used(used, u, u + n) <= PoolSize
BY FlowAssumption DEF base_room, room, set_used, borrowed_at, SaturatingSub

\* Requeueing keeps the queue a queue of streams.
LEMMA RequeueType ==
  ASSUME NEW s \in Streams, NEW n, turns \in Seq(Streams)
  PROVE  requeue(s, n) \in Seq(Streams) /\ leave(requeue(s, n), s) \in Seq(Streams)
<1>1. leave(turns, s) \in Seq(Streams)
  BY TurnQueueType
<1>2. join(leave(turns, s), s) \in Seq(Streams)
  BY <1>1, TurnQueueType
<1>3. requeue(s, n) \in Seq(Streams)
  BY <1>1, <1>2 DEF requeue
<1> QED
  BY <1>3, TurnQueueType

\* Sending data loses no turn: a stream that borrowed wakes the new front, one
\* that did not leaves the pool as it was.
LEMMA SendKeepsTurn ==
  ASSUME NoLostTurn, turns \in Seq(Streams), NEW s \in Streams, NEW n \in Nat,
         NEW breaks \in BOOLEAN, base_room(txUnacked[s]) \in Nat,
         turns' = IF breaks THEN leave(requeue(s, n), s) ELSE requeue(s, n),
         n <= base_room(txUnacked[s]) => txUsed' = txUsed,
         awake' = (IF breaks THEN awake \ {s} ELSE awake \cup {s})
                    \cup (IF n > base_room(txUnacked[s]) /\ has_room(txUsed')
                          THEN wake_front(requeue(s, n)) ELSE {})
                    \cup (IF breaks THEN pass_turn(requeue(s, n), s, txUsed') ELSE {})
  PROVE  NoLostTurn'
<1> DEFINE q == requeue(s, n)
<1> SUFFICES ASSUME has_room(txUsed'), turns' # <<>> PROVE Head(turns') \in awake'
  BY DEF NoLostTurn, has_room, room, SaturatingSub
<1>0. q \in Seq(Streams)
  BY RequeueType
<1>1. CASE n > base_room(txUnacked[s])
  <2>1. q # <<>> => Head(q) \in awake'
    BY <1>1 DEF wake_front
  <2>2. CASE ~breaks \/ ~InQueue(q, s)
    BY <2>1, <2>2 DEF leave
  <2>3. CASE breaks /\ InQueue(q, s)
    BY <2>3 DEF pass_turn, wake_front
  <2> QED
    BY <2>2, <2>3
<1>2. CASE ~(n > base_room(txUnacked[s]))
  <2>1. q = turns /\ txUsed' = txUsed
    BY <1>2 DEF requeue
  <2>2. turns # <<>> => Head(turns) \in awake /\ Head(turns) = turns[1] /\ 1 \in 1 .. Len(turns)
    BY <2>1 DEF NoLostTurn
  <2> HIDE DEF q
  <2>3. CASE ~breaks
    BY <2>1, <2>2, <2>3 DEF q
  <2>4. CASE breaks /\ InQueue(q, s)
    BY <2>4 DEF pass_turn, wake_front, q
  <2>5. CASE breaks /\ ~InQueue(q, s)
    <3>1. turns' = turns
      BY <2>1, <2>5 DEF leave, q
    <3>2. Head(turns) # s
      BY <2>1, <2>2, <2>5, <3>1, ZenonT(40) DEF InQueue
    <3> QED
      BY <2>2, <3>1, <3>2
  <2> QED
    BY <2>3, <2>4, <2>5, ZenonT(40)
<1> QED
  BY <1>1, <1>2

\* OutboundTraffic::poll_update, sending data, preserves the invariant.
LEMMA PollDataStep ==
  ASSUME PoolLaws, IInv, NEW s \in Streams, NEW allowance \in Allowances, NEW breaks \in BOOLEAN,
         poll_data(s, allowance, breaks), UNCHANGED inboundVars
  PROVE  IInv'
<1> DEFINE n    == plan(s, allowance)
           last == out[s] = "half" /\ n = Waiting(s)
           f    == [from |-> sent[s], to |-> sent[s] + n, fin |-> last]
<1>0. /\ TypeOK /\ StreamInvAt(s) /\ turns \in Seq(Streams) /\ Waiting(s) \in Nat
      /\ PoolsInSync /\ PoolsNotOverdrawn
  BY WaitingNat DEF IInv, StreamInv, StreamInvAt, TypeOK, OutboundTypeOK
<1>1. /\ n > 0 /\ (breaks => last)
      /\ toReader' = [toReader EXCEPT ![s] = Append(@, f)]
      /\ sent' = [sent EXCEPT ![s] = @ + n]
      /\ txUnacked' = [txUnacked EXCEPT ![s] = @ + n]
      /\ txUsed' = set_used(txUsed, txUnacked[s], txUnacked[s] + n)
      /\ out' = [out EXCEPT ![s] = IF last THEN "closed" ELSE @]
      /\ outFin' = [outFin EXCEPT ![s].sent = last]
      /\ parkedWriters' = IF n = Waiting(s) THEN parkedWriters \ {s} ELSE parkedWriters
      /\ UNCHANGED <<written, toWriter, error>>
  BY DEF poll_data
<1>2. /\ turns' = IF breaks THEN leave(requeue(s, n), s) ELSE requeue(s, n)
      /\ awake' = (IF breaks THEN awake \ {s} ELSE awake \cup {s})
                    \cup (IF n > base_room(txUnacked[s]) /\ has_room(txUsed')
                          THEN wake_front(requeue(s, n)) ELSE {})
                    \cup (IF breaks THEN pass_turn(requeue(s, n), s, txUsed') ELSE {})
  BY DEF poll_data
<1>3. /\ n \in Nat /\ n <= Waiting(s)
      /\ base_room(txUnacked[s]) \in Nat
      /\ n <= base_room(txUnacked[s]) + room(txUsed)
  BY <1>0, PlanBounds
<1>4. last \in BOOLEAN /\ (last <=> out[s] = "half" /\ n = Waiting(s))
  OBVIOUS
<1> HIDE DEF n, last
<1>5. out[s] # "closed" /\ Waiting(s) = written[s] - sent[s]
  BY <1>0, <1>1, <1>3 DEF Waiting
<1>6. /\ ~outFin[s].sent /\ ~outFin[s].received
      /\ sent[s] \in Nat /\ written[s] \in Nat /\ txUnacked[s] \in Nat /\ txUsed \in Nat
      /\ txUsed <= PoolSize
  <2>1. ~outFin[s].sent /\ ~outFin[s].received
    BY <1>0, <1>5, ZenonT(40) DEF StreamInvAt, CloseInv
  <2>2. sent[s] \in Nat /\ written[s] \in Nat /\ txUnacked[s] \in Nat
    BY <1>0, TypesAt, ZenonT(40)
  <2>3. txUsed \in Nat /\ ~is_overdrawn(txUsed)
    BY <1>0, ZenonT(40) DEF TypeOK, OutboundTypeOK, PoolsNotOverdrawn
  <2>4. txUsed <= PoolSize
    BY <2>3, FlowAssumption DEF is_overdrawn
  <2> QED
    BY <2>1, <2>2, <2>3, <2>4, ZenonT(40)
<1>7. /\ f \in Frame /\ f.from = sent[s] /\ f.to = sent[s] + n /\ f.fin = last
      /\ f.from <= f.to /\ sent[s] + n <= written[s]
  <2>1. sent[s] \in Nat /\ written[s] \in Nat
    BY <1>6, ZenonT(40)
  <2>2. sent[s] + n \in Nat /\ sent[s] <= sent[s] + n /\ sent[s] + n <= written[s]
    BY <1>3, <1>5, <2>1
  <2>3. f \in Frame
    BY <1>4, <2>1, <2>2, ZenonT(40) DEF Frame
  <2> QED
    BY <2>2, <2>3, ZenonT(40)
<1> HIDE DEF f
<1>8. /\ toReader'[s] = Append(toReader[s], f) /\ sent'[s] = sent[s] + n
      /\ txUnacked'[s] = txUnacked[s] + n
      /\ out'[s] = (IF last THEN "closed" ELSE out[s])
      /\ outFin'[s].sent = last /\ outFin'[s].received = outFin[s].received
  BY <1>0, <1>1 DEF TypeOK, OutboundTypeOK, LinkTypeOK, FinState
<1>9. /\ toReader'[s] # <<>> /\ toReader'[s] \in Seq(Frame)
      /\ Chain(toReader'[s], Arrived(s), f.to)
      /\ FinLast(toReader'[s], f.fin)
      /\ Arrived(s)' = Arrived(s)
      /\ ~after_fin_write(s)
  BY <1>0, <1>6, <1>7, <1>8, SendOut, ZenonT(40) DEF StreamInvAt
<1> USE DEF inboundVars
<1>10. /\ txUnacked' \in [Streams -> Nat] /\ txUsed' \in Nat
       /\ txUsed' = PoolUsage(txUnacked')
  <2>1. txUnacked[s] + n \in Nat /\ txUnacked' = [txUnacked EXCEPT ![s] = txUnacked[s] + n]
    BY <1>1, <1>3, <1>6
  <2> QED
    BY <1>0, <1>1, <2>1, TxPool, ZenonT(40)
<1>11. (n <= base_room(txUnacked[s]) => txUsed' = txUsed) /\ txUsed' <= PoolSize
  BY <1>1, <1>3, <1>6, PlanUse, ZenonT(40)
<1>12. turns' \in Seq(Streams) /\ awake' \subseteq Streams
  <2>1. requeue(s, n) \in Seq(Streams) /\ leave(requeue(s, n), s) \in Seq(Streams)
    BY <1>0, RequeueType
  <2>2. /\ requeue(s, n) # <<>> => Head(requeue(s, n)) \in Streams
        /\ leave(requeue(s, n), s) # <<>> => Head(leave(requeue(s, n), s)) \in Streams
    BY <2>1
  <2>3. awake \subseteq Streams
    BY <1>0 DEF TypeOK, OutboundTypeOK
  <2> QED
    BY <1>2, <2>1, <2>2, <2>3, ZenonT(40) DEF pass_turn, wake_front
<1>13. TypeOK'
  <2>1. toReader' \in [Streams -> Seq(Frame)]
    BY <1>0, <1>1, <1>8, <1>9 DEF TypeOK, LinkTypeOK
  <2>2. outFin' \in [Streams -> FinState]
    BY <1>0, <1>1, <1>4, ZenonT(40) DEF TypeOK, OutboundTypeOK, FinState
  <2>3. sent' \in [Streams -> 0 .. MaxWritten]
    <3>1. sent[s] + n \in 0 .. MaxWritten
      BY <1>0, <1>3, <1>6, <1>7, OutboundAssumption DEF TypeOK, OutboundTypeOK
    <3> QED
      BY <1>0, <1>1, <3>1, ZenonT(40) DEF TypeOK, OutboundTypeOK
  <2>4. out' \in [Streams -> {"open", "half", "closed"}]
    BY <1>0, <1>1, ZenonT(40) DEF TypeOK, OutboundTypeOK
  <2>5. OutboundTypeOK'
    BY <1>0, <1>1, <1>10, <1>12, <2>2, <2>3, <2>4, ZenonT(40)
    DEF TypeOK, OutboundTypeOK
  <2> QED
    BY <1>0, <1>1, <2>1, <2>5, ZenonT(40) DEF TypeOK, InboundTypeOK, LinkTypeOK
<1>14. ASSUME NEW t \in Streams, t # s PROVE UnchangedAt(t)
  BY <1>0, <1>1, <1>2, <1>14, ZenonT(40)
  DEF SameData, SameCredit, UnchangedAt, TypeOK,
     OutboundTypeOK, LinkTypeOK
<1>15. Waiting(s)' = Waiting(s) - n
  BY <1>1, <1>3, <1>4, <1>5, <1>6, <1>8 DEF Waiting
<1>16. StreamInvAt(s)'
  <2>1. DataInv(s)'
    <3>1. ~after_fin_write(s)'
      BY <1>9 DEF after_fin_write
    <3> QED
      BY <1>0, <1>1, <1>7, <1>8, <1>9, <3>1, ZenonT(40) DEF StreamInvAt, DataInv
  <2>2. CreditInv(s)'
    <3>1. /\ Returned(s)' = Returned(s) /\ Promised(s)' = Promised(s)
          /\ credited(s)' = credited(s)
      BY <1>1 DEF Returned, Promised, credited
    <3>2. Returned(s) \in Int /\ Promised(s) \in Int
      BY <1>0, PositionsAt, ZenonT(40)
    <3>3. Promised(s) <= sent'[s] /\ txUnacked'[s] = sent'[s] - Returned(s)
      <4>1. Promised(s) <= sent[s] /\ txUnacked[s] = sent[s] - Returned(s)
        BY <1>0, <1>6, ZenonT(40) DEF StreamInvAt, CreditInv
      <4>2. sent'[s] = sent[s] + n /\ txUnacked'[s] = txUnacked[s] + n /\ sent[s] \in Nat
        BY <1>6, <1>8, ZenonT(40)
      <4> QED
        BY <1>3, <3>2, <4>1, <4>2
    <3> QED
      BY <1>0, <1>1, <1>6, <1>8, <1>9, <3>1, <3>3, ZenonT(40)
      DEF StreamInvAt, CreditInv
  <2>3. CloseInv(s)'
    <3>1. last => sent'[s] = written[s]
      <4>1. sent[s] \in Nat /\ written[s] \in Nat /\ sent'[s] = sent[s] + n
        BY <1>6, <1>8, ZenonT(40)
      <4>2. last => n = written[s] - sent[s]
        BY <1>4, <1>5, ZenonT(40)
      <4>3. n = written[s] - sent[s] => sent[s] + n = written[s]
        BY <4>1
      <4> QED
        BY <4>1, <4>2, <4>3, ZenonT(40)
    <3>2. written'[s] = written[s] /\ (out'[s] = "closed" => last)
      BY <1>1, <1>5, <1>8
    <3> QED
      BY <1>0, <1>1, <1>5, <1>6, <1>8, <3>1, <3>2, ZenonT(40)
      DEF StreamInvAt, CloseInv
  <2>4. SleepInv(s)'
    <3>1. breaks => Waiting(s)' = 0
      BY <1>1, <1>3, <1>4, <1>15
    <3>2. ~breaks => s \in awake'
      BY <1>2
    <3> QED
      BY <1>0, <1>1, <3>1, <3>2 DEF StreamInvAt, SleepInv, T_c
  <2> QED
    BY <2>1, <2>2, <2>3, <2>4, ZenonT(40) DEF StreamInvAt
<1>17. StreamInv'
  BY <1>14, <1>16, Unaffected, ZenonT(40) DEF IInv, StreamInv, StreamInvAt
<1>18. NobodyForgotten'
  <2>1. ASSUME NEW t \in parkedWriters' PROVE Waiting(t)' > 0
    <3>1. t \in Streams /\ Waiting(t) > 0 /\ (t = s => n # Waiting(s))
      BY <1>0, <1>1, <2>1, ZenonT(40)
      DEF IInv, NobodyForgotten, TypeOK, OutboundTypeOK
    <3>2. CASE t = s
      <4>1. Waiting(s) \in Nat /\ n # Waiting(s)
        BY <1>0, <3>1, <3>2, ZenonT(40)
      <4> QED
        BY <1>3, <1>15, <3>2, <4>1
    <3>3. CASE t # s
      BY <1>14, <3>1, <3>3 DEF Waiting, UnchangedAt, SameData
    <3> QED
      BY <3>2, <3>3
  <2> QED
    BY <2>1 DEF IInv, NobodyForgotten
<1>19. NoProtocolError' /\ PoolsInSync'
  BY <1>1, <1>10 DEF IInv, NoProtocolError, PoolsInSync
<1>20. PoolsNotOverdrawn'
  BY <1>10, <1>11, <1>13, <1>17, <1>19, ReceiverCoveredNext, FlowAssumption
  DEF is_overdrawn
<1>21. NoLostTurn'
  BY <1>0, <1>2, <1>3, <1>11, SendKeepsTurn DEF IInv
<1> QED
  BY <1>13, <1>17, <1>18, <1>19, <1>20, <1>21, ZenonT(40) DEF IInv

-----------------------------------------------------------------------------
(* StreamHandle::received.                                                 *)

\* What is known of the first frame on its way back: it starts where the credit
\* that returned ends, nothing came after FIN_READ, and a WINDOW returns no
\* more than is in flight.
LEMMA NextReturn ==
  ASSUME TypeOK, NEW s \in Streams, StreamInvAt(s), toWriter[s] # <<>>
  PROVE  /\ Head(toWriter[s]) = toWriter[s][1]
         /\ Tail(toWriter[s]) \in Seq(Frame)
         /\ toWriter[s][1].from \in Nat /\ toWriter[s][1].to \in Nat
         /\ toWriter[s][1].from = Returned(s)
         /\ toWriter[s][1].from <= toWriter[s][1].to /\ toWriter[s][1].to <= Promised(s)
         /\ Chain(Tail(toWriter[s]), toWriter[s][1].to, Promised(s))
         /\ FinLast(Tail(toWriter[s]), inFin[s].sent)
         /\ toWriter[s][1].fin <=> (inFin[s].sent /\ Tail(toWriter[s]) = <<>>)
         /\ Tail(toWriter[s]) # <<>> =>
               /\ Tail(toWriter[s])[1].from = toWriter[s][1].to
               /\ Tail(toWriter[s])[Len(Tail(toWriter[s]))].to = Promised(s)
         /\ Tail(toWriter[s]) = <<>> => toWriter[s][1].to = Promised(s)
         /\ ~outFin[s].received
         /\ txUnacked[s] = sent[s] - toWriter[s][1].from
         /\ toWriter[s][1].to <= sent[s]
<1>1. /\ toWriter[s] \in Seq(Frame) /\ Returned(s) \in Int /\ Promised(s) \in Int
      /\ sent[s] \in Nat /\ inFin[s].sent \in BOOLEAN
  BY TypesAt, PositionsAt, ZenonT(40)
<1>2. /\ Head(toWriter[s]) = toWriter[s][1] /\ 1 \in 1 .. Len(toWriter[s])
      /\ Tail(toWriter[s]) \in Seq(Frame) /\ Len(toWriter[s]) \in Nat
      /\ Len(Tail(toWriter[s])) = Len(toWriter[s]) - 1
      /\ \A i \in 1 .. Len(Tail(toWriter[s])) : Tail(toWriter[s])[i] = toWriter[s][i + 1]
      /\ Tail(toWriter[s]) = <<>> <=> Len(toWriter[s]) = 1
  BY <1>1, TailFacts, ZenonT(40)
<1>3. toWriter[s][1].from \in Nat /\ toWriter[s][1].to \in Nat
  BY <1>1, <1>2, FramesFields, ZenonT(40)
<1>4. /\ Chain(toWriter[s], Returned(s), Promised(s)) /\ FinLast(toWriter[s], inFin[s].sent)
      /\ Promised(s) <= sent[s] /\ ~outFin[s].received
      /\ txUnacked[s] = sent[s] - Returned(s)
  BY ZenonT(40) DEF StreamInvAt, CreditInv
<1>5. /\ Chain(Tail(toWriter[s]), toWriter[s][1].to, Promised(s))
      /\ Tail(toWriter[s]) # <<>> => Tail(toWriter[s])[1].from = toWriter[s][1].to
      /\ Tail(toWriter[s]) = <<>> => toWriter[s][1].to = Promised(s)
      /\ toWriter[s][1].from = Returned(s) /\ Returned(s) <= toWriter[s][1].to
      /\ toWriter[s][1].to <= Promised(s)
  BY <1>1, <1>4, ChainTail, ZenonT(40)
<1>6. /\ FinLast(Tail(toWriter[s]), inFin[s].sent)
      /\ toWriter[s][1].fin <=> (inFin[s].sent /\ Tail(toWriter[s]) = <<>>)
  BY <1>1, <1>4, FinLastTail, ZenonT(40)
<1>7. Tail(toWriter[s]) # <<>> =>
        Tail(toWriter[s])[Len(Tail(toWriter[s]))].to = Promised(s)
  <2>1. Tail(toWriter[s]) # <<>> =>
          LET m == Len(Tail(toWriter[s]))
          IN  m \in 1 .. m /\ m + 1 = Len(toWriter[s])
    <3>1. PICK n \in Nat : n = Len(toWriter[s])
      BY <1>2, ZenonT(40)
    <3>2. /\ 1 \in 1 .. n /\ Len(Tail(toWriter[s])) = n - 1
          /\ Tail(toWriter[s]) = <<>> <=> n = 1
      BY <1>2, <3>1, ZenonT(40)
    <3>3. n # 1 => n - 1 \in 1 .. (n - 1) /\ n - 1 + 1 = n
      <4> HIDE <3>1
      <4> QED
        BY <3>2
    <3> QED
      BY <3>1, <3>2, <3>3, ZenonT(40)
  <2>2. Promised(s) = toWriter[s][Len(toWriter[s])].to
    BY ZenonT(40) DEF Promised
  <2> QED
    BY <1>2, <2>1, <2>2, ZenonT(40)
<1>8. toWriter[s][1].to <= sent[s]
  <2>1. Promised(s) \in Int /\ Promised(s) <= sent[s]
    BY <1>1, <1>4, ZenonT(40)
  <2>2. sent[s] \in Nat /\ toWriter[s][1].to \in Nat /\ toWriter[s][1].to <= Promised(s)
    BY <1>1, <1>3, <1>5, ZenonT(40)
  <2> QED
    BY <2>1, <2>2
<1> QED
  BY <1>2, <1>3, <1>4, <1>5, <1>6, <1>7, <1>8, ZenonT(40)

\* A smaller window gives back to the pool, or leaves it as it was.
LEMMA SetLess ==
  ASSUME NEW used \in Nat, NEW old \in Nat, NEW new \in Nat, new <= old
  PROVE  /\ set_used(used, old, new) <= used
         /\ ~set_freed(old, new) => set_used(used, old, new) = used
<1>1. borrowed_at(new) \in Nat /\ borrowed_at(old) \in Nat
      /\ borrowed_at(new) <= borrowed_at(old)
  BY FlowAssumption DEF borrowed_at, SaturatingSub
<1> QED
  BY <1>1 DEF set_used, set_freed

\* Credit that frees room wakes the front of the queue.
LEMMA FreeKeepsTurn ==
  ASSUME NoLostTurn, UNCHANGED turns, awake \subseteq awake',
         NEW freed \in BOOLEAN, ~freed => txUsed' = txUsed,
         freed => wake_front(turns) \subseteq awake'
  PROVE  NoLostTurn'
<1>1. CASE freed
  BY <1>1 DEF NoLostTurn, wake_front
<1>2. CASE ~freed
  BY <1>2 DEF NoLostTurn, has_room, room, SaturatingSub
<1> QED
  BY <1>1, <1>2

\* OutboundTraffic::received_window_update preserves the invariant.
LEMMA ReceivedWindowUpdateStep ==
  ASSUME PoolLaws, IInv, NEW s \in Streams, received_window_update(s), UNCHANGED inboundVars
  PROVE  IInv'
<1> DEFINE f == toWriter[s][1]
           u == txUnacked[s] - (f.to - f.from)
           freed == set_freed(txUnacked[s], u)
<1>0. /\ TypeOK /\ StreamInvAt(s) /\ turns \in Seq(Streams)
      /\ PoolsInSync /\ PoolsNotOverdrawn
  BY DEF IInv, StreamInv, StreamInvAt, TypeOK, OutboundTypeOK
<1>1. toWriter[s] # <<>> /\ ~Head(toWriter[s]).fin
  BY DEF received_window_update
<1>2. /\ Head(toWriter[s]) = f /\ Tail(toWriter[s]) \in Seq(Frame)
      /\ f.from \in Nat /\ f.to \in Nat /\ f.from <= f.to
      /\ Chain(Tail(toWriter[s]), f.to, Promised(s))
      /\ FinLast(Tail(toWriter[s]), inFin[s].sent)
      /\ ~(inFin[s].sent /\ Tail(toWriter[s]) = <<>>)
      /\ Tail(toWriter[s]) # <<>> =>
            /\ Tail(toWriter[s])[1].from = f.to
            /\ Tail(toWriter[s])[Len(Tail(toWriter[s]))].to = Promised(s)
      /\ Tail(toWriter[s]) = <<>> => f.to = Promised(s)
      /\ ~outFin[s].received
      /\ txUnacked[s] = sent[s] - f.from /\ f.to <= sent[s]
  BY <1>0, <1>1, NextReturn, ZenonT(40)
<1>3. Size(Head(toWriter[s])) = f.to - f.from
  BY <1>2, ZenonT(40) DEF Size
<1> HIDE DEF f
<1>4. sent[s] \in Nat /\ txUnacked[s] \in Nat /\ txUsed \in Nat
  BY <1>0, TypesAt, ZenonT(40) DEF TypeOK, OutboundTypeOK
<1>5. /\ u \in Nat /\ u <= txUnacked[s] /\ u = sent[s] - f.to
      /\ ~(f.to - f.from > txUnacked[s])
  <2>1. /\ f.from \in Nat /\ f.to \in Nat /\ f.from <= f.to
        /\ txUnacked[s] = sent[s] - f.from /\ f.to <= sent[s]
    BY <1>2, ZenonT(40)
  <2> QED
    BY <1>4, <2>1
<1>6. window_update_error(s, f.to - f.from) = "none"
  BY <1>2, <1>5, ZenonT(40) DEF window_update_error
<1>7. /\ toWriter' = [toWriter EXCEPT ![s] = Tail(@)]
      /\ error' = "none"
      /\ txUnacked' = [txUnacked EXCEPT ![s] = u]
      /\ txUsed' = set_used(txUsed, txUnacked[s], u)
      /\ awake' = awake \cup (IF freed THEN wake_front(turns) ELSE {})
                        \cup (IF Waiting(s) > 0 THEN {s} ELSE {})
      /\ UNCHANGED <<out, outFin, written, sent, turns, parkedWriters, toReader>>
  BY <1>3, <1>6, ZenonT(40) DEF received_window_update
<1>8. freed \in BOOLEAN /\ txUsed' <= txUsed /\ (~freed => txUsed' = txUsed)
  BY <1>4, <1>5, <1>7, SetLess DEF set_freed
<1> HIDE DEF u, freed
<1>9. toWriter'[s] = Tail(toWriter[s]) /\ txUnacked'[s] = u
  BY <1>0, <1>7 DEF TypeOK, OutboundTypeOK, LinkTypeOK
<1> USE DEF inboundVars
<1>10. /\ txUnacked' \in [Streams -> Nat] /\ txUsed' \in Nat
       /\ txUsed' = PoolUsage(txUnacked')
  BY <1>0, <1>5, <1>7, TxPool, ZenonT(40)
<1>11. TypeOK'
  <2>1. toWriter' \in [Streams -> Seq(Frame)]
    BY <1>0, <1>2, <1>7, ZenonT(40) DEF TypeOK, LinkTypeOK
  <2>2. turns # <<>> => Head(turns) \in Streams
    BY <1>0
  <2>3. awake' \subseteq Streams
    BY <1>0, <1>7, <2>2 DEF TypeOK, OutboundTypeOK, wake_front
  <2>4. error' \in Errors
    BY <1>7 DEF Errors
  <2> QED
    BY <1>0, <1>7, <1>10, <2>1, <2>3, <2>4, ZenonT(40)
    DEF TypeOK, OutboundTypeOK, InboundTypeOK, LinkTypeOK
<1>12. ASSUME NEW t \in Streams
       PROVE  SameData(t) /\ (t # s => UnchangedAt(t))
  BY <1>0, <1>7, ZenonT(40)
  DEF SameData, SameCredit, UnchangedAt, TypeOK, OutboundTypeOK, LinkTypeOK
<1>13. StreamInvAt(s)'
  <2>1. DataInv(s)'
    BY <1>0, <1>7, <1>12, KeepsData, ZenonT(40) DEF StreamInvAt, DataInv
  <2>2. ~inFin[s].sent => Promised(s) = credited(s)
    BY <1>0, ZenonT(40) DEF StreamInvAt, CreditInv
  <2>3. credited(s)' = credited(s) /\ Arrived(s)' = Arrived(s)
    BY <1>7, ZenonT(40) DEF credited, Arrived
  <2>4. Returned(s)' = f.to /\ Promised(s)' = Promised(s)
    <3>1. CASE Tail(toWriter[s]) = <<>>
      BY <1>2, <1>9, <2>2, <2>3, <3>1, ZenonT(40) DEF Returned, Promised
    <3>2. CASE Tail(toWriter[s]) # <<>>
      <4>1. Returned(s)' = f.to
        BY <1>2, <1>9, <3>2, ZenonT(40) DEF Returned
      <4>2. Promised(s)' = toWriter'[s][Len(toWriter'[s])].to
        BY <1>9, <3>2 DEF Promised
      <4> QED
        BY <1>2, <1>9, <3>2, <4>1, <4>2, ZenonT(40)
    <3> QED
      BY <3>1, <3>2
  <2>5. CreditInv(s)'
    BY <1>0, <1>2, <1>5, <1>7, <1>9, <2>3, <2>4, ZenonT(40)
    DEF StreamInvAt, CreditInv
  <2>6. CloseInv(s)'
    BY <1>0, <1>7, ZenonT(40) DEF StreamInvAt, CloseInv
  <2>7. SleepInv(s)'
    <3>1. s \notin awake' => Waiting(s)' = 0
      <4>1. Waiting(s) \in Nat /\ Waiting(s)' = Waiting(s)
        BY <1>0, <1>7, WaitingNat, ZenonT(40) DEF Waiting
      <4> QED
        BY <1>7, <4>1
    <3> QED
      BY <1>0, <1>7, <3>1, ZenonT(40) DEF StreamInvAt, SleepInv, T_c
  <2> QED
    BY <2>1, <2>5, <2>6, <2>7 DEF StreamInvAt
<1>14. StreamInv'
  BY <1>12, <1>13, Unaffected DEF IInv, StreamInv, StreamInvAt
<1>15. NobodyForgotten' /\ NoProtocolError' /\ PoolsInSync'
  BY <1>7, <1>10, ZenonT(40)
  DEF IInv, NobodyForgotten, Waiting, NoProtocolError, PoolsInSync
<1>16. PoolsNotOverdrawn'
  <2>1. ~is_overdrawn(txUsed')
    <3>1. ~is_overdrawn(txUsed) /\ txUsed' \in Nat /\ txUsed' <= txUsed
      BY <1>0, <1>8, <1>10, ZenonT(40) DEF PoolsNotOverdrawn
    <3> QED
      BY <1>4, <3>1, FlowAssumption DEF is_overdrawn
  <2> QED
    BY <1>11, <1>14, <1>15, <2>1, ReceiverCoveredNext, ZenonT(40) DEF is_overdrawn
<1>17. NoLostTurn'
  <2>1. freed => wake_front(turns) \subseteq awake'
    BY <1>7
  <2> QED
    BY <1>7, <1>8, <2>1, FreeKeepsTurn DEF IInv
<1> QED
  BY <1>11, <1>14, <1>15, <1>16, <1>17, ZenonT(40) DEF IInv

\* OutboundTraffic::received_fin_read preserves the invariant.
LEMMA ReceivedFinReadStep ==
  ASSUME PoolLaws, IInv, NEW s \in Streams, received_fin_read(s), UNCHANGED inboundVars
  PROVE  IInv'
<1> DEFINE freed == set_freed(txUnacked[s], 0)
<1>0. /\ TypeOK /\ StreamInvAt(s) /\ turns \in Seq(Streams)
      /\ PoolsInSync /\ PoolsNotOverdrawn
  BY DEF IInv, StreamInv, StreamInvAt, TypeOK, OutboundTypeOK
<1>1. toWriter[s] # <<>> /\ Head(toWriter[s]).fin
  BY ZenonT(40) DEF received_fin_read
<1>2. inFin[s].sent /\ Tail(toWriter[s]) = <<>> /\ ~outFin[s].received
  BY <1>0, <1>1, NextReturn
<1>3. /\ toWriter' = [toWriter EXCEPT ![s] = Tail(@)]
      /\ error' = "none"
      /\ out' = [out EXCEPT ![s] = "closed"]
      /\ outFin' = [outFin EXCEPT ![s].received = TRUE]
      /\ txUnacked' = [txUnacked EXCEPT ![s] = 0]
      /\ txUsed' = set_used(txUsed, txUnacked[s], 0)
      /\ awake' = awake \cup (IF out[s] # "closed" THEN {s} ELSE {})
                        \cup (IF freed THEN wake_front(turns) ELSE {})
      /\ parkedWriters' = IF out[s] # "closed" THEN parkedWriters \ {s} ELSE parkedWriters
      /\ UNCHANGED <<written, sent, turns, toReader>>
  BY <1>2, ZenonT(40) DEF received_fin_read
<1>4. txUnacked[s] \in Nat /\ txUsed \in Nat
  BY <1>0, TypesAt DEF TypeOK, OutboundTypeOK
<1>5. freed \in BOOLEAN /\ txUsed' <= txUsed /\ (~freed => txUsed' = txUsed)
  BY <1>3, <1>4, SetLess DEF set_freed
<1> HIDE DEF freed
<1>6. /\ toWriter'[s] = <<>> /\ txUnacked'[s] = 0 /\ out'[s] = "closed"
      /\ outFin'[s].received = TRUE /\ outFin'[s].sent = outFin[s].sent
  BY <1>0, <1>2, <1>3 DEF TypeOK, OutboundTypeOK, LinkTypeOK, FinState
<1> USE DEF inboundVars
<1>7. /\ txUnacked' \in [Streams -> Nat] /\ txUsed' \in Nat
      /\ txUsed' = PoolUsage(txUnacked')
  BY <1>0, <1>3, TxPool, ZenonT(40)
<1>8. TypeOK'
  <2>1. toWriter' \in [Streams -> Seq(Frame)]
    <3>1. <<>> \in Seq(Frame)
      OBVIOUS
    <3> QED
      BY <1>0, <1>2, <1>3, <3>1, ZenonT(40) DEF TypeOK, LinkTypeOK
  <2>2. turns # <<>> => Head(turns) \in Streams
    BY <1>0
  <2>3. awake' \subseteq Streams /\ parkedWriters' \subseteq Streams
    BY <1>0, <1>3, <2>2 DEF TypeOK, OutboundTypeOK, wake_front
  <2>4. error' \in Errors
    BY <1>3 DEF Errors
  <2>5. outFin' \in [Streams -> FinState]
    BY <1>0, <1>3, ZenonT(40) DEF TypeOK, OutboundTypeOK, FinState
  <2>6. out' \in [Streams -> {"open", "half", "closed"}]
    BY <1>0, <1>3 DEF TypeOK, OutboundTypeOK
  <2> QED
    BY <1>0, <1>3, <1>7, <2>1, <2>3, <2>4, <2>5, <2>6, ZenonT(40)
    DEF TypeOK, OutboundTypeOK, InboundTypeOK, LinkTypeOK
<1>9. ASSUME NEW t \in Streams
      PROVE  SameData(t) /\ (t # s => UnchangedAt(t))
  <2>1. SameData(t)
    BY <1>0, <1>3 DEF SameData, TypeOK, OutboundTypeOK, FinState
  <2>2. t # s => SameCredit(t)
    BY <1>0, <1>3 DEF SameCredit, TypeOK, OutboundTypeOK, LinkTypeOK, FinState
  <2> QED
    BY <1>0, <1>3, <2>1, <2>2, ZenonT(40) DEF UnchangedAt, TypeOK, OutboundTypeOK
<1>10. /\ readTo[s] <= Arrived(s) /\ Arrived(s) <= sent[s] /\ sent[s] <= written[s]
       /\ inb[s] = "closed" /\ credit[s] = 0
  BY <1>0, <1>2, ZenonT(40) DEF StreamInvAt, DataInv, CreditInv, CloseInv, Chain
<1>11. /\ readTo[s] \in Nat /\ Arrived(s) \in Int /\ sent[s] \in Nat /\ written[s] \in Nat
  BY <1>0, TypesAt, PositionsAt, ZenonT(40)
<1>12. StreamInvAt(s)'
  <2>1. DataInv(s)'
    BY <1>0, <1>3, <1>9, KeepsData, ZenonT(40) DEF StreamInvAt, DataInv
  <2>2. /\ credited(s)' = readTo[s] /\ Arrived(s)' = Arrived(s)
        /\ Returned(s)' = readTo[s] /\ Promised(s)' = readTo[s]
    BY <1>3, <1>6, <1>10, <1>11 DEF credited, Arrived, Returned, Promised
  <2>3. CreditInv(s)'
    <3>1. Chain(<<>>, readTo[s], readTo[s]) /\ FinLast(<<>>, inFin[s].sent)
      <4>1. readTo[s] \in Int
        BY <1>11
      <4> QED
        BY <4>1, EmptyChain, ZenonT(40)
    <3>2. readTo[s] <= sent[s]
      BY <1>10, <1>11
    <3>3. /\ credit[s] <= readTo[s] /\ rxUnacked[s] = 0
      BY <1>0, <1>2, ZenonT(40) DEF StreamInvAt, CreditInv
    <3> QED
      BY <1>2, <1>3, <1>6, <1>10, <2>2, <3>1, <3>2, <3>3, ZenonT(40) DEF CreditInv
  <2>4. CloseInv(s)'
    <3>1. reader[s] # "dropped" => readTo[s] = written[s]
      BY <1>0, <1>10, ZenonT(40) DEF StreamInvAt, CloseInv
    <3>2. reader[s] # "dropped" => sent[s] = written[s]
      BY <1>10, <1>11, <3>1
    <3> QED
      BY <1>0, <1>3, <1>6, <3>2, ZenonT(40) DEF StreamInvAt, CloseInv
  <2>5. SleepInv(s)'
    BY <1>0, <1>3, <1>6 DEF StreamInvAt, SleepInv, T_c, Waiting
  <2> QED
    BY <2>1, <2>3, <2>4, <2>5 DEF StreamInvAt
<1>13. StreamInv'
  BY <1>9, <1>12, Unaffected DEF IInv, StreamInv, StreamInvAt
<1>14. NobodyForgotten'
  <2>1. ASSUME NEW t \in parkedWriters' PROVE Waiting(t)' > 0
    <3>1. t \in Streams /\ Waiting(t) > 0
      BY <1>0, <1>3, <2>1 DEF IInv, NobodyForgotten, TypeOK, OutboundTypeOK
    <3>2. t # s
      BY <1>3, <2>1, <3>1 DEF Waiting
    <3> QED
      BY <1>9, <3>1, <3>2 DEF Waiting, UnchangedAt, SameData
  <2> QED
    BY <2>1, ZenonT(40) DEF IInv, NobodyForgotten
<1>15. NoProtocolError' /\ PoolsInSync'
  BY <1>3, <1>7 DEF IInv, NoProtocolError, PoolsInSync
<1>16. PoolsNotOverdrawn'
  <2>1. ~is_overdrawn(txUsed')
    BY <1>0, <1>4, <1>5, <1>7, FlowAssumption DEF PoolsNotOverdrawn, is_overdrawn
  <2> QED
    BY <1>8, <1>13, <1>15, <2>1, ReceiverCoveredNext, ZenonT(40) DEF is_overdrawn
<1>17. NoLostTurn'
  <2>1. freed => wake_front(turns) \subseteq awake'
    BY <1>3
  <2> QED
    BY <1>3, <1>5, <2>1, FreeKeepsTurn DEF IInv
<1> QED
  BY <1>8, <1>13, <1>14, <1>15, <1>16, <1>17 DEF IInv
=============================================================================
