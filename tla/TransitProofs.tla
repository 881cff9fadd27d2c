--------------------------- MODULE TransitProofs ---------------------------
(***************************************************************************)
(* The correctness of Transit, for any number of streams, any base window, *)
(* pool, frame limit and allowances: the sum that the pool's counter       *)
(* stands for, the invariant and what follows from it, the refinement of   *)
(* Pipes, the order of turns, and the memory of the receiver.              *)
(***************************************************************************)
EXTENDS ReceiverProofs, FiniteSetTheorems

\* The provers of a leaf that names none, in the order they are tried.
USE SMTT(40), ZenonT(20), SMTT(45)

-----------------------------------------------------------------------------
(* The running sum `pool.used' and the sum it stands for.                  *)

\* The bytes borrowed by one stream, and by all the others.
Own(u, s)    == {s} \X (1 .. borrowed_at(u[s]))
Others(u, s) == UNION {{t} \X (1 .. borrowed_at(u[t])) : t \in Streams \ {s}}

\* borrowed_at is a natural number, and never decreases as its argument grows
\* ("`max(0, x - B)` never decreases as `x` grows", TRANSIT_CONTROL.md).
LEMMA BorrowedAt ==
  /\ \A x \in Nat : borrowed_at(x) \in Nat
  /\ \A x, y \in Nat : x <= y => borrowed_at(x) <= borrowed_at(y)
BY FlowAssumption DEF borrowed_at, SaturatingSub

\* One stream borrows as many bytes as borrowed_at says.
LEMMA OwnCardinality ==
  ASSUME NEW u \in [Streams -> Nat], NEW s \in Streams
  PROVE  IsFiniteSet(Own(u, s)) /\ Cardinality(Own(u, s)) = borrowed_at(u[s])
<1> DEFINE n == borrowed_at(u[s])
<1>1. n \in Nat
  BY BorrowedAt
<1>2. IsFiniteSet(1 .. n) /\ Cardinality(1 .. n) = n
  BY <1>1, FS_Interval
<1>3. IsFiniteSet({s}) /\ Cardinality({s}) = 1
  BY FS_Singleton, ZenonT(40)
<1> HIDE DEF n
<1>4. /\ IsFiniteSet({s} \X (1 .. n))
      /\ Cardinality({s} \X (1 .. n)) = Cardinality({s}) * Cardinality(1 .. n)
  <2> DEFINE S == {s}
             T == 1 .. n
  <2>1. IsFiniteSet(S) /\ IsFiniteSet(T)
    BY <1>2, <1>3
  <2> HIDE DEF S, T
  <2>2. IsFiniteSet(S \X T) /\ Cardinality(S \X T) = Cardinality(S) * Cardinality(T)
    BY <2>1, FS_Product
  <2> QED
    BY <2>2 DEF S, T
<1>5. Cardinality({s} \X (1 .. n)) = n
  BY <1>1, <1>2, <1>3, <1>4
<1> QED
  BY <1>4, <1>5 DEF Own, n

\* What the other streams borrow is finite, and apart from what `s' borrows.
LEMMA OthersFinite ==
  ASSUME NEW u \in [Streams -> Nat], NEW s \in Streams
  PROVE  /\ IsFiniteSet(Others(u, s))
         /\ Others(u, s) \cap Own(u, s) = {}
         /\ BorrowedBytes(u) = Others(u, s) \cup Own(u, s)
<1> DEFINE F == [t \in Streams \ {s} |-> Own(u, t)]
           R == {Own(u, t) : t \in Streams \ {s}}
<1>1. IsFiniteSet(Streams \ {s})
  BY FlowAssumption, FS_RemoveElement
<1>2. F \in Surjection(Streams \ {s}, R)
  BY DEF Surjection
<1>3. IsFiniteSet(R)
  BY <1>1, <1>2, FS_Surjection
<1>4. \A T \in R : IsFiniteSet(T)
  BY OwnCardinality
<1>5. IsFiniteSet(UNION R)
  BY <1>3, <1>4, FS_UNION
<1>6. UNION R = Others(u, s)
  BY DEF Own, Others
<1>7. Others(u, s) \cap Own(u, s) = {}
  BY DEF Own, Others
<1>8. BorrowedBytes(u) = Others(u, s) \cup Own(u, s)
  BY DEF Own, Others, BorrowedBytes
<1> QED
  BY <1>5, <1>6, <1>7, <1>8, ZenonT(40)

\* The sum, split at one stream.
LEMMA PoolUsageSplit ==
  ASSUME NEW u \in [Streams -> Nat], NEW s \in Streams
  PROVE  /\ IsFiniteSet(BorrowedBytes(u))
         /\ Cardinality(Others(u, s)) \in Nat
         /\ PoolUsage(u) = Cardinality(Others(u, s)) + borrowed_at(u[s])
<1>1. /\ IsFiniteSet(Others(u, s) \cup Own(u, s))
      /\ Cardinality(Others(u, s) \cup Own(u, s)) =
           Cardinality(Others(u, s)) + Cardinality(Own(u, s))
             - Cardinality(Others(u, s) \cap Own(u, s))
  BY OthersFinite, OwnCardinality, FS_Union
<1>2. Cardinality(Others(u, s) \cap Own(u, s)) = 0
  BY OthersFinite, FS_EmptySet
<1>3. Cardinality(Others(u, s)) \in Nat
  BY OthersFinite, FS_CardinalityType
<1>4. borrowed_at(u[s]) \in Nat
  BY BorrowedAt
<1>5. BorrowedBytes(u) = Others(u, s) \cup Own(u, s)
  BY OthersFinite
<1>6. Cardinality(Own(u, s)) = borrowed_at(u[s])
  BY OwnCardinality
<1>7. PoolUsage(u) = Cardinality(Others(u, s) \cup Own(u, s))
  BY <1>5 DEF PoolUsage
<1>8. PoolUsage(u) = Cardinality(Others(u, s)) + borrowed_at(u[s])
  BY <1>1, <1>2, <1>3, <1>4, <1>6, <1>7
<1> QED
  BY <1>1, <1>3, <1>5, <1>8

\* Window::set keeps the sum: `used - old + new' is the sum for the new window,
\* and `used - old' does not underflow.
THEOREM PoolUsageSet ==
  ASSUME NEW u \in [Streams -> Nat], NEW s \in Streams, NEW n \in Nat
  PROVE  /\ PoolUsage([u EXCEPT ![s] = n]) = set_used(PoolUsage(u), u[s], n)
         /\ PoolUsage(u) - borrowed_at(u[s]) \in Nat
         /\ PoolUsage(u) \in Nat
<1> DEFINE v == [u EXCEPT ![s] = n]
<1>1. v \in [Streams -> Nat] /\ v[s] = n /\ \A t \in Streams \ {s} : v[t] = u[t]
  OBVIOUS
<1>2. Others(v, s) = Others(u, s)
  BY <1>1 DEF Others
<1> HIDE DEF v
<1>3. PoolUsage(u) = Cardinality(Others(u, s)) + borrowed_at(u[s])
  BY PoolUsageSplit
<1>4. PoolUsage(v) = Cardinality(Others(u, s)) + borrowed_at(n)
  BY <1>1, <1>2, PoolUsageSplit
<1>5. Cardinality(Others(u, s)) \in Nat /\ borrowed_at(u[s]) \in Nat
      /\ borrowed_at(n) \in Nat
  BY PoolUsageSplit, BorrowedAt
<1>6. PoolUsage(v) = set_used(PoolUsage(u), u[s], n)
  BY <1>3, <1>4, <1>5 DEF set_used
<1> QED
  BY <1>3, <1>5, <1>6 DEF v

\* Smaller windows use less of the pool.
THEOREM PoolUsageMonotone ==
  ASSUME NEW u \in [Streams -> Nat], NEW v \in [Streams -> Nat],
         \A s \in Streams : u[s] <= v[s]
  PROVE  PoolUsage(u) <= PoolUsage(v)
<1>1. CASE Streams = {}
  <2>1. BorrowedBytes(u) = {} /\ BorrowedBytes(v) = {}
    BY <1>1 DEF BorrowedBytes
  <2> QED
    BY <2>1, FS_EmptySet DEF PoolUsage
<1>2. CASE Streams # {}
  <2>1. PICK s \in Streams : TRUE
    BY <1>2
  <2>2. IsFiniteSet(BorrowedBytes(v))
    BY <2>1, PoolUsageSplit
  <2>3. ASSUME NEW t \in Streams
        PROVE  1 .. borrowed_at(u[t]) \subseteq 1 .. borrowed_at(v[t])
    BY BorrowedAt
  <2>4. BorrowedBytes(u) \subseteq BorrowedBytes(v)
    BY <2>3 DEF BorrowedBytes
  <2> QED
    BY <2>2, <2>4, FS_Subset DEF PoolUsage
<1> QED
  BY <1>1, <1>2

\* Nothing in flight, nothing borrowed.
LEMMA PoolUsageInit ==
  PoolUsage([s \in Streams |-> 0]) = 0
<1>1. \A s \in Streams : 1 .. borrowed_at([t \in Streams |-> 0][s]) = {}
  BY FlowAssumption DEF borrowed_at, SaturatingSub
<1>2. BorrowedBytes([s \in Streams |-> 0]) = {}
  BY <1>1 DEF BorrowedBytes
<1> QED
  BY <1>2, FS_EmptySet DEF PoolUsage

-----------------------------------------------------------------------------
(* The invariant.                                                          *)

\* Every step preserves the invariant.
LEMMA NextIInv ==
  ASSUME PoolLaws, IInv, [Next]_vars
  PROVE  IInv'
<1>1. CASE UNCHANGED vars
  <2> USE <1>1 DEF vars, outboundVars, inboundVars, linkVars
  <2>1. TypeOK'
    BY DEF IInv, TypeOK, OutboundTypeOK, InboundTypeOK, LinkTypeOK
  <2>2. ASSUME NEW t \in Streams PROVE UnchangedAt(t)
    BY DEF SameData, SameCredit, UnchangedAt
  <2>3. StreamInv'
    BY <2>2, Unaffected DEF IInv, StreamInv, StreamInvAt
  <2>4. NobodyForgotten'
    BY DEF IInv, NobodyForgotten, Waiting
  <2>5. NoProtocolError' /\ PoolsInSync' /\ PoolsNotOverdrawn' /\ NoLostTurn'
    BY DEF IInv, NoProtocolError, PoolsInSync, PoolsNotOverdrawn, NoLostTurn
  <2> QED
    BY <2>1, <2>3, <2>4, <2>5 DEF IInv
<1>2. CASE Next
  <2> PICK s \in Streams :
         \/ Writer(s) \/ Reader(s) \/ PollOutbound(s) \/ PollInbound(s)
         \/ ReceiveAtWriter(s) \/ ReceiveAtReader(s)
    BY <1>2 DEF Next
  <2>1. CASE Writer(s)
    BY <2>1, WriteStep, ParkWriterStep, CloseWritingStep DEF Writer
  <2>2. CASE Reader(s)
    BY <2>2, ReadPendingStep, ReadChunkStep, ReadEndStep, CloseReadingStep
    DEF Reader
  <2>3. CASE PollOutbound(s)
    BY <2>3, PollIdleStep, PollBlockedStep, PollDataStep, PollFinWriteStep
    DEF PollOutbound
  <2>4. CASE PollInbound(s)
    BY <2>4, PollInboundIdleStep, PollCreditStep, PollFinReadStep DEF PollInbound
  <2>5. CASE ReceiveAtWriter(s)
    BY <2>5, ReceivedWindowUpdateStep, ReceivedFinReadStep DEF ReceiveAtWriter
  <2>6. CASE ReceiveAtReader(s)
    BY <2>6, ReceivedStep DEF ReceiveAtReader
  <2> QED
    BY <2>1, <2>2, <2>3, <2>4, <2>5, <2>6
<1> QED
  BY <1>1, <1>2

\* The sums of flow.rs behave as the steps need it.
LEMMA PoolLawsHold == PoolLaws
BY PoolUsageSet, PoolUsageMonotone, PoolUsageInit, ZenonT(40) DEF PoolLaws

\* The invariant holds in every state two peers that follow the code can reach.
THEOREM TransitInvariant == Spec => []IInv
<1>1. Init => IInv
  BY InitIInv, PoolLawsHold, ZenonT(40)
<1>2. IInv /\ [Next]_vars => IInv'
  BY NextIInv, PoolLawsHold, ZenonT(40)
<1> QED
  BY <1>1, <1>2, PTL DEF Spec

\* Every variable keeps its type: no counter of flow.rs, outbound.rs or
\* inbound.rs goes below zero.
THEOREM TypeCorrect == Spec => []TypeOK
<1>1. IInv => TypeOK
  BY ZenonT(40) DEF IInv
<1> QED
  BY <1>1, TransitInvariant, PTL

\* Two peers that follow the code never raise a StreamError: not for the pool,
\* not for credit, and not for anything after a FIN.
THEOREM ProtocolKept == Spec => []NoProtocolError
<1>1. IInv => NoProtocolError
  BY ZenonT(40) DEF IInv
<1> QED
  BY <1>1, TransitInvariant, PTL

\* The sender's count of unacknowledged bytes is never below the receiver's.
THEOREM SenderCounts == Spec => []SenderNeverSmaller
<1>1. IInv => SenderNeverSmaller
  BY NeverSmaller DEF IInv
<1> QED
  BY <1>1, TransitInvariant, PTL

\* Both pools equal the sum of what their streams borrow, after every
\* Window::set.
THEOREM PoolsExact == Spec => []PoolsInSync
<1>1. IInv => PoolsInSync
  BY ZenonT(40) DEF IInv
<1> QED
  BY <1>1, TransitInvariant, PTL

\* Neither pool is ever overdrawn: what plan takes fits the sender's pool, and
\* the receiver's pool never holds more than the sender's.
THEOREM PoolsBounded == Spec => []PoolsNotOverdrawn
<1>1. IInv => PoolsNotOverdrawn
  BY ZenonT(40) DEF IInv
<1> QED
  BY <1>1, TransitInvariant, PTL

\* No turn is lost, however plan, pass_turn, credit and FIN_READ interleave.
THEOREM TurnsKept == Spec => []NoLostTurn
<1>1. IInv => NoLostTurn
  BY ZenonT(40) DEF IInv
<1> QED
  BY <1>1, TransitInvariant, PTL

\* No application is left waiting for a wake-up that already happened.
THEOREM WaitersKept == Spec => []NobodyForgotten
<1>1. IInv => NobodyForgotten
  BY ZenonT(40) DEF IInv
<1> QED
  BY <1>1, TransitInvariant, PTL

\* The next unread chunk starts where the reader is.
THEOREM InOrder == Spec => []ReadsInOrder
<1>1. IInv => ReadsInOrder
  BY InvReads
<1> QED
  BY <1>1, TransitInvariant, PTL

\* A reader that saw the end read everything that was written.
THEOREM Complete == Spec => []EndIsComplete
<1>1. IInv => EndIsComplete
  BY InvEnd
<1> QED
  BY <1>1, TransitInvariant, PTL

\* Credit never deadlocks: a sleeping stream with data has a full base window,
\* and if nothing were under way to it the reader would hold back less than
\* T_c <= B of credit, which contradicts a full window.
THEOREM CreditFlows == Spec => []NoCreditDeadlock
<1>1. IInv => NoCreditDeadlock
  BY InvCredit
<1> QED
  BY <1>1, TransitInvariant, PTL

-----------------------------------------------------------------------------
(* What the applications see.                                              *)

\* A step that neither writes, reads nor closes for an application shows
\* nothing of itself to them.
LEMMA SamePipe ==
  ASSUME written' = written, readTo' = readTo, reader' = reader,
         \A t \in Streams : out'[t] = "open" <=> out[t] = "open"
  PROVE  UNCHANGED <<written, WriterEnd, readTo, reader>>
<1>1. ASSUME NEW t \in Streams PROVE WriterEnd'[t] = WriterEnd[t]
  BY DEF WriterEnd
<1>2. WriterEnd' = WriterEnd
  BY <1>1 DEF WriterEnd
<1> QED
  BY <1>2

\* RammuxSink::start_send, and closing by the application or by FIN_READ.
LEMMA WriterPipe ==
  ASSUME IInv, NEW s \in Streams, UNCHANGED <<readTo, reader>>,
         \/ \E n \in 1 .. MaxWritten : write(s, n)
         \/ /\ written' = written
            /\ \E e \in {"half", "closed"} : out' = [out EXCEPT ![s] = e]
  PROVE  [Ends!Next]_<<written, WriterEnd, readTo, reader>>
<1>1. out \in [Streams -> {"open", "half", "closed"}]
  BY DEF IInv, TypeOK, OutboundTypeOK
<1>2. CASE \E n \in 1 .. MaxWritten : write(s, n)
  <2>1. PICK n \in 1 .. MaxWritten : write(s, n)
    BY <1>2
  <2>2. /\ out[s] = "open" /\ out' = out
        /\ written' = [written EXCEPT ![s] = @ + n]
    BY <2>1 DEF write
  <2>3. WriterEnd[s] = "open" /\ WriterEnd' = WriterEnd
    BY <2>2 DEF WriterEnd
  <2>4. Ends!Write(s, n)
    BY <2>2, <2>3 DEF Ends!Write
  <2> QED
    BY <2>4 DEF Ends!Next
<1>3. CASE /\ written' = written
           /\ \E e \in {"half", "closed"} : out' = [out EXCEPT ![s] = e]
  <2>1. PICK e \in {"half", "closed"} : out' = [out EXCEPT ![s] = e]
    BY <1>3, ZenonT(40)
  <2>2. CASE out[s] = "open"
    <3>1. WriterEnd[s] = "open"
      BY <2>2 DEF WriterEnd
    <3>2. WriterEnd' = [WriterEnd EXCEPT ![s] = "closed"]
      BY <1>1, <2>1, ZenonT(40) DEF WriterEnd
    <3>3. Ends!Close(s)
      BY <1>3, <3>1, <3>2 DEF Ends!Close
    <3> QED
      BY <3>3 DEF Ends!Next
  <2>3. CASE out[s] # "open"
    <3>1. \A t \in Streams : out'[t] = "open" <=> out[t] = "open"
      BY <1>1, <2>1, <2>3
    <3> QED
      BY <1>3, <3>1, SamePipe
  <2> QED
    BY <2>2, <2>3
<1> QED
  BY <1>2, <1>3

\* A chunk that is read starts at the reader and ends within what was written.
LEMMA ReadPipe ==
  ASSUME IInv, NEW s \in Streams, read_chunk(s), UNCHANGED outboundVars
  PROVE  [Ends!Next]_<<written, WriterEnd, readTo, reader>>
<1>1. /\ reader[s] = "held" /\ inb[s] # "closed" /\ unread[s] # <<>>
      /\ readTo' = [readTo EXCEPT ![s] = Head(unread[s]).to]
      /\ reader' = reader
  BY DEF read_chunk
<1>2. TypeOK /\ DataInv(s)
  BY ZenonT(40) DEF IInv, StreamInv
<1>3. /\ unread[s] \in Seq(Frame) /\ readTo[s] \in Nat /\ written[s] \in Nat
      /\ sent[s] \in Nat /\ Arrived(s) \in Int
  BY <1>2, TypesAt, PositionsAt, ZenonT(40)
<1>4. Head(unread[s]) = unread[s][1] /\ 1 \in 1 .. Len(unread[s])
  BY <1>1, <1>3, TailFacts, ZenonT(40)
<1>5. unread[s][1].from \in Nat /\ unread[s][1].to \in Nat
  BY <1>3, <1>4, FramesFields, ZenonT(40)
<1>6. /\ readTo[s] <= unread[s][1].from /\ unread[s][1].from <= unread[s][1].to
      /\ unread[s][1].to <= Arrived(s) /\ Arrived(s) <= sent[s]
      /\ sent[s] <= written[s]
  BY <1>1, <1>2, <1>4, ZenonT(40) DEF DataInv, Chain
<1>7. unread[s][1].to \in readTo[s] .. written[s]
  BY <1>3, <1>5, <1>6
<1>8. written' = written /\ WriterEnd' = WriterEnd
  BY DEF outboundVars, WriterEnd
<1>9. Ends!Read(s, unread[s][1].to)
  BY <1>1, <1>4, <1>8 DEF Ends!Read
<1> QED
  BY <1>7, <1>9 DEF Ends!Next

\* RammuxStream returns None only after the last byte, and its drop ends it at
\* any time.
LEMMA EndPipe ==
  ASSUME IInv, NEW s \in Streams, read_end(s) \/ close_reading(s),
         UNCHANGED outboundVars
  PROVE  [Ends!Next]_<<written, WriterEnd, readTo, reader>>
<1>1. written' = written /\ WriterEnd' = WriterEnd
  BY DEF outboundVars, WriterEnd
<1>2. CASE close_reading(s)
  <2>1. Ends!Drop(s)
    BY <1>1, <1>2, ZenonT(40) DEF close_reading, Ends!Drop
  <2> QED
    BY <2>1 DEF Ends!Next
<1>3. CASE read_end(s)
  <2>1. DataInv(s) /\ CloseInv(s)
    BY ZenonT(40) DEF IInv, StreamInv
  <2>2. /\ reader[s] = "held" /\ inb[s] = "closed"
        /\ reader' = [reader EXCEPT ![s] = "ended"] /\ readTo' = readTo
    BY <1>3, ZenonT(40) DEF read_end
  <2>3. reader[s] # "dropped"
    BY <2>2
  <2>4. inFin[s].received /\ readTo[s] = written[s]
    BY <2>1, <2>2, <2>3, ZenonT(40) DEF CloseInv
  <2>5. out[s] = "closed"
    BY <2>1, <2>4, ZenonT(40) DEF DataInv, CloseInv, after_fin_write
  <2>6. WriterEnd[s] = "closed"
    BY <2>5 DEF WriterEnd
  <2>7. Ends!End(s)
    BY <1>1, <2>2, <2>4, <2>6, ZenonT(40) DEF Ends!End
  <2> QED
    BY <2>7 DEF Ends!Next
<1> QED
  BY <1>2, <1>3

\* Every step is a step of the pipes, or shows nothing to the applications.
LEMMA NextPipe ==
  ASSUME IInv, [Next]_vars
  PROVE  [Ends!Next]_<<written, WriterEnd, readTo, reader>>
<1>1. out \in [Streams -> {"open", "half", "closed"}]
  BY DEF IInv, TypeOK, OutboundTypeOK
<1>2. ASSUME UNCHANGED <<written, out, readTo, reader>>
      PROVE  [Ends!Next]_<<written, WriterEnd, readTo, reader>>
  BY <1>2, SamePipe
<1>3. CASE UNCHANGED vars
  BY <1>2, <1>3 DEF vars, outboundVars, inboundVars
<1>4. CASE Next
  <2> PICK s \in Streams :
         \/ Writer(s) \/ Reader(s) \/ PollOutbound(s) \/ PollInbound(s)
         \/ ReceiveAtWriter(s) \/ ReceiveAtReader(s)
    BY <1>4 DEF Next
  <2>1. ASSUME UNCHANGED <<written, readTo, reader>>,
               NEW e \in {"half", "closed"}, out' = [out EXCEPT ![s] = e]
        PROVE  [Ends!Next]_<<written, WriterEnd, readTo, reader>>
    BY <2>1, WriterPipe, ZenonT(40)
  <2>2. CASE Writer(s)
    <3>1. UNCHANGED <<readTo, reader>>
      BY <2>2, ZenonT(40) DEF Writer, inboundVars
    <3>2. CASE \E n \in 1 .. MaxWritten : write(s, n)
      BY <3>1, <3>2, WriterPipe, ZenonT(40)
    <3>3. CASE park_writer(s)
      BY <1>2, <3>1, <3>3, ZenonT(40) DEF park_writer
    <3>4. CASE \E waits \in BOOLEAN : close_writing(s, waits)
      <4>1. /\ written' = written
            /\ out' = [out EXCEPT ![s] = "closed"] \/ out' = [out EXCEPT ![s] = "half"]
        BY <3>4, ZenonT(40) DEF close_writing
      <4> QED
        BY <2>1, <3>1, <4>1, ZenonT(40)
    <3> QED
      BY <2>2, <3>2, <3>3, <3>4, ZenonT(40) DEF Writer
  <2>3. CASE Reader(s)
    <3>1. UNCHANGED outboundVars /\ UNCHANGED <<written, out>>
      BY <2>3, ZenonT(40) DEF Reader, outboundVars
    <3>2. CASE read_pending(s)
      BY <1>2, <3>1, <3>2, ZenonT(40) DEF read_pending
    <3> QED
      BY <2>3, <3>1, <3>2, ReadPipe, EndPipe, ZenonT(40) DEF Reader
  <2>4. CASE PollOutbound(s)
    <3>1. UNCHANGED <<readTo, reader>>
      BY <2>4, ZenonT(40) DEF PollOutbound, inboundVars
    <3>2. CASE UNCHANGED <<written, out>>
      BY <1>2, <3>1, <3>2, ZenonT(40)
    <3>3. ASSUME NEW allowance \in Allowances, NEW breaks \in BOOLEAN,
                 poll_data(s, allowance, breaks)
          PROVE  [Ends!Next]_<<written, WriterEnd, readTo, reader>>
      <4>1. /\ written' = written
            /\ \/ out' = [out EXCEPT ![s] = "closed"]
               \/ out' = [out EXCEPT ![s] = @]
        BY <3>3, ZenonT(40) DEF poll_data
      <4>2. [out EXCEPT ![s] = @] = out
        BY <1>1
      <4> QED
        BY <2>1, <3>1, <3>2, <4>1, <4>2, ZenonT(40)
    <3>4. poll_idle(s) => UNCHANGED <<written, out>>
      BY ZenonT(40) DEF poll_idle
    <3>5. \A allowance \in Allowances : poll_blocked(s, allowance) => UNCHANGED <<written, out>>
      BY ZenonT(40) DEF poll_blocked
    <3>6. \A breaks \in BOOLEAN : poll_fin_write(s, breaks) => UNCHANGED <<written, out>>
      BY ZenonT(40) DEF poll_fin_write
    <3> QED
      BY <2>4, <3>2, <3>3, <3>4, <3>5, <3>6, ZenonT(40) DEF PollOutbound
  <2>5. CASE PollInbound(s) \/ ReceiveAtReader(s)
    <3>1. UNCHANGED <<written, out>>
      BY <2>5, ZenonT(40) DEF PollInbound, ReceiveAtReader, outboundVars
    <3>2. UNCHANGED <<readTo, reader>>
      BY <2>5, ZenonT(40) DEF PollInbound, ReceiveAtReader, poll_inbound_idle,
                              poll_credit, poll_fin_read, received
    <3> QED
      BY <1>2, <3>1, <3>2, ZenonT(40)
  <2>6. CASE ReceiveAtWriter(s)
    <3>1. UNCHANGED <<written, readTo, reader>>
      BY <2>6, ZenonT(40) DEF ReceiveAtWriter, inboundVars, received_window_update,
                              received_fin_read
    <3>2. out' = out \/ out' = [out EXCEPT ![s] = "closed"]
      BY <2>6, ZenonT(40) DEF ReceiveAtWriter, received_window_update, received_fin_read
    <3> QED
      BY <1>2, <2>1, <3>1, <3>2, ZenonT(40)
  <2> QED
    BY <2>2, <2>3, <2>4, <2>5, <2>6
<1> QED
  BY <1>3, <1>4

\* One direction of a connection implements a pipe for every stream: the
\* refinement that the invariant is for.
THEOREM PipesImplemented == Spec => ImplementsPipes
<1>1. Init => Ends!Init
  <2> SUFFICES ASSUME Init PROVE Ends!Init
    OBVIOUS
  <2>1. WriterEnd = [s \in Streams |-> "open"]
    BY DEF Init, OutboundInit, WriterEnd
  <2> QED
    BY <2>1 DEF Init, OutboundInit, InboundInit, Ends!Init
<1>2. IInv /\ [Next]_vars => [Ends!Next]_(Ends!vars)
  BY NextPipe DEF Ends!vars
<1> QED
  BY <1>1, <1>2, TransitInvariant, PTL DEF Spec, ImplementsPipes, Ends!Spec

-----------------------------------------------------------------------------
(* The order of the turn queue (src/stream/turns.rs): free room never lets *)
(* a stream skip it.  Besides the invariant this needs that a stream is    *)
(* never in the queue twice.                                               *)

Distinct(q) == \A i, j \in 1 .. Len(q) : q[i] = q[j] => i = j

\* The step that TurnsInOrder allows.
StepInOrder ==
  \A s \in Streams :
    /\ Borrows(s) => turns = <<>> \/ Head(turns) = s
    /\ \A t \in Streams \ {s} :
         /\ Before(turns, s, t)
         /\ Before(turns', t, s)
         => Borrows(s)

-----------------------------------------------------------------------------
(* The queue.                                                              *)

\* PinList::remove takes the stream out and keeps the order of the others.
LEMMA LeaveOrder ==
  ASSUME NEW q \in Seq(Streams), NEW s \in Streams, Distinct(q)
  PROVE  /\ Distinct(leave(q, s))
         /\ ~InQueue(leave(q, s), s)
         /\ \A a, b \in Streams : Before(leave(q, s), a, b) => Before(q, a, b)
<1>1. CASE ~InQueue(q, s)
  BY <1>1 DEF leave
<1>2. CASE InQueue(q, s)
  <2>1. PICK k \in 1 .. Len(q) :
           /\ q[k] = s
           /\ leave(q, s) = [i \in 1 .. Len(q) - 1 |-> IF i < k THEN q[i] ELSE q[i + 1]]
    BY <1>2, ZenonT(40) DEF leave, InQueue
  <2>2. PICK r : r = leave(q, s)
    BY ZenonT(40)
  <2>3. Len(q) \in Nat /\ Len(q) >= 1
    BY <2>1
  <2>4. /\ Len(r) = Len(q) - 1
        /\ \A i \in 1 .. Len(r) :
             /\ i < k => i \in 1 .. Len(q) /\ r[i] = q[i]
             /\ ~(i < k) => i + 1 \in 1 .. Len(q) /\ r[i] = q[i + 1]
    BY <2>1, <2>2, <2>3
  <2>5. Distinct(r)
    BY <2>3, <2>4 DEF Distinct
  <2>6. ~InQueue(r, s)
    BY <2>1, <2>3, <2>4 DEF Distinct, InQueue
  <2>7. ASSUME NEW a \in Streams, NEW b \in Streams, Before(r, a, b)
        PROVE  Before(q, a, b)
    <3>1. PICK i, j \in 1 .. Len(r) : i < j /\ r[i] = a /\ r[j] = b
      BY <2>7 DEF Before
    <3>2. PICK m, n \in 1 .. Len(q) : m < n /\ q[m] = a /\ q[n] = b
      BY <2>3, <2>4, <3>1
    <3> QED
      BY <3>2 DEF Before
  <2> QED
    BY <2>2, <2>5, <2>6, <2>7
<1> QED
  BY <1>1, <1>2

\* A stream that joins goes behind all others.
LEMMA JoinOrder ==
  ASSUME NEW q \in Seq(Streams), NEW s \in Streams, Distinct(q)
  PROVE  /\ Distinct(join(q, s))
         /\ \A a, b \in Streams : Before(join(q, s), a, b) =>
               Before(q, a, b) \/ (b = s /\ ~InQueue(q, s))
<1>1. CASE InQueue(q, s)
  BY <1>1 DEF join
<1>2. CASE ~InQueue(q, s)
  <2>1. PICK r : r = Append(q, s)
    BY ZenonT(40)
  <2>2. /\ Len(q) \in Nat /\ Len(r) = Len(q) + 1
        /\ \A i \in 1 .. Len(q) : r[i] = q[i]
        /\ r[Len(q) + 1] = s
    BY <2>1
  <2>3. \A i \in 1 .. Len(q) : q[i] # s
    BY <1>2 DEF InQueue
  <2>4. \A i \in 1 .. Len(r) : i \in 1 .. Len(q) \/ i = Len(q) + 1
    BY <2>2
  <2>5. Distinct(r)
    BY <2>2, <2>3, <2>4 DEF Distinct
  <2>6. ASSUME NEW a \in Streams, NEW b \in Streams, Before(r, a, b), b # s
        PROVE  Before(q, a, b)
    <3>1. PICK i, j \in 1 .. Len(r) : i < j /\ r[i] = a /\ r[j] = b
      BY <2>6 DEF Before
    <3>2. i \in 1 .. Len(q) /\ j \in 1 .. Len(q)
      BY <2>2, <2>4, <2>6, <3>1
    <3>3. q[i] = a /\ q[j] = b
      BY <2>2, <3>1, <3>2
    <3> QED
      BY <3>1, <3>2, <3>3 DEF Before
  <2> QED
    BY <1>2, <2>1, <2>5, <2>6 DEF join
<1> QED
  BY <1>1, <1>2

\* No two streams are both before each other.
LEMMA OneOrder ==
  ASSUME NEW q \in Seq(Streams), Distinct(q), NEW a, NEW b, Before(q, a, b)
  PROVE  ~Before(q, b, a)
BY DEF Before, Distinct

-----------------------------------------------------------------------------
(* The steps.                                                              *)

\* A step keeps the order if only `s' may borrow, and then has the turn, and
\* if nobody gets ahead of anyone but of `s', when it borrows or is new.
LEMMA KeepsOrder ==
  ASSUME turns \in Seq(Streams), Distinct(turns), NEW s \in Streams,
         \A t \in Streams : Borrows(t) => t = s /\ has_turn(s),
         \A a, b \in Streams : Before(turns', a, b) =>
            \/ Before(turns, a, b)
            \/ b = s /\ (Borrows(s) \/ ~InQueue(turns, s))
  PROVE  StepInOrder
<1>1. ASSUME NEW t \in Streams, Borrows(t)
      PROVE  turns = <<>> \/ Head(turns) = t
  BY <1>1 DEF has_turn
<1>2. ASSUME NEW a \in Streams, NEW b \in Streams \ {a},
             Before(turns, a, b), Before(turns', b, a)
      PROVE  Borrows(a)
  <2>1. ~Before(turns, b, a)
    BY <1>2, OneOrder
  <2>2. InQueue(turns, a)
    BY <1>2 DEF Before, InQueue
  <2> QED
    BY <1>2, <2>1, <2>2
<1> QED
  BY <1>1, <1>2 DEF StepInOrder

\* Nobody borrows if no count of bytes in flight grows.
LEMMA NoneBorrows ==
  ASSUME TypeOK, TypeOK',
         \A t \in Streams : txUnacked'[t] <= txUnacked[t]
  PROVE  \A t \in Streams : ~Borrows(t)
<1> SUFFICES ASSUME NEW t \in Streams PROVE ~Borrows(t)
  OBVIOUS
<1>1. txUnacked[t] \in Nat /\ txUnacked'[t] \in Nat
  BY DEF TypeOK, OutboundTypeOK
<1> QED
  BY <1>1, FlowAssumption DEF Borrows, borrowed_at, SaturatingSub

\* Steps of the writer, of the reader and of arriving frames leave the queue
\* alone.
LEMMA QuietStep ==
  ASSUME TypeOK, TypeOK', Distinct(turns), NEW s \in Streams, turns' = turns,
         \A t \in Streams : txUnacked'[t] <= txUnacked[t]
  PROVE  Distinct(turns') /\ StepInOrder
<1>1. turns \in Seq(Streams)
  BY DEF TypeOK, OutboundTypeOK
<1>2. \A t \in Streams : ~Borrows(t)
  BY NoneBorrows
<1> QED
  BY <1>1, <1>2, KeepsOrder

\* A stream with nothing to send, or with its allowance used up, leaves the
\* queue; one that waits for its turn joins it.
LEMMA LeaveOrJoinStep ==
  ASSUME TypeOK, TypeOK', Distinct(turns), NEW s \in Streams,
         turns' = leave(turns, s) \/ turns' = join(turns, s),
         txUnacked' = txUnacked
  PROVE  Distinct(turns') /\ StepInOrder
<1>1. turns \in Seq(Streams) /\ \A t \in Streams : txUnacked[t] \in Nat
  BY DEF TypeOK, OutboundTypeOK
<1>2. \A t \in Streams : ~Borrows(t)
  BY <1>1, NoneBorrows
<1>3. CASE turns' = leave(turns, s)
  <2>1. /\ Distinct(leave(turns, s))
        /\ \A a, b \in Streams : Before(leave(turns, s), a, b) => Before(turns, a, b)
    BY <1>1, LeaveOrder
  <2> QED
    BY <1>1, <1>2, <1>3, <2>1, KeepsOrder
<1>4. CASE turns' = join(turns, s)
  <2>1. /\ Distinct(join(turns, s))
        /\ \A a, b \in Streams : Before(join(turns, s), a, b) =>
              Before(turns, a, b) \/ (b = s /\ ~InQueue(turns, s))
    BY <1>1, JoinOrder
  <2> QED
    BY <1>1, <1>2, <1>4, <2>1, KeepsOrder
<1> QED
  BY <1>3, <1>4

\* A stream that sends goes to the end of the queue only if it borrowed.
LEMMA RequeueOrder ==
  ASSUME turns \in Seq(Streams), Distinct(turns), NEW s \in Streams, NEW n
  PROVE  /\ requeue(s, n) \in Seq(Streams) /\ Distinct(requeue(s, n))
         /\ \A a, b \in Streams : Before(requeue(s, n), a, b) =>
               Before(turns, a, b) \/ (b = s /\ n > base_room(txUnacked[s]))
<1>1. PICK q : q = leave(turns, s)
  BY ZenonT(40)
<1>2. /\ q \in Seq(Streams) /\ Distinct(q)
      /\ \A a, b \in Streams : Before(q, a, b) => Before(turns, a, b)
  BY <1>1, TurnQueueType, LeaveOrder
<1>3. /\ join(q, s) \in Seq(Streams) /\ Distinct(join(q, s))
      /\ \A a, b \in Streams : Before(join(q, s), a, b) =>
            Before(turns, a, b) \/ b = s
  BY <1>2, TurnQueueType, JoinOrder
<1> QED
  BY <1>1, <1>2, <1>3, ZenonT(40) DEF requeue

\* Ledger::plan goes beyond the base window only for the stream whose turn it
\* is.
LEMMA PlanTurn ==
  ASSUME TypeOK, NEW s \in Streams, NEW allowance \in Allowances, Waiting(s) \in Nat,
         plan(s, allowance) > base_room(txUnacked[s])
  PROVE  has_turn(s)
<1> SUFFICES ASSUME ~has_turn(s) PROVE FALSE
  OBVIOUS
<1>1. shared(s, allowance) = 0
  BY DEF shared
<1>2. base_room(txUnacked[s]) \in Nat
  BY PlanBounds
<1>3. full(s) \in Int
  BY FlowAssumption DEF full, Least
<1> QED
  BY <1>1, <1>2, <1>3 DEF plan, Least

\* OutboundTraffic::poll_update keeps the order when it sends data.
LEMMA DataStep ==
  ASSUME TypeOK, TypeOK', Distinct(turns), NEW s \in Streams, StreamInvAt(s),
         NEW allowance \in Allowances, NEW breaks \in BOOLEAN,
         poll_data(s, allowance, breaks)
  PROVE  Distinct(turns') /\ StepInOrder
<1>0. PICK n : n = plan(s, allowance)
  BY ZenonT(40)
<1>1. turns \in Seq(Streams) /\ txUnacked \in [Streams -> Nat]
  BY DEF TypeOK, OutboundTypeOK
<1>2. Waiting(s) \in Nat
  BY WaitingNat
<1>3. n \in Nat /\ base_room(txUnacked[s]) \in Nat
  BY <1>0, <1>2, PlanBounds
<1>4. /\ txUnacked' = [txUnacked EXCEPT ![s] = @ + n]
      /\ turns' = (IF breaks THEN leave(requeue(s, n), s) ELSE requeue(s, n))
  BY <1>0, ZenonT(40) DEF poll_data
<1>5. Borrows(s) <=> n > base_room(txUnacked[s])
  <2>1. txUnacked[s] \in Nat /\ txUnacked'[s] = txUnacked[s] + n
    BY <1>1, <1>4
  <2> QED
    BY <1>3, <2>1, FlowAssumption DEF Borrows, borrowed_at, base_room, SaturatingSub
<1>6. ASSUME NEW t \in Streams, Borrows(t)
      PROVE  t = s /\ has_turn(s)
  <2>1. t = s
    <3> SUFFICES ASSUME t # s PROVE FALSE
      OBVIOUS
    <3>1. txUnacked'[t] = txUnacked[t] /\ txUnacked[t] \in Nat
      BY <1>1, <1>4
    <3> QED
      BY <1>6, <3>1, FlowAssumption DEF Borrows, borrowed_at, SaturatingSub
  <2> QED
    BY <1>0, <1>2, <1>5, <1>6, <2>1, PlanTurn
<1>7. /\ requeue(s, n) \in Seq(Streams) /\ Distinct(requeue(s, n))
      /\ \A a, b \in Streams : Before(requeue(s, n), a, b) =>
            Before(turns, a, b) \/ (b = s /\ Borrows(s))
  BY <1>1, <1>5, RequeueOrder
<1>8. /\ Distinct(leave(requeue(s, n), s))
      /\ \A a, b \in Streams : Before(leave(requeue(s, n), s), a, b) =>
            Before(requeue(s, n), a, b)
  BY <1>7, LeaveOrder
<1>9. /\ Distinct(turns')
      /\ \A a, b \in Streams : Before(turns', a, b) =>
            Before(turns, a, b) \/ (b = s /\ Borrows(s))
  BY <1>4, <1>7, <1>8, ZenonT(40)
<1> QED
  BY <1>1, <1>6, <1>9, KeepsOrder

\* Credit and FIN_READ only lower the bytes in flight.
LEMMA ReceiveStep ==
  ASSUME TypeOK, TypeOK', Distinct(turns), NEW s \in Streams, StreamInvAt(s),
         ReceiveAtWriter(s)
  PROVE  Distinct(turns') /\ StepInOrder
<1>1. txUnacked \in [Streams -> Nat]
  BY DEF TypeOK, OutboundTypeOK
<1>2. turns' = turns
  BY DEF ReceiveAtWriter, received_window_update, received_fin_read
<1>3. \A t \in Streams : txUnacked'[t] <= txUnacked[t]
  <2>1. CASE txUnacked' = txUnacked
    BY <1>1, <2>1
  <2>2. CASE txUnacked' = [txUnacked EXCEPT ![s] = 0]
    BY <1>1, <2>2
  <2>3. CASE toWriter[s] # <<>> /\
             txUnacked' = [txUnacked EXCEPT ![s] = txUnacked[s] - Size(Head(toWriter[s]))]
    <3>1. Size(Head(toWriter[s])) \in Nat
      <4>1. /\ Head(toWriter[s]) = toWriter[s][1]
            /\ toWriter[s][1].from \in Nat /\ toWriter[s][1].to \in Nat
            /\ toWriter[s][1].from <= toWriter[s][1].to
        BY <2>3, NextReturn, ZenonT(40)
      <4> QED
        BY <4>1 DEF Size
    <3> QED
      BY <1>1, <2>3, <3>1
  <2> QED
    BY <2>1, <2>2, <2>3, ZenonT(40)
    DEF ReceiveAtWriter, received_window_update, received_fin_read
<1> QED
  BY <1>2, <1>3, QuietStep

\* Every step keeps the queue in order, and each stream in it once.
LEMMA NextInOrder ==
  ASSUME IInv, IInv', Distinct(turns), [Next]_vars
  PROVE  Distinct(turns') /\ [StepInOrder]_vars
<1>1. TypeOK /\ TypeOK' /\ StreamInv
  BY ZenonT(40) DEF IInv
<1>2. txUnacked \in [Streams -> Nat]
  BY <1>1 DEF TypeOK, OutboundTypeOK
<1>3. CASE UNCHANGED vars
  BY <1>3 DEF vars, outboundVars
<1>4. CASE Next
  <2> PICK s \in Streams :
         \/ Writer(s) \/ Reader(s) \/ PollOutbound(s) \/ PollInbound(s)
         \/ ReceiveAtWriter(s) \/ ReceiveAtReader(s)
    BY <1>4 DEF Next
  <2>0. StreamInvAt(s)
    BY <1>1, ZenonT(40) DEF StreamInv, StreamInvAt
  <2>1. CASE turns' = turns /\ txUnacked' = txUnacked
    <3>1. \A t \in Streams : txUnacked'[t] <= txUnacked[t]
      BY <1>2, <2>1
    <3> QED
      BY <1>1, <2>1, <3>1, QuietStep, ZenonT(40)
  <2>2. CASE Writer(s)
    BY <2>1, <2>2, ZenonT(40) DEF Writer, write, park_writer, close_writing
  <2>3. CASE Reader(s) \/ PollInbound(s) \/ ReceiveAtReader(s)
    BY <2>1, <2>3, ZenonT(40) DEF Reader, PollInbound, ReceiveAtReader, outboundVars
  <2>4. CASE PollOutbound(s)
    <3>1. CASE \E allowance \in Allowances, breaks \in BOOLEAN :
                 poll_data(s, allowance, breaks)
      BY <1>1, <2>0, <3>1, DataStep, ZenonT(40)
    <3>2. CASE /\ turns' = leave(turns, s) \/ turns' = join(turns, s)
               /\ txUnacked' = txUnacked
      BY <1>1, <3>2, LeaveOrJoinStep, ZenonT(40)
    <3> QED
      BY <2>4, <3>1, <3>2, ZenonT(40)
      DEF PollOutbound, poll_idle, poll_blocked, poll_fin_write
  <2>5. CASE ReceiveAtWriter(s)
    BY <1>1, <2>0, <2>5, ReceiveStep, ZenonT(40)
  <2> QED
    BY <2>2, <2>3, <2>4, <2>5
<1> QED
  BY <1>3, <1>4

\* Free room never lets a stream skip the queue: a stream borrows only if
\* nobody is ahead of it, and is overtaken only after it borrowed.
THEOREM TurnsKeepOrder == Spec => TurnsInOrder
<1>1. Init => Distinct(turns)
  BY DEF Init, OutboundInit, Distinct
<1>2. IInv /\ IInv' /\ Distinct(turns) /\ [Next]_vars
        => Distinct(turns)' /\ [StepInOrder]_vars
  BY NextInOrder DEF Distinct
<1> QED
  BY <1>1, <1>2, TransitInvariant, PTL DEF Spec, TurnsInOrder, StepInOrder

-----------------------------------------------------------------------------
(* The memory of the receiver: what the streams hold in ready_data fits    *)
(* into one base window each and the pool.  The bytes a stream holds are   *)
(* among those it counts in `unacked': the first B of them are charged to  *)
(* its base window, the rest to what it borrows.                           *)

\* Where in its stream's ready_data a buffered byte is.
Depth(b) == b[2] - readTo[b[1]]

\* The buffered bytes that fit into a base window, and those that do not.
InWindow == {b \in BufferedBytes : Depth(b) <= B}
InPool   == {b \in BufferedBytes : Depth(b) > B}

BaseBytes == Streams \X (1 .. B)

\* A byte in ready_data was received and not credited back.
LEMMA BufferedByte ==
  ASSUME IInv, NEW b \in BufferedBytes
  PROVE  /\ b = <<b[1], b[2]>> /\ b[1] \in Streams /\ b[2] \in Nat
         /\ readTo[b[1]] \in Nat /\ rxUnacked[b[1]] \in Nat
         /\ Depth(b) \in Nat /\ 1 <= Depth(b) /\ Depth(b) <= rxUnacked[b[1]]
<1>1. /\ b \in Streams \X (1 .. MaxWritten)
      /\ \E i \in 1 .. Len(unread[b[1]]) :
           unread[b[1]][i].from < b[2] /\ b[2] <= unread[b[1]][i].to
  BY ZenonT(40) DEF BufferedBytes
<1>2. b = <<b[1], b[2]>> /\ b[1] \in Streams /\ b[2] \in 1 .. MaxWritten
  BY <1>1
<1>3. b[2] \in Nat
  BY <1>2, OutboundAssumption
<1>4. PICK s \in Streams : s = b[1]
  BY <1>2
<1>5. PICK i \in 1 .. Len(unread[s]) :
         unread[s][i].from < b[2] /\ b[2] <= unread[s][i].to
  BY <1>1, <1>4
<1>6. TypeOK /\ DataInv(s) /\ CreditInv(s) /\ CloseInv(s)
  BY ZenonT(40) DEF IInv, StreamInv
<1>7. /\ unread[s] \in Seq(Frame) /\ readTo[s] \in Nat /\ rxUnacked[s] \in Nat
      /\ credit[s] \in Nat /\ Arrived(s) \in Int
  BY <1>6, TypesAt, PositionsAt, ZenonT(40)
<1>8. unread[s][i].from \in Nat /\ unread[s][i].to \in Nat
  BY <1>7, FramesFields
<1>9. inb[s] # "closed"
  <2>1. unread[s] # <<>>
    <3>1. Len(<<>>) = 0
      OBVIOUS
    <3> QED
      BY <1>5, <3>1
  <2> QED
    BY <1>6, <2>1, ZenonT(40) DEF DataInv
<1>10. readTo[s] <= unread[s][i].from /\ unread[s][i].to <= Arrived(s)
  BY <1>6, <1>9, ZenonT(40) DEF DataInv, Chain
<1>11. rxUnacked[s] = Arrived(s) - (readTo[s] - credit[s])
  BY <1>6, <1>9, ZenonT(40) DEF CloseInv, CreditInv, credited
<1>12. /\ b[2] - readTo[s] \in Nat /\ 1 <= b[2] - readTo[s]
       /\ b[2] - readTo[s] <= rxUnacked[s]
  <2>1. readTo[s] < b[2]
    BY <1>3, <1>5, <1>7, <1>8, <1>10
  <2>2. b[2] <= Arrived(s)
    BY <1>3, <1>5, <1>7, <1>8, <1>10
  <2> QED
    BY <1>3, <1>7, <1>11, <2>1, <2>2
<1> QED
  BY <1>2, <1>3, <1>4, <1>7, <1>12, ZenonT(40) DEF Depth

\* The bytes within the base windows are at most B for each stream.
LEMMA WindowBytes ==
  ASSUME IInv
  PROVE  /\ IsFiniteSet(InWindow)
         /\ Cardinality(InWindow) <= Cardinality(Streams) * B
<1>1. /\ IsFiniteSet(BaseBytes)
      /\ Cardinality(BaseBytes) = Cardinality(Streams) * B
  <2>1. IsFiniteSet(1 .. B) /\ Cardinality(1 .. B) = B
    BY FlowAssumption, FS_Interval
  <2>2. PICK W : W = 1 .. B
    BY ZenonT(40)
  <2>3. IsFiniteSet(Streams \X W) /\ Cardinality(Streams \X W) = Cardinality(Streams) * Cardinality(W)
    BY <2>1, <2>2, FlowAssumption, FS_Product, ZenonT(40)
  <2> QED
    BY <2>1, <2>2, <2>3, ZenonT(40) DEF BaseBytes
<1>2. PICK f : f = [b \in InWindow |-> <<b[1], Depth(b)>>]
  BY ZenonT(40)
<1>3. ASSUME NEW b \in InWindow PROVE f[b] \in BaseBytes
  <2>1. /\ b[1] \in Streams /\ Depth(b) \in Nat /\ 1 <= Depth(b) /\ Depth(b) <= B
    BY BufferedByte DEF InWindow
  <2>2. Depth(b) \in 1 .. B
    BY <2>1, FlowAssumption
  <2> QED
    BY <1>2, <2>1, <2>2 DEF BaseBytes
<1>4. ASSUME NEW b \in InWindow, NEW c \in InWindow, f[b] = f[c] PROVE b = c
  <2>1. /\ b = <<b[1], b[2]>> /\ c = <<c[1], c[2]>> /\ b[2] \in Nat /\ c[2] \in Nat
        /\ readTo[b[1]] \in Nat /\ readTo[c[1]] \in Nat
    BY BufferedByte DEF InWindow
  <2>2. b[1] = c[1] /\ Depth(b) = Depth(c)
    BY <1>2, <1>4
  <2>3. b[2] = c[2]
    BY <2>1, <2>2 DEF Depth
  <2> QED
    BY <2>1, <2>2, <2>3, ZenonT(40)
<1>5. f \in Injection(InWindow, BaseBytes)
  BY <1>2, <1>3, <1>4 DEF Injection, IsInjective
<1> QED
  BY <1>1, <1>5, FS_Injection

\* The bytes beyond the base windows are at most those the streams borrow.
LEMMA PoolBytes ==
  ASSUME IInv
  PROVE  /\ IsFiniteSet(InPool)
         /\ Cardinality(InPool) <= PoolSize
<1>1. rxUnacked \in [Streams -> Nat] /\ rxUsed \in Nat
  BY DEF IInv, TypeOK, InboundTypeOK
<1>2. rxUsed = Cardinality(BorrowedBytes(rxUnacked)) /\ rxUsed <= PoolSize
  BY <1>1, FlowAssumption
  DEF IInv, PoolsInSync, PoolsNotOverdrawn, PoolUsage, is_overdrawn
<1>3. PICK f : f = [b \in InPool |-> <<b[1], Depth(b) - B>>]
  BY ZenonT(40)
<1>4. ASSUME NEW b \in InPool PROVE f[b] \in BorrowedBytes(rxUnacked)
  <2>1. /\ b[1] \in Streams /\ Depth(b) \in Nat /\ Depth(b) > B
        /\ rxUnacked[b[1]] \in Nat /\ Depth(b) <= rxUnacked[b[1]]
    BY BufferedByte DEF InPool
  <2>2. Depth(b) - B \in 1 .. borrowed_at(rxUnacked[b[1]])
    BY <2>1, FlowAssumption DEF borrowed_at, SaturatingSub
  <2>3. <<b[1], Depth(b) - B>> \in {b[1]} \X (1 .. borrowed_at(rxUnacked[b[1]]))
    BY <2>2
  <2> QED
    BY <1>3, <2>1, <2>3, ZenonT(40) DEF BorrowedBytes
<1>5. ASSUME NEW b \in InPool, NEW c \in InPool, f[b] = f[c] PROVE b = c
  <2>1. /\ b = <<b[1], b[2]>> /\ c = <<c[1], c[2]>> /\ b[2] \in Nat /\ c[2] \in Nat
        /\ readTo[b[1]] \in Nat /\ readTo[c[1]] \in Nat
    BY BufferedByte DEF InPool
  <2>2. b[1] = c[1] /\ Depth(b) - B = Depth(c) - B
    BY <1>3, <1>5
  <2>3. b[2] = c[2]
    BY <2>1, <2>2, FlowAssumption DEF Depth
  <2> QED
    BY <2>1, <2>2, <2>3, ZenonT(40)
<1>6. f \in Injection(InPool, BorrowedBytes(rxUnacked))
  BY <1>3, <1>4, <1>5 DEF Injection, IsInjective
<1>7. CASE Streams = {}
  <2>1. InPool = {}
    BY <1>7, BufferedByte DEF InPool
  <2> QED
    BY <2>1, FS_EmptySet, FlowAssumption
<1>8. CASE Streams # {}
  <2>1. IsFiniteSet(BorrowedBytes(rxUnacked))
    BY <1>1, <1>8, PoolUsageSplit
  <2>2. IsFiniteSet(InPool) /\ Cardinality(InPool) <= Cardinality(BorrowedBytes(rxUnacked))
    BY <1>6, <2>1, FS_Injection
  <2>3. Cardinality(InPool) \in Nat
    BY <2>2, FS_CardinalityType
  <2> QED
    BY <1>1, <1>2, <2>2, <2>3, FlowAssumption
<1> QED
  BY <1>7, <1>8

\* The receiver never holds more than a base window for each stream and the
\* pool, whatever the application reads and whenever credit is returned.
THEOREM MemoryKept == Spec => []MemoryBounded
<1>1. ASSUME IInv PROVE MemoryBounded
  <2>1. BufferedBytes = InWindow \cup InPool
    <3>1. \A b \in BufferedBytes : Depth(b) \in Nat
      BY <1>1, BufferedByte
    <3> QED
      BY <3>1, FlowAssumption DEF InWindow, InPool
  <2>2. /\ IsFiniteSet(InWindow) /\ Cardinality(InWindow) <= Cardinality(Streams) * B
        /\ IsFiniteSet(InPool) /\ Cardinality(InPool) <= PoolSize
    BY <1>1, WindowBytes, PoolBytes
  <2>3. Cardinality(InWindow \cup InPool) =
          Cardinality(InWindow) + Cardinality(InPool) - Cardinality(InWindow \cap InPool)
    BY <2>2, FS_Union
  <2>4. IsFiniteSet(InWindow \cap InPool)
    BY <2>2, FS_Intersection
  <2>5. /\ Cardinality(InWindow) \in Nat /\ Cardinality(InPool) \in Nat
        /\ Cardinality(InWindow \cap InPool) \in Nat
    BY <2>2, <2>4, FS_CardinalityType
  <2>6. PICK m \in Nat : m = Cardinality(Streams) * B
    <3>1. Cardinality(Streams) \in Nat
      BY FlowAssumption, FS_CardinalityType
    <3> QED
      BY <3>1, FlowAssumption
  <2>7. Cardinality(InWindow \cup InPool) <= m + PoolSize
    BY <2>2, <2>3, <2>5, <2>6, FlowAssumption
  <2> QED
    BY <2>1, <2>6, <2>7, ZenonT(40) DEF MemoryBounded
<1> QED
  BY <1>1, TransitInvariant, PTL
=============================================================================
