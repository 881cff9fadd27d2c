--------------------------- MODULE DataListProofs ---------------------------
(***************************************************************************)
(* Proofs about DataList, for any number of lists and addresses and any    *)
(* chunks: the types, the single owner of a storage, the links, and that   *)
(* the lists implement queues of chunks.                                   *)
(***************************************************************************)
EXTENDS DataList, SequenceTheorems, TLAPS

\* The provers of a leaf that names none, in the order they are tried.
USE SMTT(40), ZenonT(20), SMTT(45)

\* The invariant that is inductive: none of its parts is so by itself.
IInv == TypeOK /\ OneOwner /\ FrameFilled /\ WellLinked

-----------------------------------------------------------------------------
(* Storages.                                                               *)

\* A function on 1 .. n is a sequence of that length.
LEMMA FunctionIsSeq ==
  ASSUME NEW S, NEW n \in Nat, NEW f \in [1 .. n -> S]
  PROVE  f \in Seq(S) /\ Len(f) = n
<1>1. f \in Seq(S)
  BY SeqDef
<1>2. Len(f) \in Nat /\ DOMAIN f = 1 .. Len(f)
  BY <1>1, LenProperties
<1> QED
  BY <1>1, <1>2

\* A storage that is not empty has room for the link and its data behind it.
LEMMA SliceLength ==
  ASSUME NEW s \in Seq(Cells), s # <<>>
  PROVE  Len(s) \in Nat \ {0} /\ Len(as_slice(s)) = Len(s) - 1
<1>1. Len(s) \in Nat \ {0}
  BY EmptySeq
<1>2. \A i \in 1 .. Len(s) - 1 : s[i + 1] \in Cells
  BY <1>1, ElementOfSeq
<1>3. as_slice(s) \in [1 .. Len(s) - 1 -> Cells]
  BY <1>1, <1>2 DEF as_slice
<1>4. Len(s) - 1 \in Nat
  BY <1>1
<1> QED
  BY <1>1, <1>3, <1>4, FunctionIsSeq

\* Writing the link leaves the data alone.
LEMMA SetNext ==
  ASSUME NEW s \in Seq(Cells), s # <<>>, NEW link \in Addresses
  PROVE  LET t == [s EXCEPT ![1] = link]
         IN  t \in Seq(Cells) /\ t # <<>> /\ t[1] = link /\ as_slice(t) = as_slice(s)
<1> DEFINE t == [s EXCEPT ![1] = link]
<1>1. Len(s) \in Nat \ {0}
  BY EmptySeq
<1>2. 1 \in 1 .. Len(s) /\ link \in Cells
  BY <1>1 DEF Cells
<1>3. /\ t \in Seq(Cells) /\ Len(t) = Len(s)
      /\ \A j \in 1 .. Len(s) : t[j] = IF j = 1 THEN link ELSE s[j]
  BY <1>2, ExceptSeq
<1>4. t # <<>>
  BY <1>1, <1>3, EmptySeq
<1>5. \A i \in 1 .. Len(s) - 1 : t[i + 1] = s[i + 1]
  BY <1>1, <1>3
<1>6. as_slice(t) = as_slice(s)
  BY <1>3, <1>5 DEF as_slice
<1> QED
  BY <1>2, <1>3, <1>4, <1>6

\* A new storage.
LEMMA NewStorage ==
  ASSUME NEW n \in Nat
  PROVE  storage(n) \in Seq(Cells) /\ storage(n) # <<>> /\ Len(storage(n)) = n + 1
<1>1. storage(n) \in [1 .. n + 1 -> Cells]
  BY DEF storage, Cells
<1>2. storage(n) \in Seq(Cells) /\ Len(storage(n)) = n + 1
  BY <1>1, FunctionIsSeq
<1> QED
  BY <1>2, EmptySeq

\* Reading the bytes of a chunk behind those that were read.
LEMMA Fill ==
  ASSUME NEW s \in Seq(Cells), NEW chunk \in Seq(Byte), Len(s) = Len(chunk) + 1,
         NEW filled \in 0 .. Len(chunk), NEW to \in filled .. Len(chunk),
         \A i \in 1 .. filled : s[i + 1] = chunk[i]
  PROVE  LET t == fill(s, chunk, filled, to)
         IN  /\ t \in Seq(Cells) /\ Len(t) = Len(chunk) + 1
             /\ \A i \in 1 .. to : t[i + 1] = chunk[i]
<1> DEFINE t == fill(s, chunk, filled, to)
<1>1. Len(chunk) \in Nat
  BY LenProperties
<1>2. \A i \in 1 .. Len(chunk) : chunk[i] \in Cells
  BY ElementOfSeq DEF Cells
<1>3. \A i \in 1 .. Len(s) : s[i] \in Cells
  BY ElementOfSeq
<1>4. t \in [1 .. Len(chunk) + 1 -> Cells]
  BY <1>1, <1>2, <1>3 DEF fill
<1>5. t \in Seq(Cells) /\ Len(t) = Len(chunk) + 1
  BY <1>1, <1>4, FunctionIsSeq
<1>6. \A i \in 1 .. to : t[i + 1] = chunk[i]
  BY <1>1 DEF fill
<1> QED
  BY <1>5, <1>6

\* A storage that is filled has the chunk as its data.
LEMMA FullIsChunk ==
  ASSUME NEW s \in Seq(Cells), NEW chunk \in Seq(Byte), Len(s) = Len(chunk) + 1,
         \A i \in 1 .. Len(chunk) : s[i + 1] = chunk[i]
  PROVE  as_slice(s) = chunk
<1>1. Len(chunk) \in Nat /\ chunk \in [1 .. Len(chunk) -> Byte]
  BY LenProperties
<1>2. Len(s) - 1 = Len(chunk)
  BY <1>1
<1> QED
  BY <1>1, <1>2 DEF as_slice

-----------------------------------------------------------------------------
(* The frame.                                                              *)

\* A step that concerns only the frame and storages that no list and no
\* application owns.
LEMMA FrameStep ==
  ASSUME IInv, UNCHANGED <<listVars, kept>>,
         mem' \in [Addresses -> Seq(Cells)],
         \A a \in Addresses : InHand(a) \/ InList(a) => mem'[a] = mem[a] /\ ~InFrame(a)',
         \A a \in Addresses : free(a)' <=> ~(InFrame(a)' \/ InHand(a) \/ InList(a)),
         \/ frame' = None
         \/ /\ frame' \in Frame
            /\ frame'.at = Dangling <=> frame'.chunk = <<>>,
         FrameFilled'
  PROVE  IInv'
<1>1. \A a \in Addresses : (InHand(a)' <=> InHand(a)) /\ (InList(a)' <=> InList(a))
  BY DEF listVars, InHand, InList
<1>2. \A a \in Addresses : InHand(a) \/ InList(a) => Content(a)' = Content(a)
  BY DEF Content
<1>3. TypeOK'
  BY <1>1, <1>2 DEF IInv, TypeOK, listVars
<1>4. OneOwner'
  BY <1>1 DEF IInv, OneOwner, listVars
<1>5. WellLinked'
  <2>1. \A l \in Lists : \A i \in 1 .. Len(path[l]) - 1 : next(path[l][i])' = next(path[l][i])
    <3>1. TAKE l \in Lists
    <3>2. TAKE i \in 1 .. Len(path[l]) - 1
    <3>3. path[l] \in Seq(Addresses)
      BY DEF IInv, TypeOK
    <3>4. i \in 1 .. Len(path[l])
      BY <3>3, LenProperties
    <3>5. path[l][i] \in Addresses
      BY <3>3, <3>4, ElementOfSeq
    <3>6. InList(path[l][i])
      BY <3>4 DEF InList
    <3>7. mem'[path[l][i]] = mem[path[l][i]] /\ path' = path
      BY <3>5, <3>6 DEF listVars
    <3> QED
      BY <3>7 DEF next
  <2> QED
    BY <2>1 DEF IInv, WellLinked, listVars
<1> QED
  BY <1>3, <1>4, <1>5 DEF IInv

\* with_capacity takes a free address.
LEMMA WithCapacityStep ==
  ASSUME IInv, NEW chunk \in Chunks, with_capacity(chunk)
  PROVE  IInv'
<1>1. /\ TypeOK /\ OneOwner /\ frame = None /\ UNCHANGED <<listVars, kept>>
      /\ chunk \in Seq(Byte) /\ Len(chunk) \in Nat
  BY LenProperties, DataListAssumption DEF IInv, with_capacity
<1>2. CASE /\ chunk = <<>>
           /\ frame' = [at |-> Dangling, chunk |-> chunk, filled |-> 0, data |-> TRUE]
           /\ UNCHANGED mem
  <2>1. FrameFilled'
    BY <1>1, <1>2, EmptySeq DEF FrameFilled
  <2>2. \A a \in Addresses : ~InFrame(a)' /\ ~InFrame(a)
    BY <1>1, <1>2, DataListAssumption DEF InFrame
  <2>3. \A a \in Addresses : free(a)' <=> free(a)
    BY <1>2 DEF free
  <2> QED
    BY <1>1, <1>2, <2>1, <2>2, <2>3, FrameStep, DataListAssumption DEF TypeOK, OneOwner, Frame
<1>3. ASSUME NEW a \in Addresses, chunk # <<>>, free(a),
             mem' = [mem EXCEPT ![a] = storage(Len(chunk))],
             frame' = [at |-> a, chunk |-> chunk, filled |-> 0, data |-> FALSE]
      PROVE  IInv'
  <2>1. Len(chunk) > 0
    BY <1>1, <1>3, EmptySeq
  <2>2. /\ storage(Len(chunk)) \in Seq(Cells) /\ storage(Len(chunk)) # <<>>
        /\ Len(storage(Len(chunk))) = Len(chunk) + 1
    BY <1>1, NewStorage
  <2>3. mem' \in [Addresses -> Seq(Cells)] /\ mem'[a] = storage(Len(chunk))
    BY <1>1, <1>3, <2>2 DEF TypeOK
  <2>4. ~InHand(a) /\ ~InList(a)
    BY <1>1, <1>3 DEF OneOwner
  <2>5. \A b \in Addresses : b # a => mem'[b] = mem[b] /\ (free(b)' <=> free(b)) /\ ~InFrame(b)'
    BY <1>1, <1>3 DEF TypeOK, free, InFrame
  <2>6. frame' \in Frame /\ frame'.at = a
    BY <1>3 DEF Frame
  <2>7. frame' # None
    BY <2>6, DataListAssumption, ZenonT(40)
  <2>8. ~free(a)' /\ InFrame(a)' /\ \A b \in Addresses : ~InFrame(b)
    BY <1>1, <2>2, <2>3, <2>6, <2>7 DEF free, InFrame
  <2>9. FrameFilled'
    BY <1>1, <1>3, <2>1, <2>2, <2>3 DEF FrameFilled
  <2>10. /\ frame' \in Frame
         /\ frame'.at = Dangling <=> frame'.chunk = <<>>
    BY <1>3, DataListAssumption DEF Frame
  <2>11. \A b \in Addresses : InHand(b) \/ InList(b) => mem'[b] = mem[b] /\ ~InFrame(b)'
    BY <2>4, <2>5, ZenonT(40)
  <2>12. \A b \in Addresses : free(b)' <=> ~(InFrame(b)' \/ InHand(b) \/ InList(b))
    BY <1>1, <2>4, <2>5, <2>8, ZenonT(40) DEF OneOwner
  <2> QED
    BY <1>1, <2>3, <2>9, <2>10, <2>11, <2>12, FrameStep
<1> QED
  BY <1>1, <1>2, <1>3 DEF with_capacity

\* What is known of the storage of a frame.
LEMMA FrameFacts ==
  ASSUME IInv, frame # None
  PROVE  /\ frame \in Frame
         /\ frame.at = Dangling <=> frame.chunk = <<>>
         /\ frame.chunk \in Seq(Byte) /\ Len(frame.chunk) \in Nat
         /\ frame.at # Dangling =>
              /\ frame.at \in Addresses /\ ~free(frame.at)
              /\ ~InHand(frame.at) /\ ~InList(frame.at)
              /\ mem[frame.at] \in Seq(Cells) /\ mem[frame.at] # <<>>
              /\ Len(mem[frame.at]) = Len(frame.chunk) + 1
<1> USE DataListAssumption
<1>1. /\ frame \in Frame
      /\ frame.at = Dangling <=> frame.chunk = <<>>
  BY DEF IInv, TypeOK
<1>2. frame.chunk \in Seq(Byte) /\ Len(frame.chunk) \in Nat
  BY <1>1, LenProperties DEF Frame
<1>3. ASSUME frame.at # Dangling
      PROVE  /\ frame.at \in Addresses /\ ~free(frame.at)
             /\ ~InHand(frame.at) /\ ~InList(frame.at)
             /\ mem[frame.at] \in Seq(Cells) /\ mem[frame.at] # <<>>
             /\ Len(mem[frame.at]) = Len(frame.chunk) + 1
  <2>1. frame.at \in Addresses /\ InFrame(frame.at)
    BY <1>1, <1>3 DEF InFrame, Frame
  <2>2. ~free(frame.at) /\ ~InHand(frame.at) /\ ~InList(frame.at)
    BY <2>1 DEF IInv, OneOwner
  <2>3. mem[frame.at] \in Seq(Cells) /\ Len(mem[frame.at]) = Len(frame.chunk) + 1
    BY <1>3, <2>1 DEF IInv, TypeOK, FrameFilled
  <2> QED
    BY <2>1, <2>2, <2>3 DEF free
<1> QED
  BY <1>1, <1>2, <1>3

\* poll_read fills the frame.
LEMMA PollReadStep ==
  ASSUME IInv, frame # None, NEW n \in 1 .. Len(frame.chunk), poll_read(n)
  PROVE  IInv'
<1> DEFINE s  == mem[frame.at]
           to == frame.filled + n
           t  == fill(s, frame.chunk, frame.filled, to)
<1>1. /\ TypeOK /\ OneOwner /\ FrameFilled /\ ~frame.data /\ UNCHANGED <<listVars, kept>>
      /\ to <= Len(as_slice(s))
      /\ mem' = [mem EXCEPT ![frame.at] = t]
      /\ frame' = [frame EXCEPT !.filled = to, !.data = is_full(to, s)]
  BY DEF IInv, poll_read
<1>2. /\ frame \in Frame
      /\ frame.at = Dangling <=> frame.chunk = <<>>
      /\ frame.chunk \in Seq(Byte) /\ Len(frame.chunk) \in Nat
  BY FrameFacts
<1>3. frame.at # Dangling
  BY <1>1, <1>2, EmptySeq DEF FrameFilled
<1>4. /\ frame.at \in Addresses /\ ~InHand(frame.at) /\ ~InList(frame.at)
      /\ s \in Seq(Cells) /\ s # <<>> /\ Len(s) = Len(frame.chunk) + 1
  BY <1>3, FrameFacts
<1>5. Len(as_slice(s)) = Len(frame.chunk)
  BY <1>2, <1>4, SliceLength
<1>6. /\ frame.filled \in 0 .. Len(frame.chunk) /\ to \in frame.filled .. Len(frame.chunk)
      /\ \A i \in 1 .. frame.filled : s[i + 1] = frame.chunk[i]
  BY <1>1, <1>2, <1>3, <1>5 DEF FrameFilled
<1>7. /\ t \in Seq(Cells) /\ Len(t) = Len(frame.chunk) + 1
      /\ \A i \in 1 .. to : t[i + 1] = frame.chunk[i]
  BY <1>2, <1>4, <1>6, Fill, ZenonT(40)
<1>8. t # <<>>
  BY <1>2, <1>7, EmptySeq
<1>9. /\ frame'.at = frame.at /\ frame'.chunk = frame.chunk /\ frame'.filled = to
      /\ frame'.data <=> to = Len(frame.chunk)
      /\ frame' \in Frame /\ frame' # None
  <2>1. is_full(to, s) \in BOOLEAN /\ (is_full(to, s) <=> to = Len(frame.chunk)) /\ to \in Nat
    BY <1>2, <1>5, <1>6 DEF is_full
  <2>2. \A b \in BOOLEAN :
          LET f == [frame EXCEPT !.filled = to, !.data = b]
          IN  /\ f \in Frame /\ f.at = frame.at /\ f.chunk = frame.chunk
              /\ f.filled = to /\ f.data = b
    BY <1>2, <2>1, ZenonT(40) DEF Frame
  <2> QED
    BY <1>1, <2>1, <2>2, DataListAssumption, ZenonT(40)
<1>10. mem' \in [Addresses -> Seq(Cells)] /\ mem'[frame.at] = t
  BY <1>1, <1>4, <1>7 DEF TypeOK
<1>11. \A b \in Addresses : b # frame.at => mem'[b] = mem[b]
  BY <1>1 DEF TypeOK
<1>12. \A b \in Addresses : (free(b)' <=> free(b)) /\ (InFrame(b)' <=> InFrame(b))
  BY <1>1, <1>4, <1>8, <1>9, <1>10, <1>11 DEF free, InFrame
<1>13. FrameFilled'
  BY <1>2, <1>6, <1>7, <1>9, <1>10 DEF FrameFilled
<1> QED
  BY <1>1, <1>2, <1>4, <1>9, <1>10, <1>11, <1>12, <1>13, FrameStep DEF OneOwner

\* Dropping the frame frees its storage.
LEMMA DropFrameStep ==
  ASSUME IInv, drop_frame
  PROVE  IInv'
<1>1. /\ TypeOK /\ OneOwner /\ frame # None /\ frame' = None /\ UNCHANGED <<listVars, kept>>
      /\ mem' = IF frame.at = Dangling THEN mem ELSE [mem EXCEPT ![frame.at] = <<>>]
  BY DEF IInv, drop_frame
<1>2. /\ frame.at = Dangling \/ frame.at \in Addresses
      /\ frame.at # Dangling => ~InHand(frame.at) /\ ~InList(frame.at)
  BY <1>1, FrameFacts
<1>3. mem' \in [Addresses -> Seq(Cells)]
  BY <1>1, EmptySeq, ZenonT(40) DEF TypeOK
<1>4. \A b \in Addresses : b # frame.at => mem'[b] = mem[b]
  BY <1>1 DEF TypeOK
<1>5. \A b \in Addresses : b = frame.at => mem'[b] = <<>>
  BY <1>1, <1>2, DataListAssumption DEF TypeOK
<1>6. \A b \in Addresses : ~InFrame(b)' /\ (InFrame(b) <=> b = frame.at)
  BY <1>1 DEF InFrame
<1>7. \A b \in Addresses : free(b)' <=> ~(InFrame(b)' \/ InHand(b) \/ InList(b))
  BY <1>1, <1>2, <1>4, <1>5, <1>6, DataListAssumption DEF free, OneOwner
<1>8. \A b \in Addresses : InHand(b) \/ InList(b) => mem'[b] = mem[b] /\ ~InFrame(b)'
  BY <1>2, <1>4, <1>6, DataListAssumption
<1>9. FrameFilled'
  BY <1>1 DEF FrameFilled
<1> QED
  BY <1>1, <1>3, <1>7, <1>8, <1>9, FrameStep

-----------------------------------------------------------------------------
(* The lists.                                                              *)

\* The storages of a list are in use.
LEMMA PathFacts ==
  ASSUME IInv, NEW l \in Lists
  PROVE  /\ path[l] \in Seq(Addresses) /\ Len(path[l]) \in Nat
         /\ path[l] # <<>> => Len(path[l]) > 0
         /\ \A i \in 1 .. Len(path[l]) : /\ path[l][i] \in Addresses /\ InList(path[l][i])
                                         /\ ~InHand(path[l][i]) /\ ~InFrame(path[l][i])
<1>1. path[l] \in Seq(Addresses)
  BY DEF IInv, TypeOK
<1>2. Len(path[l]) \in Nat /\ (path[l] # <<>> => Len(path[l]) > 0)
  BY <1>1, EmptySeq, LenProperties
<1>3. \A i \in 1 .. Len(path[l]) : path[l][i] \in Addresses
  BY <1>1, ElementOfSeq
<1>4. \A i \in 1 .. Len(path[l]) : InList(path[l][i])
  BY DEF InList
<1> QED
  BY <1>1, <1>2, <1>3, <1>4 DEF IInv, OneOwner

\* What pop_front does to the list, seen as a queue.
LEMMA PopPath ==
  ASSUME IInv, NEW l \in Lists, pop_front(l)
  PROVE  /\ path[l] # <<>> /\ head[l] = path[l][1] /\ head[l] \in Addresses
         /\ path' \in [Lists -> Seq(Addresses)] /\ path'[l] = Tail(path[l])
         /\ Len(path'[l]) = Len(path[l]) - 1
         /\ \A i \in 1 .. Len(path'[l]) : path'[l][i] = path[l][i + 1]
         /\ \A k \in Lists : k # l => path'[k] = path[k]
<1>1. head[l] # None /\ path' = [path EXCEPT ![l] = Tail(@)]
  BY DEF pop_front
<1>2. path[l] # <<>> /\ head[l] = path[l][1]
  BY <1>1 DEF IInv, WellLinked
<1>3. path[l] \in Seq(Addresses) /\ Len(path[l]) \in Nat /\ Len(path[l]) > 0
  BY <1>2, PathFacts
<1>4. head[l] \in Addresses
  BY <1>2, <1>3, PathFacts
<1>5. /\ Tail(path[l]) \in Seq(Addresses) /\ Len(Tail(path[l])) = Len(path[l]) - 1
      /\ \A i \in 1 .. Len(Tail(path[l])) : Tail(path[l])[i] = path[l][i + 1]
  BY <1>2, <1>3, HeadTailProperties
<1>6. path \in [Lists -> Seq(Addresses)]
  BY DEF IInv, TypeOK
<1>7. path'[l] = Tail(path[l]) /\ \A k \in Lists : k # l => path'[k] = path[k]
  BY <1>1, <1>6
<1>8. path' \in [Lists -> Seq(Addresses)]
  BY <1>1, <1>5, <1>6
<1> QED
  BY <1>2, <1>4, <1>5, <1>7, <1>8

\* pop_front takes the first storage out of the list, and no other.
LEMMA PopOwner ==
  ASSUME IInv, NEW l \in Lists, pop_front(l)
  PROVE  /\ \A a \in Addresses : InList(a)' <=> InList(a) /\ a # head[l]
         /\ \A j, k \in Lists : \A m \in 1 .. Len(path'[j]), n \in 1 .. Len(path'[k]) :
              path'[j][m] = path'[k][n] => j = k /\ m = n
<1> DEFINE shift(k) == IF k = l THEN 1 ELSE 0
<1>1. /\ path[l] # <<>> /\ head[l] = path[l][1]
      /\ Len(path'[l]) = Len(path[l]) - 1
      /\ \A i \in 1 .. Len(path'[l]) : path'[l][i] = path[l][i + 1]
      /\ \A k \in Lists : k # l => path'[k] = path[k]
  BY PopPath
<1>2. Len(path[l]) > 0 /\ \A k \in Lists : Len(path[k]) \in Nat
  BY <1>1, PathFacts
<1>3. \A k \in Lists : \A i \in 1 .. Len(path'[k]) :
        i + shift(k) \in 1 .. Len(path[k]) /\ path'[k][i] = path[k][i + shift(k)]
  BY <1>1, <1>2
<1>4. \A k \in Lists : \A i \in 1 .. Len(path[k]) :
        path[k][i] # head[l] => i - shift(k) \in 1 .. Len(path'[k])
  BY <1>1, <1>2
<1>5. \A j, k \in Lists : \A m \in 1 .. Len(path[j]), n \in 1 .. Len(path[k]) :
        path[j][m] = path[k][n] => j = k /\ m = n
  BY DEF IInv, OneOwner
<1>6. \A j, k \in Lists : \A m \in 1 .. Len(path'[j]), n \in 1 .. Len(path'[k]) :
        path'[j][m] = path'[k][n] => j = k /\ m = n
  <2> SUFFICES ASSUME NEW j \in Lists, NEW k \in Lists,
                      NEW m \in 1 .. Len(path'[j]), NEW n \in 1 .. Len(path'[k]),
                      path'[j][m] = path'[k][n]
               PROVE  j = k /\ m = n
    OBVIOUS
  <2>1. m + shift(j) \in 1 .. Len(path[j]) /\ path'[j][m] = path[j][m + shift(j)]
    BY <1>3
  <2>2. n + shift(k) \in 1 .. Len(path[k]) /\ path'[k][n] = path[k][n + shift(k)]
    BY <1>3
  <2>3. \A x \in 1 .. Len(path[j]), y \in 1 .. Len(path[k]) :
          path[j][x] = path[k][y] => j = k /\ x = y
    BY <1>5, ZenonT(40)
  <2> HIDE DEF shift
  <2>4. j = k /\ m + shift(j) = n + shift(k)
    BY <2>1, <2>2, <2>3, ZenonT(40)
  <2>5. shift(j) \in Int /\ shift(k) \in Int
    BY DEF shift
  <2> QED
    BY <2>4, <2>5
<1>7. ASSUME NEW a \in Addresses, InList(a)'
      PROVE  InList(a) /\ a # head[l]
  <2>1. PICK k \in Lists : \E i \in 1 .. Len(path'[k]) : path'[k][i] = a
    BY <1>7 DEF InList
  <2>2. PICK i \in 1 .. Len(path'[k]) : path'[k][i] = a
    BY <2>1
  <2>3. i + shift(k) \in 1 .. Len(path[k]) /\ path[k][i + shift(k)] = a
    BY <1>3, <2>2
  <2>4. ASSUME a = head[l]
        PROVE  FALSE
    <3>1. k = l /\ i + shift(k) = 1
      BY <1>1, <1>2, <1>5, <2>3, <2>4
    <3> QED
      BY <2>2, <3>1
  <2> QED
    BY <2>3, <2>4 DEF InList
<1>8. ASSUME NEW a \in Addresses, InList(a), a # head[l]
      PROVE  InList(a)'
  <2>1. PICK k \in Lists : \E i \in 1 .. Len(path[k]) : path[k][i] = a
    BY <1>8 DEF InList
  <2>2. PICK i \in 1 .. Len(path[k]) : path[k][i] = a
    BY <2>1
  <2>3. i - shift(k) \in 1 .. Len(path'[k])
    BY <1>4, <1>8, <2>2
  <2>4. path'[k][i - shift(k)] = a
    BY <1>2, <1>3, <2>2, <2>3
  <2> QED
    BY <2>3, <2>4 DEF InList
<1> QED
  BY <1>6, <1>7, <1>8

\* No storage changes but the one at a.
KeepsAllBut(a) == \A b \in Addresses : b # a => mem'[b] = mem[b]

\* pop_front leaves lists that are linked, as long as the storages that stay
\* are not changed.
LEMMA PopLinks ==
  ASSUME IInv, NEW l \in Lists, pop_front(l), KeepsAllBut(head[l])
  PROVE  /\ WellLinked'
         /\ head' \in [Lists -> Addresses \cup {None}]
         /\ tail' \in [Lists -> Addresses \cup {None}]
<1>1. /\ path[l] # <<>> /\ head[l] = path[l][1] /\ head[l] \in Addresses
      /\ path' \in [Lists -> Seq(Addresses)]
      /\ Len(path'[l]) = Len(path[l]) - 1
      /\ \A i \in 1 .. Len(path'[l]) : path'[l][i] = path[l][i + 1]
      /\ \A k \in Lists : k # l => path'[k] = path[k]
  BY PopPath
<1>2. /\ Len(path[l]) > 0 /\ Len(path[l]) \in Nat
      /\ \A k \in Lists : Len(path[k]) \in Nat
      /\ \A k \in Lists : \A i \in 1 .. Len(path[k]) : path[k][i] \in Addresses
  BY <1>1, PathFacts
<1>3. /\ head \in [Lists -> Addresses \cup {None}] /\ tail \in [Lists -> Addresses \cup {None}]
      /\ head' = [head EXCEPT ![l] = IF head[l] = tail[l] THEN None ELSE next(head[l])]
      /\ tail' = IF head[l] = tail[l] THEN [tail EXCEPT ![l] = None] ELSE tail
  BY DEF IInv, TypeOK, pop_front
<1>4. \A k \in Lists :
        /\ head[k] = IF path[k] = <<>> THEN None ELSE path[k][1]
        /\ tail[k] = IF path[k] = <<>> THEN None ELSE path[k][Len(path[k])]
        /\ \A i \in 1 .. Len(path[k]) - 1 : mem[path[k][i]][1] = path[k][i + 1]
  BY DEF IInv, WellLinked, next
<1>5. \A j, k \in Lists : \A m \in 1 .. Len(path[j]), n \in 1 .. Len(path[k]) :
        path[j][m] = path[k][n] => j = k /\ m = n
  BY DEF IInv, OneOwner
<1>6. head[l] = tail[l] <=> Len(path[l]) = 1
  <2>1. 1 \in 1 .. Len(path[l]) /\ Len(path[l]) \in 1 .. Len(path[l])
    BY <1>2
  <2>2. path[l][1] = path[l][Len(path[l])] => 1 = Len(path[l])
    <3>1. \A m, n \in 1 .. Len(path[l]) : path[l][m] = path[l][n] => m = n
      BY <1>5, ZenonT(40)
    <3> QED
      BY <2>1, <3>1, ZenonT(40)
  <2>3. tail[l] = path[l][Len(path[l])]
    BY <1>1, <1>4
  <2> QED
    BY <1>1, <2>2, <2>3
<1>7. path'[l] = <<>> <=> Len(path[l]) = 1
  <2>1. path'[l] \in Seq(Addresses)
    BY <1>1
  <2>2. path'[l] # <<>> => Len(path'[l]) \in Nat \ {0}
    BY <2>1, EmptySeq
  <2>3. path'[l] = <<>> => Len(path'[l]) = 0
    BY EmptySeq
  <2> QED
    BY <1>1, <1>2, <2>2, <2>3
<1>8. \A k \in Lists : \A i \in 1 .. Len(path'[k]) : path'[k][i] \in Addresses /\ path'[k][i] # head[l]
  <2>1. ASSUME NEW k \in Lists, NEW i \in 1 .. Len(path'[k])
        PROVE  path'[k][i] \in Addresses /\ path'[k][i] # head[l]
    <3>1. CASE k = l
      <4>1. i + 1 \in 1 .. Len(path[l]) /\ path'[k][i] = path[l][i + 1] /\ i + 1 # 1
        BY <1>1, <1>2, <3>1
      <4> QED
        BY <1>1, <1>2, <1>5, <4>1
    <3>2. CASE k # l
      <4>1. path'[k] = path[k] /\ 1 \in 1 .. Len(path[l])
        BY <1>1, <1>2, <3>2
      <4> QED
        BY <1>1, <1>2, <1>5, <3>2, <4>1
    <3> QED
      BY <3>1, <3>2
  <2> QED
    BY <2>1
<1>9. \A k \in Lists : \A i \in 1 .. Len(path'[k]) : mem'[path'[k][i]][1] = mem[path'[k][i]][1]
  BY <1>8 DEF KeepsAllBut
<1>10. ASSUME NEW k \in Lists
       PROVE  /\ head'[k] = IF path'[k] = <<>> THEN None ELSE path'[k][1]
              /\ tail'[k] = IF path'[k] = <<>> THEN None ELSE path'[k][Len(path'[k])]
              /\ \A i \in 1 .. Len(path'[k]) - 1 : mem'[path'[k][i]][1] = path'[k][i + 1]
  <2>1. CASE k # l
    <3>1. path'[k] = path[k] /\ head'[k] = head[k] /\ tail'[k] = tail[k]
      BY <1>1, <1>3, <2>1
    <3>2. \A i \in 1 .. Len(path[k]) - 1 : i \in 1 .. Len(path[k])
      BY <1>2
    <3>3. \A i \in 1 .. Len(path[k]) - 1 : mem'[path[k][i]][1] = path[k][i + 1]
      <4>1. TAKE i \in 1 .. Len(path[k]) - 1
      <4>2. mem'[path[k][i]][1] = mem[path[k][i]][1]
        BY <1>9, <3>1, <3>2
      <4>3. mem[path[k][i]][1] = path[k][i + 1]
        BY <1>4
      <4> QED
        BY <4>2, <4>3
    <3> QED
      BY <1>4, <3>1, <3>3, ZenonT(40)
  <2>2. CASE k = l /\ Len(path[l]) = 1
    <3>1. path'[k] = <<>> /\ head'[k] = None /\ tail'[k] = None /\ Len(path'[k]) = 0
      BY <1>1, <1>3, <1>6, <1>7, <2>2
    <3> QED
      BY <3>1
  <2>3. CASE k = l /\ Len(path[l]) # 1
    <3>1. path'[k] # <<>> /\ head'[k] = mem[path[l][1]][1] /\ tail'[k] = tail[l]
      BY <1>1, <1>3, <1>6, <1>7, <2>3 DEF next
    <3>2. 1 \in 1 .. Len(path[l]) - 1 /\ 1 \in 1 .. Len(path'[l])
      <4>1. Len(path[l]) \in Nat /\ Len(path[l]) > 0 /\ Len(path[l]) # 1
            /\ Len(path'[l]) = Len(path[l]) - 1
        BY <1>1, <1>2, <2>3, ZenonT(40)
      <4>2. \A n \in Nat : \A m : n > 0 /\ n # 1 /\ m = n - 1 => 1 \in 1 .. n - 1 /\ 1 \in 1 .. m
        OBVIOUS
      <4> QED
        BY <4>1, <4>2, ZenonT(40)
    <3>3. head'[k] = path'[k][1]
      BY <1>1, <1>4, <2>3, <3>1, <3>2
    <3>4. tail'[k] = path'[k][Len(path'[k])]
      BY <1>1, <1>2, <1>4, <2>3, <3>1, <3>2
    <3>5. ASSUME NEW i \in 1 .. Len(path'[k]) - 1
          PROVE  mem'[path'[k][i]][1] = path'[k][i + 1]
      <4>1. /\ i \in 1 .. Len(path'[l]) /\ i + 1 \in 1 .. Len(path'[l])
            /\ i + 1 \in 1 .. Len(path[l]) - 1
        BY <1>1, <1>2, <2>3
      <4>2. mem[path[l][i + 1]][1] = path[l][i + 1 + 1]
        BY <1>4, <4>1
      <4> QED
        BY <1>1, <1>9, <2>3, <4>1, <4>2, ZenonT(40)
    <3> QED
      BY <3>1, <3>3, <3>4, <3>5
  <2> QED
    BY <2>1, <2>2, <2>3
<1>11. WellLinked'
  BY <1>10 DEF WellLinked, next
<1>12. head'[l] \in Addresses \cup {None}
  BY <1>1, <1>2, <1>7, <1>8, <1>10, EmptySeq
<1> QED
  BY <1>3, <1>11, <1>12

\* read hands the first storage over to the application.
LEMMA ReadStep ==
  ASSUME IInv, NEW l \in Lists, read(l)
  PROVE  IInv'
<1>1. /\ TypeOK /\ OneOwner /\ FrameFilled /\ pop_front(l) /\ kept[l] = None
      /\ kept' = [kept EXCEPT ![l] = head[l]] /\ UNCHANGED <<mem, frame, dropping>>
  BY DEF IInv, read
<1>2. path[l] # <<>> /\ head[l] = path[l][1] /\ head[l] \in Addresses
      /\ path' \in [Lists -> Seq(Addresses)]
  BY <1>1, PopPath
<1>3. InList(head[l]) /\ ~InHand(head[l]) /\ ~InFrame(head[l])
  BY <1>2, PathFacts
<1>4. \A a \in Addresses : InList(a)' <=> InList(a) /\ a # head[l]
  BY <1>1, PopOwner
<1>5. \A j, k \in Lists : \A m \in 1 .. Len(path'[j]), n \in 1 .. Len(path'[k]) :
        path'[j][m] = path'[k][n] => j = k /\ m = n
  BY <1>1, PopOwner
<1>6. /\ WellLinked'
      /\ head' \in [Lists -> Addresses \cup {None}] /\ tail' \in [Lists -> Addresses \cup {None}]
  <2>1. KeepsAllBut(head[l])
    BY <1>1 DEF KeepsAllBut
  <2> QED
    BY <1>1, <2>1, PopLinks
<1>7. \A a \in Addresses : InHand(a)' <=> InHand(a) \/ a = head[l]
  BY <1>1, <1>2, DataListAssumption DEF TypeOK, InHand
<1>8. \A a \in Addresses : (InFrame(a)' <=> InFrame(a)) /\ (free(a)' <=> free(a)) /\ Content(a)' = Content(a)
  BY <1>1 DEF InFrame, free, Content
<1>9. kept' \in [Lists -> Addresses \cup {None}] /\ dropping' \subseteq Lists
  BY <1>1, <1>2 DEF TypeOK
<1>10. TypeOK'
  <2>1. \A a \in Addresses : (InHand(a) \/ InList(a))' => Content(a)' \in Seq(Byte)
    BY <1>1, <1>3, <1>4, <1>7, <1>8 DEF TypeOK
  <2> QED
    BY <1>1, <1>2, <1>6, <1>9, <2>1 DEF TypeOK
<1>11. OneOwner'
  <2>1. \A j, k \in Lists : kept'[j] # None /\ kept'[j] = kept'[k] => j = k
    BY <1>1, <1>2, <1>3 DEF TypeOK, OneOwner, InHand
  <2>2. \A a \in Addresses :
          /\ (free(a) <=> ~(InFrame(a) \/ InHand(a) \/ InList(a)))'
          /\ (~(InFrame(a) /\ InHand(a)) /\ ~(InFrame(a) /\ InList(a)) /\ ~(InHand(a) /\ InList(a)))'
    BY <1>1, <1>3, <1>4, <1>7, <1>8 DEF OneOwner
  <2> QED
    BY <1>5, <2>1, <2>2 DEF OneOwner
<1>12. FrameFilled'
  BY <1>1 DEF FrameFilled
<1> QED
  BY <1>6, <1>10, <1>11, <1>12 DEF IInv

\* A step that frees the storage at a changes no other and no frame.
LEMMA FreeFrame ==
  ASSUME IInv, NEW a \in Addresses, ~InFrame(a), frame' = frame,
         mem' = [mem EXCEPT ![a] = <<>>]
  PROVE  /\ FrameFilled' /\ KeepsAllBut(a) /\ free(a)'
         /\ mem' \in [Addresses -> Seq(Cells)]
         /\ \A b \in Addresses : InFrame(b)' <=> InFrame(b)
         /\ \A b \in Addresses : b # a => (free(b)' <=> free(b)) /\ Content(b)' = Content(b)
<1>1. mem \in [Addresses -> Seq(Cells)]
  BY DEF IInv, TypeOK
<1>2. \A b \in Addresses : b # a => mem'[b] = mem[b]
  BY <1>1
<1>3. mem'[a] = <<>> /\ mem' \in [Addresses -> Seq(Cells)]
  BY <1>1, EmptySeq, ZenonT(40)
<1>4. FrameFilled'
  <2>1. frame # None /\ frame.at # Dangling => frame.at \in Addresses /\ frame.at # a
    BY FrameFacts DEF InFrame
  <2> QED
    BY <1>2, <2>1 DEF IInv, FrameFilled
<1> QED
  BY <1>2, <1>3, <1>4 DEF KeepsAllBut, free, InFrame, Content

\* Dropping what the application keeps frees it.
LEMMA DropBytesStep ==
  ASSUME IInv, NEW l \in Lists, drop_bytes(l)
  PROVE  IInv'
<1>1. PICK a \in Addresses : a = kept[l]
  BY DEF IInv, TypeOK, drop_bytes
<1>2. /\ TypeOK /\ OneOwner /\ WellLinked /\ a # None /\ UNCHANGED <<frame, listVars>>
      /\ kept' = [kept EXCEPT ![l] = None] /\ mem' = [mem EXCEPT ![a] = <<>>]
  BY <1>1 DEF IInv, drop_bytes
<1>3. InHand(a)
  BY <1>1 DEF InHand
<1>4. ~InFrame(a) /\ ~InList(a)
  BY <1>2, <1>3 DEF OneOwner
<1>5. /\ FrameFilled' /\ KeepsAllBut(a) /\ free(a)'
      /\ mem' \in [Addresses -> Seq(Cells)]
      /\ \A b \in Addresses : InFrame(b)' <=> InFrame(b)
      /\ \A b \in Addresses : b # a => (free(b)' <=> free(b)) /\ Content(b)' = Content(b)
  <2>1. frame' = frame
    BY <1>2
  <2> QED
    BY <1>2, <1>3, <1>4, <2>1, FreeFrame, ZenonT(40)
<1>6. \A b \in Addresses : InList(b)' <=> InList(b)
  BY <1>2 DEF InList, listVars
<1>7. \A k \in Lists : k # l => kept[k] # a
  BY <1>1, <1>2 DEF OneOwner
<1>8. \A b \in Addresses : InHand(b)' <=> InHand(b) /\ b # a
  BY <1>1, <1>2, <1>3, <1>7, DataListAssumption DEF TypeOK, InHand
<1>9. TypeOK'
  <2>1. \A b \in Addresses : (InHand(b) \/ InList(b))' => Content(b)' \in Seq(Byte)
    BY <1>2, <1>4, <1>5, <1>6, <1>8, ZenonT(40) DEF TypeOK
  <2>2. kept' \in [Lists -> Addresses \cup {None}]
    BY <1>2 DEF TypeOK
  <2> QED
    BY <1>2, <1>5, <2>1, <2>2 DEF TypeOK, listVars
<1>10. OneOwner'
  <2>1. \A j, k \in Lists : kept'[j] # None /\ kept'[j] = kept'[k] => j = k
    BY <1>2 DEF TypeOK, OneOwner
  <2>2. ASSUME NEW b \in Addresses
        PROVE  /\ (free(b) <=> ~(InFrame(b) \/ InHand(b) \/ InList(b)))'
               /\ (~(InFrame(b) /\ InHand(b)) /\ ~(InFrame(b) /\ InList(b)))'
               /\ (~(InHand(b) /\ InList(b)))'
    <3>1. CASE b = a
      BY <1>4, <1>5, <1>6, <1>8, <3>1, ZenonT(40)
    <3>2. CASE b # a
      <4>1. /\ free(b) <=> ~(InFrame(b) \/ InHand(b) \/ InList(b))
            /\ ~(InFrame(b) /\ InHand(b)) /\ ~(InFrame(b) /\ InList(b))
            /\ ~(InHand(b) /\ InList(b))
        BY <1>2 DEF OneOwner
      <4> QED
        BY <1>5, <1>6, <1>8, <3>2, <4>1, ZenonT(40)
    <3> QED
      BY <3>1, <3>2
  <2> QED
    BY <1>2, <2>1, <2>2 DEF OneOwner, listVars
<1>11. WellLinked'
  <2>1. \A k \in Lists : \A i \in 1 .. Len(path[k]) - 1 : mem'[path[k][i]] = mem[path[k][i]]
    <3>1. TAKE k \in Lists
    <3>2. TAKE i \in 1 .. Len(path[k]) - 1
    <3>3. i \in 1 .. Len(path[k])
      BY PathFacts
    <3> QED
      BY <1>4, <1>5, <3>3, PathFacts DEF KeepsAllBut
  <2> QED
    BY <1>2, <2>1 DEF WellLinked, next, listVars
<1> QED
  BY <1>5, <1>9, <1>10, <1>11 DEF IInv

\* Dropping a node of a list frees it.
LEMMA DropFrontStep ==
  ASSUME IInv, NEW l \in Lists, drop_front(l)
  PROVE  IInv'
<1>1. PICK a \in Addresses : a = head[l]
  BY PopPath DEF drop_front
<1>2. /\ TypeOK /\ OneOwner /\ pop_front(l) /\ UNCHANGED <<frame, kept, dropping>>
      /\ mem' = [mem EXCEPT ![a] = <<>>]
  BY <1>1 DEF IInv, drop_front
<1>3. path[l] # <<>> /\ a = path[l][1] /\ path' \in [Lists -> Seq(Addresses)]
  BY <1>1, <1>2, PopPath
<1>4. InList(a) /\ ~InHand(a) /\ ~InFrame(a)
  BY <1>3, PathFacts
<1>5. /\ FrameFilled' /\ KeepsAllBut(a) /\ free(a)'
      /\ mem' \in [Addresses -> Seq(Cells)]
      /\ \A b \in Addresses : InFrame(b)' <=> InFrame(b)
      /\ \A b \in Addresses : b # a => (free(b)' <=> free(b)) /\ Content(b)' = Content(b)
  <2>1. frame' = frame
    BY <1>2
  <2> QED
    BY <1>2, <1>3, <1>4, <2>1, FreeFrame, ZenonT(40)
<1>6. \A b \in Addresses : InList(b)' <=> InList(b) /\ b # a
  BY <1>1, <1>2, PopOwner
<1>7. \A j, k \in Lists : \A m \in 1 .. Len(path'[j]), n \in 1 .. Len(path'[k]) :
        path'[j][m] = path'[k][n] => j = k /\ m = n
  BY <1>2, PopOwner
<1>8. \A b \in Addresses : InHand(b)' <=> InHand(b)
  BY <1>2 DEF InHand
<1>9. /\ WellLinked'
      /\ head' \in [Lists -> Addresses \cup {None}] /\ tail' \in [Lists -> Addresses \cup {None}]
  BY <1>1, <1>2, <1>5, PopLinks
<1>10. TypeOK'
  <2>1. \A b \in Addresses : (InHand(b) \/ InList(b))' => Content(b)' \in Seq(Byte)
    BY <1>2, <1>4, <1>5, <1>6, <1>8, ZenonT(40) DEF TypeOK
  <2> QED
    BY <1>2, <1>3, <1>5, <1>9, <2>1 DEF TypeOK
<1>11. OneOwner'
  <2>1. ASSUME NEW b \in Addresses
        PROVE  /\ (free(b) <=> ~(InFrame(b) \/ InHand(b) \/ InList(b)))'
               /\ (~(InFrame(b) /\ InHand(b)) /\ ~(InFrame(b) /\ InList(b)))'
               /\ (~(InHand(b) /\ InList(b)))'
    <3>1. CASE b = a
      BY <1>4, <1>5, <1>6, <1>8, <3>1, ZenonT(40)
    <3>2. CASE b # a
      <4>1. /\ free(b) <=> ~(InFrame(b) \/ InHand(b) \/ InList(b))
            /\ ~(InFrame(b) /\ InHand(b)) /\ ~(InFrame(b) /\ InList(b))
            /\ ~(InHand(b) /\ InList(b))
        BY <1>2 DEF OneOwner
      <4> QED
        BY <1>5, <1>6, <1>8, <3>2, <4>1, ZenonT(40)
    <3> QED
      BY <3>1, <3>2
  <2> QED
    BY <1>2, <1>7, <2>1 DEF OneOwner
<1> QED
  BY <1>5, <1>9, <1>10, <1>11 DEF IInv

\* The beginning and the end of a drop change nothing else.
LEMMA DropStep ==
  ASSUME IInv, NEW l \in Lists, drop(l) \/ dropped(l)
  PROVE  IInv'
<1>1. UNCHANGED <<mem, frame, head, tail, kept, path>>
  BY DEF drop, dropped
<1>2. dropping' \subseteq Lists
  BY DEF IInv, TypeOK, drop, dropped
<1>3. \A a \in Addresses : /\ InFrame(a)' <=> InFrame(a)
                           /\ InHand(a)' <=> InHand(a)
                           /\ InList(a)' <=> InList(a)
                           /\ free(a)' <=> free(a)
                           /\ Content(a)' = Content(a)
  BY <1>1 DEF InFrame, InHand, InList, free, Content
<1>4. TypeOK'
  BY <1>1, <1>2, <1>3 DEF IInv, TypeOK
<1>5. OneOwner'
  BY <1>1, <1>3 DEF IInv, OneOwner
<1>6. FrameFilled' /\ WellLinked'
  BY <1>1, ZenonT(40) DEF IInv, FrameFilled, WellLinked, next
<1> QED
  BY <1>4, <1>5, <1>6 DEF IInv

\* What push_back of the storage at a does to the list, seen as a queue.
PushedPath(l, a) ==
  /\ path' \in [Lists -> Seq(Addresses)]
  /\ Len(path'[l]) = Len(path[l]) + 1 /\ path'[l] # <<>> /\ path'[l][Len(path[l]) + 1] = a
  /\ \A i \in 1 .. Len(path[l]) : path'[l][i] = path[l][i]
  /\ \A k \in Lists : k # l => path'[k] = path[k]

\* push_back gives the storage to the list, and to no other.
LEMMA PushOwner ==
  ASSUME IInv, NEW l \in Lists, NEW a \in Addresses, ~InList(a), PushedPath(l, a)
  PROVE  /\ \A b \in Addresses : InList(b)' <=> InList(b) \/ b = a
         /\ \A j, k \in Lists : \A m \in 1 .. Len(path'[j]), n \in 1 .. Len(path'[k]) :
              path'[j][m] = path'[k][n] => j = k /\ m = n
<1>1. \A k \in Lists : Len(path[k]) \in Nat
  BY PathFacts
<1>2. \A k \in Lists : \A i \in 1 .. Len(path[k]) :
        i \in 1 .. Len(path'[k]) /\ path'[k][i] = path[k][i] /\ path[k][i] # a
  BY <1>1 DEF PushedPath, InList
<1>3. ASSUME NEW k \in Lists, NEW i \in 1 .. Len(path'[k])
      PROVE  \/ i \in 1 .. Len(path[k]) /\ path'[k][i] = path[k][i] /\ path'[k][i] # a
             \/ k = l /\ i = Len(path[l]) + 1 /\ path'[k][i] = a
  <2>1. CASE i \in 1 .. Len(path[k])
    BY <1>2, <2>1
  <2>2. CASE i \notin 1 .. Len(path[k])
    <3>1. k = l /\ Len(path[l]) \in Nat /\ Len(path'[l]) = Len(path[l]) + 1
      BY <1>1, <2>2 DEF PushedPath
    <3>2. i = Len(path[l]) + 1
      BY <2>2, <3>1
    <3> QED
      BY <3>1, <3>2 DEF PushedPath
  <2> QED
    BY <2>1, <2>2
<1>4. \A b \in Addresses : InList(b)' <=> InList(b) \/ b = a
  <2>1. ASSUME NEW b \in Addresses, InList(b)'
        PROVE  InList(b) \/ b = a
    BY <1>3, <2>1 DEF InList
  <2>2. ASSUME NEW b \in Addresses, InList(b)
        PROVE  InList(b)'
    BY <1>2, <2>2 DEF InList
  <2>3. InList(a)'
    <3>1. Len(path[l]) + 1 \in 1 .. Len(path'[l]) /\ path'[l][Len(path[l]) + 1] = a
      BY <1>1 DEF PushedPath
    <3> QED
      BY <3>1 DEF InList
  <2> QED
    BY <2>1, <2>2, <2>3
<1>5. ASSUME NEW j \in Lists, NEW k \in Lists,
             NEW m \in 1 .. Len(path'[j]), NEW n \in 1 .. Len(path'[k]),
             path'[j][m] = path'[k][n]
      PROVE  j = k /\ m = n
  <2>1. \A x \in 1 .. Len(path[j]), y \in 1 .. Len(path[k]) :
          path[j][x] = path[k][y] => j = k /\ x = y
    BY ZenonT(40) DEF IInv, OneOwner
  <2>2. \/ m \in 1 .. Len(path[j]) /\ path'[j][m] = path[j][m] /\ path'[j][m] # a
        \/ j = l /\ m = Len(path[l]) + 1 /\ path'[j][m] = a
    BY <1>3
  <2>3. \/ n \in 1 .. Len(path[k]) /\ path'[k][n] = path[k][n] /\ path'[k][n] # a
        \/ k = l /\ n = Len(path[l]) + 1 /\ path'[k][n] = a
    BY <1>3
  <2> QED
    BY <1>5, <2>1, <2>2, <2>3, ZenonT(40)
<1> QED
  BY <1>4, <1>5

\* What push_back does to the storages: the last one is linked to a.
PushedMem(l, a) ==
  /\ mem' \in [Addresses -> Seq(Cells)]
  /\ \A b \in Addresses : b # tail[l] => mem'[b] = mem[b]
  /\ \A b \in Addresses : (free(b)' <=> free(b)) /\ Content(b)' = Content(b)
  /\ path[l] # <<>> => mem'[tail[l]][1] = a

\* push_back writes a link, and no data.
LEMMA PushMem ==
  ASSUME IInv, NEW l \in Lists, NEW a \in Addresses,
         mem' = IF tail[l] = None THEN mem ELSE set_next(tail[l], a)
  PROVE  PushedMem(l, a)
<1> DEFINE t == tail[l]
<1>1. /\ mem \in [Addresses -> Seq(Cells)]
      /\ t = IF path[l] = <<>> THEN None ELSE path[l][Len(path[l])]
  BY DEF IInv, TypeOK, WellLinked
<1>2. CASE path[l] = <<>>
  <2>1. mem' = mem
    BY <1>1, <1>2
  <2> QED
    BY <1>1, <1>2, <2>1 DEF PushedMem, free, Content
<1>3. CASE path[l] # <<>>
  <2>1. Len(path[l]) \in 1 .. Len(path[l])
    BY <1>3, PathFacts
  <2>2. t \in Addresses /\ InList(t) /\ t # None
    BY <1>1, <1>3, <2>1, PathFacts, DataListAssumption
  <2>3. mem[t] # <<>> /\ mem[t] \in Seq(Cells)
    BY <1>1, <2>2 DEF IInv, OneOwner, free
  <2>4. mem' = [mem EXCEPT ![t] = [mem[t] EXCEPT ![1] = a]]
    BY <2>2 DEF set_next
  <2>5. LET s == [mem[t] EXCEPT ![1] = a]
        IN  s \in Seq(Cells) /\ s # <<>> /\ s[1] = a /\ as_slice(s) = as_slice(mem[t])
    BY <2>3, SetNext, ZenonT(40)
  <2>6. mem'[t] = [mem[t] EXCEPT ![1] = a] /\ \A b \in Addresses : b # t => mem'[b] = mem[b]
    BY <1>1, <2>2, <2>4
  <2>7. mem' \in [Addresses -> Seq(Cells)]
    BY <1>1, <2>4, <2>5, ZenonT(40)
  <2>8. \A b \in Addresses : (free(b)' <=> free(b)) /\ Content(b)' = Content(b)
    <3>1. (mem'[t] = <<>> <=> mem[t] = <<>>) /\ as_slice(mem'[t]) = as_slice(mem[t])
      BY <2>3, <2>5, <2>6
    <3> QED
      BY <2>6, <3>1 DEF free, Content
  <2> QED
    BY <2>5, <2>6, <2>7, <2>8 DEF PushedMem
<1> QED
  BY <1>2, <1>3

\* push_back leaves lists that are linked.
LEMMA PushLinks ==
  ASSUME IInv, NEW l \in Lists, NEW a \in Addresses, PushedPath(l, a), PushedMem(l, a),
         head' = IF tail[l] = None THEN [head EXCEPT ![l] = a] ELSE head,
         tail' = [tail EXCEPT ![l] = a]
  PROVE  WellLinked'
<1>1. /\ head \in [Lists -> Addresses \cup {None}] /\ tail \in [Lists -> Addresses \cup {None}]
      /\ \A k \in Lists :
           /\ head[k] = IF path[k] = <<>> THEN None ELSE path[k][1]
           /\ tail[k] = IF path[k] = <<>> THEN None ELSE path[k][Len(path[k])]
           /\ \A i \in 1 .. Len(path[k]) - 1 : mem[path[k][i]][1] = path[k][i + 1]
  BY ZenonT(40) DEF IInv, TypeOK, WellLinked, next
<1>2. /\ \A k \in Lists : Len(path[k]) \in Nat /\ (path[k] # <<>> => Len(path[k]) > 0)
      /\ \A k \in Lists : \A i \in 1 .. Len(path[k]) : path[k][i] \in Addresses
  BY PathFacts
<1>3. path[l] = <<>> <=> tail[l] = None
  BY <1>1, <1>2, DataListAssumption
<1>4. path[l] = <<>> => Len(path[l]) = 0
  BY EmptySeq
<1>5. ASSUME NEW k \in Lists, k # l
      PROVE  /\ head'[k] = IF path'[k] = <<>> THEN None ELSE path'[k][1]
             /\ tail'[k] = IF path'[k] = <<>> THEN None ELSE path'[k][Len(path'[k])]
             /\ \A i \in 1 .. Len(path'[k]) - 1 : mem'[path'[k][i]][1] = path'[k][i + 1]
  <2>1. path'[k] = path[k] /\ head'[k] = head[k] /\ tail'[k] = tail[k]
    BY <1>1, <1>5 DEF PushedPath
  <2>2. ASSUME NEW i \in 1 .. Len(path[k]) - 1
        PROVE  mem'[path[k][i]] = mem[path[k][i]]
    <3>1. i \in 1 .. Len(path[k]) /\ path[k][i] \in Addresses
      BY <1>2
    <3>2. ASSUME path[k][i] = tail[l]
          PROVE  FALSE
      <4>1. path[l] # <<>> /\ tail[l] = path[l][Len(path[l])] /\ Len(path[l]) \in 1 .. Len(path[l])
        BY <1>1, <1>2, <1>3, <3>1, <3>2, DataListAssumption
      <4>2. \A x \in 1 .. Len(path[k]), y \in 1 .. Len(path[l]) :
              path[k][x] = path[l][y] => k = l
        BY ZenonT(40) DEF IInv, OneOwner
      <4> QED
        BY <1>5, <3>1, <3>2, <4>1, <4>2, ZenonT(40)
    <3> QED
      BY <3>1, <3>2 DEF PushedMem
  <2> QED
    BY <1>1, <2>1, <2>2
<1>6. head'[l] = path'[l][1]
  <2>1. CASE path[l] = <<>>
    BY <1>1, <1>3, <1>4, <2>1 DEF PushedPath
  <2>2. CASE path[l] # <<>>
    <3>1. 1 \in 1 .. Len(path[l])
      BY <1>2, <2>2
    <3> QED
      BY <1>1, <1>3, <2>2, <3>1 DEF PushedPath
  <2> QED
    BY <2>1, <2>2
<1>7. tail'[l] = path'[l][Len(path'[l])]
  BY <1>1 DEF PushedPath
<1>8. ASSUME NEW i \in 1 .. Len(path'[l]) - 1
      PROVE  mem'[path'[l][i]][1] = path'[l][i + 1]
  <2>1. Len(path[l]) \in Nat /\ Len(path'[l]) = Len(path[l]) + 1
    BY <1>2 DEF PushedPath
  <2>2. i \in 1 .. Len(path[l])
    <3>1. \A x \in Nat : \A y : y = x + 1 => \A z \in 1 .. y - 1 : z \in 1 .. x
      OBVIOUS
    <3> QED
      BY <2>1, <3>1, ZenonT(40)
  <2>3. path'[l][i] = path[l][i] /\ path[l][i] \in Addresses
    BY <1>2, <2>2 DEF PushedPath
  <2>4. path[l] # <<>> /\ tail[l] = path[l][Len(path[l])]
    BY <1>1, <1>4, <2>1, <2>2
  <2>5. CASE i = Len(path[l])
    BY <2>3, <2>4, <2>5 DEF PushedPath, PushedMem
  <2>6. CASE i # Len(path[l])
    <3>1. i \in 1 .. Len(path[l]) - 1 /\ i + 1 \in 1 .. Len(path[l])
          /\ Len(path[l]) \in 1 .. Len(path[l])
      BY <2>1, <2>2, <2>6
    <3>2. \A x, y \in 1 .. Len(path[l]) : path[l][x] = path[l][y] => x = y
      BY ZenonT(40) DEF IInv, OneOwner
    <3>3. path[l][i] # tail[l]
      BY <2>2, <2>4, <2>6, <3>1, <3>2, ZenonT(40)
    <3>4. mem'[path[l][i]] = mem[path[l][i]]
      BY <2>3, <3>3 DEF PushedMem
    <3>5. mem[path[l][i]][1] = path[l][i + 1] /\ path'[l][i + 1] = path[l][i + 1]
      BY <1>1, <3>1, ZenonT(40) DEF PushedPath
    <3> QED
      BY <2>3, <3>4, <3>5
  <2> QED
    BY <2>5, <2>6
<1> QED
  BY <1>5, <1>6, <1>7, <1>8, ZenonT(40) DEF WellLinked, next, PushedPath

\* The data of a frame is what was sent.
LEMMA DataIsChunk ==
  ASSUME IInv, frame # None, frame.data, frame.at # Dangling
  PROVE  Content(frame.at) = frame.chunk
<1>1. /\ frame.chunk \in Seq(Byte) /\ Len(frame.chunk) \in Nat
      /\ mem[frame.at] \in Seq(Cells) /\ Len(mem[frame.at]) = Len(frame.chunk) + 1
  BY FrameFacts
<1>2. \A i \in 1 .. Len(frame.chunk) : mem[frame.at][i + 1] = frame.chunk[i]
  BY DEF IInv, FrameFilled
<1> QED
  BY <1>1, <1>2, FullIsChunk, ZenonT(40) DEF Content

\* The queue after push_back.
LEMMA PushPath ==
  ASSUME IInv, NEW l \in Lists, NEW a \in Addresses,
         path' = [path EXCEPT ![l] = Append(@, a)]
  PROVE  PushedPath(l, a)
<1>1. path \in [Lists -> Seq(Addresses)] /\ path[l] \in Seq(Addresses)
  BY DEF IInv, TypeOK
<1>2. /\ Append(path[l], a) \in Seq(Addresses) /\ Append(path[l], a) # <<>>
      /\ Len(Append(path[l], a)) = Len(path[l]) + 1
      /\ \A i \in 1 .. Len(path[l]) : Append(path[l], a)[i] = path[l][i]
      /\ Append(path[l], a)[Len(path[l]) + 1] = a
  BY <1>1, AppendProperties
<1>3. /\ path'[l] = Append(path[l], a) /\ path' \in [Lists -> Seq(Addresses)]
      /\ \A k \in Lists : k # l => path'[k] = path[k]
  BY <1>1, <1>2
<1> QED
  BY <1>2, <1>3 DEF PushedPath

\* push_back.  A frame without data is dropped, and changes no list.
LEMMA PushBackStep ==
  ASSUME IInv, NEW l \in Lists, push_back(l)
  PROVE  IInv'
<1>1. TypeOK /\ OneOwner /\ frame # None /\ frame.data /\ frame' = None /\ kept' = kept
  BY DEF IInv, push_back
<1>2. \A b \in Addresses : ~InFrame(b)' /\ (InFrame(b) <=> b = frame.at)
  BY <1>1 DEF InFrame
<1>3. FrameFilled'
  BY <1>1 DEF FrameFilled
<1>4. CASE frame.at = Dangling /\ UNCHANGED <<mem, listVars>>
  <2>1. \A b \in Addresses : ~InFrame(b)
    BY <1>2, <1>4, DataListAssumption
  <2>2. \A b \in Addresses : free(b)' <=> free(b)
    BY <1>4 DEF free
  <2>3. \A b \in Addresses : free(b)' <=> ~(InFrame(b)' \/ InHand(b) \/ InList(b))
    BY <1>1, <1>2, <2>1, <2>2 DEF OneOwner
  <2>4. mem' \in [Addresses -> Seq(Cells)]
    BY <1>1, <1>4 DEF TypeOK
  <2> QED
    BY <1>1, <1>2, <1>3, <1>4, <2>3, <2>4, FrameStep
<1>5. CASE /\ frame.at # Dangling
           /\ mem' = IF tail[l] = None THEN mem ELSE set_next(tail[l], frame.at)
           /\ head' = IF tail[l] = None THEN [head EXCEPT ![l] = frame.at] ELSE head
           /\ tail' = [tail EXCEPT ![l] = frame.at]
           /\ path' = [path EXCEPT ![l] = Append(@, frame.at)]
           /\ UNCHANGED dropping
  <2>1. PICK a \in Addresses : a = frame.at
    BY <1>1, <1>5, FrameFacts
  <2>2. ~InHand(a) /\ ~InList(a) /\ ~free(a) /\ Content(a) \in Seq(Byte)
    BY <1>1, <1>5, <2>1, FrameFacts, DataIsChunk
  <2>3. PushedPath(l, a)
    BY <1>5, <2>1, PushPath, ZenonT(40)
  <2>4. PushedMem(l, a)
    BY <1>5, <2>1, PushMem
  <2>5. WellLinked'
    BY <1>5, <2>1, <2>3, <2>4, PushLinks, ZenonT(40)
  <2>6. \A b \in Addresses : InList(b)' <=> InList(b) \/ b = a
    BY <2>2, <2>3, PushOwner
  <2>7. \A j, k \in Lists : \A m \in 1 .. Len(path'[j]), n \in 1 .. Len(path'[k]) :
          path'[j][m] = path'[k][n] => j = k /\ m = n
    BY <2>2, <2>3, PushOwner
  <2>8. \A b \in Addresses : InHand(b)' <=> InHand(b)
    BY <1>1 DEF InHand
  <2>9. TypeOK'
    <3>1. \A b \in Addresses : (InHand(b) \/ InList(b))' => Content(b)' \in Seq(Byte)
      <4>1. \A b \in Addresses : InHand(b) \/ InList(b) => Content(b) \in Seq(Byte)
        BY <1>1 DEF TypeOK
      <4>2. \A b \in Addresses : Content(b)' = Content(b)
        BY <2>4 DEF PushedMem
      <4> QED
        BY <2>2, <2>6, <2>8, <4>1, <4>2
    <3>2. head' \in [Lists -> Addresses \cup {None}] /\ tail' \in [Lists -> Addresses \cup {None}]
      BY <1>1, <1>5, <2>1 DEF TypeOK
    <3> QED
      BY <1>1, <1>5, <2>3, <2>4, <3>1, <3>2 DEF TypeOK, PushedPath, PushedMem
  <2>10. OneOwner'
    <3>1. ASSUME NEW b \in Addresses
          PROVE  /\ (free(b) <=> ~(InFrame(b) \/ InHand(b) \/ InList(b)))'
                 /\ (~(InFrame(b) /\ InHand(b)) /\ ~(InFrame(b) /\ InList(b)))'
                 /\ (~(InHand(b) /\ InList(b)))'
      <4>1. /\ free(b) <=> ~(InFrame(b) \/ InHand(b) \/ InList(b))
            /\ ~(InFrame(b) /\ InHand(b)) /\ ~(InFrame(b) /\ InList(b))
            /\ ~(InHand(b) /\ InList(b))
        BY <1>1 DEF OneOwner
      <4>2. free(b)' <=> free(b)
        BY <2>4 DEF PushedMem
      <4> QED
        BY <1>2, <2>1, <2>2, <2>6, <2>8, <4>1, <4>2, ZenonT(40)
    <3> QED
      BY <1>1, <2>7, <3>1 DEF OneOwner
  <2> QED
    BY <1>3, <2>5, <2>9, <2>10 DEF IInv
<1> QED
  BY <1>4, <1>5 DEF push_back

-----------------------------------------------------------------------------
(* The invariant.                                                          *)

\* No frame is read and no list holds one when the connection starts.
LEMMA InitInvariant == Init => IInv
<1> SUFFICES ASSUME Init PROVE IInv
  OBVIOUS
<1>1. /\ mem = [a \in Addresses |-> <<>>] /\ frame = None /\ dropping = {}
      /\ head = [l \in Lists |-> None] /\ tail = [l \in Lists |-> None]
      /\ kept = [l \in Lists |-> None] /\ path = [l \in Lists |-> <<>>]
  BY DEF Init
<1>2. \A S : <<>> \in Seq(S) /\ Len(<<>>) = 0
  BY EmptySeq
<1>3. \A l \in Lists : path[l] = <<>> /\ Len(path[l]) = 0 /\ kept[l] = None
  BY <1>1, <1>2
<1>4. \A a \in Addresses : ~InFrame(a) /\ ~InHand(a) /\ ~InList(a) /\ free(a)
  BY <1>1, <1>3, DataListAssumption DEF InFrame, InHand, InList, free
<1>5. TypeOK
  <2>1. mem \in [Addresses -> Seq(Cells)] /\ path \in [Lists -> Seq(Addresses)]
    BY <1>1, <1>2, ZenonT(40)
  <2> QED
    BY <1>1, <1>4, <2>1 DEF TypeOK
<1>6. OneOwner
  BY <1>3, <1>4 DEF OneOwner
<1>7. FrameFilled /\ WellLinked
  BY <1>1, <1>3 DEF FrameFilled, WellLinked
<1> QED
  BY <1>5, <1>6, <1>7 DEF IInv

\* Every operation of buffer.rs preserves the invariant.
LEMMA NextInvariant == IInv /\ [Next]_vars => IInv'
<1> SUFFICES ASSUME IInv, [Next]_vars PROVE IInv'
  OBVIOUS
<1>1. CASE \E chunk \in Chunks : with_capacity(chunk)
  BY <1>1, WithCapacityStep
<1>2. CASE frame # None /\ \E n \in 1 .. Len(frame.chunk) : poll_read(n)
  BY <1>2, PollReadStep
<1>3. CASE drop_frame
  BY <1>3, DropFrameStep
<1>4. ASSUME NEW l \in Lists,
             \/ push_back(l) \/ read(l) \/ drop_bytes(l)
             \/ drop(l) \/ drop_front(l) \/ dropped(l)
      PROVE  IInv'
  BY <1>4, PushBackStep, ReadStep, DropBytesStep, DropStep, DropFrontStep
<1>5. CASE UNCHANGED vars
  <2>1. mem' = mem /\ frame' = frame /\ UNCHANGED <<listVars, kept>>
    BY <1>5 DEF vars, listVars
  <2>2. \A a \in Addresses : (InFrame(a)' <=> InFrame(a)) /\ (free(a)' <=> free(a))
    BY <2>1 DEF InFrame, free
  <2>3. FrameFilled'
    BY <2>1 DEF IInv, FrameFilled
  <2> QED
    BY <2>1, <2>2, <2>3, FrameStep DEF IInv, TypeOK, OneOwner
<1> QED
  BY <1>1, <1>2, <1>3, <1>4, <1>5 DEF Next

\* The invariant holds in every state.
THEOREM DataListInvariant == Spec => []IInv
  BY InitInvariant, NextInvariant, PTL DEF Spec

\* The types hold, and Data is fully written, for every allocator and any
\* number of lists (buffer.rs, assume_init).
THEOREM DataListTypes == Spec => []TypeOK
<1>1. IInv => TypeOK
  BY DEF IInv
<1> QED
  BY <1>1, DataListInvariant, PTL

\* Every storage in use has one owner, and no free one has any: no leak, no
\* double free, no use after free (push_back, pop_front, Drop of buffer.rs).
THEOREM DataListOwners == Spec => []OneOwner
<1>1. IInv => OneOwner
  BY DEF IInv
<1> QED
  BY <1>1, DataListInvariant, PTL

\* The links of every list lead through its storages in order, whatever stale
\* links there are (push_back, pop_front of buffer.rs).
THEOREM DataListLinks == Spec => []WellLinked
<1>1. IInv => WellLinked
  BY DEF IInv
<1> QED
  BY <1>1, DataListInvariant, PTL

-----------------------------------------------------------------------------
(* The lists implement queues of chunks.                                   *)

\* A queue is the sequence of the data of its storages.
LEMMA WaitingFacts ==
  ASSUME IInv, NEW l \in Lists
  PROVE  /\ Waiting[l] \in Seq(Seq(Byte)) /\ Len(Waiting[l]) = Len(path[l])
         /\ \A i \in 1 .. Len(path[l]) : Waiting[l][i] = Content(path[l][i])
         /\ Waiting[l] = <<>> <=> path[l] = <<>>
<1>1. Len(path[l]) \in Nat /\ (path[l] # <<>> => Len(path[l]) > 0)
  BY PathFacts
<1>2. \A i \in 1 .. Len(path[l]) : Content(path[l][i]) \in Seq(Byte)
  BY PathFacts, ZenonT(40) DEF IInv, TypeOK
<1>3. Waiting[l] = [i \in 1 .. Len(path[l]) |-> Content(path[l][i])]
  BY DEF Waiting
<1>4. Waiting[l] \in Seq(Seq(Byte)) /\ Len(Waiting[l]) = Len(path[l])
  <2>1. Waiting[l] \in [1 .. Len(path[l]) -> Seq(Byte)]
    BY <1>2, <1>3
  <2> QED
    BY <1>1, <2>1, FunctionIsSeq, ZenonT(40)
<1>5. path[l] = <<>> => Len(path[l]) = 0
  BY EmptySeq
<1>6. Waiting[l] = <<>> <=> Len(Waiting[l]) = 0
  BY <1>4, EmptySeq
<1> QED
  BY <1>1, <1>3, <1>4, <1>5, <1>6

\* A step that keeps the lists and their data keeps the queues.
LEMMA SameWaiting ==
  ASSUME IInv, path' = path, \A b \in Addresses : InList(b) => Content(b)' = Content(b)
  PROVE  Waiting' = Waiting
<1>1. ASSUME NEW l \in Lists, NEW i \in 1 .. Len(path[l])
      PROVE  Content(path[l][i])' = Content(path[l][i])
  <2>1. PICK b \in Addresses : b = path[l][i]
    BY PathFacts
  <2>2. Content(b)' = Content(b)
    BY <2>1, PathFacts
  <2> QED
    BY <2>1, <2>2 DEF Content
<1> QED
  BY <1>1 DEF Waiting

\* A step that keeps what the application has keeps the chunks it holds.
LEMMA SameHeld ==
  ASSUME IInv, kept' = kept, \A b \in Addresses : InHand(b) => Content(b)' = Content(b)
  PROVE  Held' = Held
<1>1. ASSUME NEW l \in Lists, kept[l] # None
      PROVE  Content(kept[l])' = Content(kept[l])
  <2>1. PICK b \in Addresses : b = kept[l]
    BY <1>1 DEF IInv, TypeOK
  <2>2. Content(b)' = Content(b)
    BY <2>1 DEF InHand
  <2> QED
    BY <2>1, <2>2 DEF Content
<1> QED
  BY <1>1 DEF Held

\* The same, of a step that changes one storage that neither has.
LEMMA SameChunks ==
  ASSUME IInv, path' = path, kept' = kept, NEW a, KeepsAllBut(a),
         a \in Addresses => ~InHand(a) /\ ~InList(a)
  PROVE  Waiting' = Waiting /\ Held' = Held
<1>1. \A b \in Addresses : InHand(b) \/ InList(b) => Content(b)' = Content(b)
  BY DEF KeepsAllBut, Content
<1> QED
  BY <1>1, SameWaiting, SameHeld

\* with_capacity is the arrival of a chunk.
LEMMA MapsWithCapacity ==
  ASSUME IInv, NEW chunk \in Chunks, with_capacity(chunk)
  PROVE  Queues!Arrive(chunk)
<1>1. frame = None /\ path' = path /\ kept' = kept /\ mem \in [Addresses -> Seq(Cells)]
  BY DEF IInv, TypeOK, with_capacity, listVars
<1>2. frame' # None /\ frame'.chunk = chunk
  <2>1. frame' \in Frame /\ frame'.chunk = chunk
    <3>1. PICK a \in Addresses \cup {Dangling}, b \in BOOLEAN :
            frame' = [at |-> a, chunk |-> chunk, filled |-> 0, data |-> b]
      BY ZenonT(40) DEF with_capacity
    <3> QED
      BY <3>1 DEF Frame
  <2> QED
    BY <2>1, DataListAssumption, ZenonT(40)
<1>3. \E a \in Addresses \cup {Dangling} :
        KeepsAllBut(a) /\ (a \in Addresses => ~InHand(a) /\ ~InList(a))
  <2>1. CASE UNCHANGED mem
    BY <2>1, DataListAssumption DEF KeepsAllBut
  <2>2. ASSUME NEW a \in Addresses, free(a), mem' = [mem EXCEPT ![a] = storage(Len(chunk))]
        PROVE  KeepsAllBut(a) /\ ~InHand(a) /\ ~InList(a)
    BY <1>1, <2>2 DEF KeepsAllBut, IInv, OneOwner
  <2> QED
    BY <2>1, <2>2 DEF with_capacity
<1>4. Waiting' = Waiting /\ Held' = Held
  BY <1>1, <1>3, SameChunks, ZenonT(40)
<1>5. Arriving = None /\ Arriving' = chunk
  BY <1>1, <1>2 DEF Arriving
<1> QED
  BY <1>4, <1>5 DEF Queues!Arrive

\* poll_read changes no chunk.
LEMMA MapsPollRead ==
  ASSUME IInv, frame # None, NEW n \in 1 .. Len(frame.chunk), poll_read(n)
  PROVE  UNCHANGED <<Arriving, Waiting, Held>>
<1>1. /\ path' = path /\ kept' = kept /\ mem \in [Addresses -> Seq(Cells)]
      /\ mem' = [mem EXCEPT ![frame.at] =
                   fill(mem[frame.at], frame.chunk, frame.filled, frame.filled + n)]
      /\ frame' = [frame EXCEPT !.filled = frame.filled + n,
                                !.data = is_full(frame.filled + n, mem[frame.at])]
  BY DEF IInv, TypeOK, poll_read, listVars
<1>2. PICK a : a = frame.at
  OBVIOUS
<1>3. KeepsAllBut(a)
  BY <1>1, <1>2 DEF KeepsAllBut
<1>4. a \in Addresses => ~InHand(a) /\ ~InList(a)
  BY <1>2, FrameFacts, DataListAssumption
<1>5. Waiting' = Waiting /\ Held' = Held
  BY <1>1, <1>3, <1>4, SameChunks, ZenonT(40)
<1>6. frame' \in Frame /\ frame'.chunk = frame.chunk
  <2>1. frame \in Frame /\ frame.filled + n \in Nat
    <3>1. frame \in Frame /\ frame.filled \in Nat
      BY FrameFacts DEF Frame
    <3> QED
      BY <3>1
  <2>2. \A b \in BOOLEAN, m \in Nat :
          LET f == [frame EXCEPT !.filled = m, !.data = b]
          IN  f \in Frame /\ f.chunk = frame.chunk
    BY <2>1, ZenonT(40) DEF Frame
  <2>3. is_full(frame.filled + n, mem[frame.at]) \in BOOLEAN
    BY DEF is_full
  <2> QED
    BY <1>1, <2>1, <2>2, <2>3, ZenonT(40)
<1>7. frame' # None
  BY <1>6, DataListAssumption, ZenonT(40)
<1> QED
  BY <1>5, <1>6, <1>7 DEF Arriving

\* drop_frame forgets the chunk that arrives, and only that.
LEMMA MapsDropFrame ==
  ASSUME IInv, drop_frame
  PROVE  Queues!Forget
<1>1. /\ frame # None /\ frame' = None /\ path' = path /\ kept' = kept
      /\ mem \in [Addresses -> Seq(Cells)]
      /\ mem' = IF frame.at = Dangling THEN mem ELSE [mem EXCEPT ![frame.at] = <<>>]
  BY DEF IInv, TypeOK, drop_frame, listVars
<1>2. PICK a : a = frame.at
  OBVIOUS
<1>3. KeepsAllBut(a)
  BY <1>1, <1>2 DEF KeepsAllBut
<1>4. a \in Addresses => ~InHand(a) /\ ~InList(a)
  BY <1>1, <1>2, FrameFacts, DataListAssumption
<1>5. Waiting' = Waiting /\ Held' = Held
  BY <1>1, <1>3, <1>4, SameChunks, ZenonT(40)
<1> QED
  BY <1>1, <1>5 DEF Queues!Forget, Arriving

\* push_back appends the chunk that arrived, unless it is empty.
LEMMA MapsPushBack ==
  ASSUME IInv, NEW l \in Lists, push_back(l)
  PROVE  Queues!Deliver(l)
<1>1. frame # None /\ frame.data /\ frame' = None /\ kept' = kept
  BY DEF push_back
<1>2. /\ frame.chunk \in Chunks /\ (frame.at = Dangling <=> frame.chunk = <<>>)
      /\ frame.chunk \in Seq(Byte)
  BY <1>1, FrameFacts DEF Frame
<1>3. Arriving = frame.chunk /\ Arriving # None /\ Arriving' = None
  BY <1>1, <1>2, DataListAssumption DEF Arriving
<1>4. CASE frame.at = Dangling /\ UNCHANGED <<mem, listVars>>
  <2>1. path' = path /\ \A b \in Addresses : Content(b)' = Content(b)
    BY <1>4 DEF listVars, Content
  <2>2. Waiting' = Waiting /\ Held' = Held
    BY <1>1, <2>1, SameWaiting, SameHeld
  <2> QED
    BY <1>2, <1>3, <1>4, <2>2 DEF Queues!Deliver
<1>5. CASE /\ frame.at # Dangling
           /\ mem' = IF tail[l] = None THEN mem ELSE set_next(tail[l], frame.at)
           /\ path' = [path EXCEPT ![l] = Append(@, frame.at)]
  <2>1. PICK a \in Addresses : a = frame.at
    BY <1>1, <1>5, FrameFacts
  <2>2. PushedPath(l, a)
    BY <1>5, <2>1, PushPath, ZenonT(40)
  <2>3. PushedMem(l, a)
    BY <1>5, <2>1, PushMem
  <2>4. \A b \in Addresses : Content(b)' = Content(b)
    BY <2>3 DEF PushedMem
  <2>5. Content(a) = frame.chunk
    BY <1>1, <1>5, <2>1, DataIsChunk
  <2>6. Held' = Held
    BY <1>1, <2>4, SameHeld
  <2>7. \A k \in Lists : k # l => Waiting'[k] = Waiting[k]
    <3>1. ASSUME NEW k \in Lists, k # l, NEW i \in 1 .. Len(path[k])
          PROVE  Content(path[k][i])' = Content(path[k][i])
      <4>1. PICK b \in Addresses : b = path[k][i]
        BY PathFacts
      <4>2. path'[k] = path[k] /\ Content(b)' = Content(b)
        BY <2>2, <2>4, <3>1 DEF PushedPath
      <4> QED
        BY <4>1, <4>2 DEF Content
    <3> QED
      BY <2>2, <3>1 DEF PushedPath, Waiting
  <2>8. Waiting'[l] = Append(Waiting[l], frame.chunk)
    <3>1. /\ Waiting[l] \in Seq(Seq(Byte)) /\ Len(Waiting[l]) = Len(path[l])
          /\ \A i \in 1 .. Len(path[l]) : Waiting[l][i] = Content(path[l][i])
      BY WaitingFacts
    <3>2. LET w == Append(Waiting[l], frame.chunk)
          IN  /\ w \in Seq(Seq(Byte)) /\ Len(w) = Len(path[l]) + 1
              /\ \A i \in 1 .. Len(path[l]) : w[i] = Content(path[l][i])
              /\ w[Len(path[l]) + 1] = Content(a)
      BY <1>2, <2>5, <3>1, AppendProperties
    <3>3. Waiting'[l] = [i \in 1 .. Len(path[l]) + 1 |-> as_slice(mem'[path'[l][i]])]
      BY <2>2 DEF Waiting, Content, PushedPath
    <3>4. ASSUME NEW i \in 1 .. Len(path[l]) + 1
          PROVE  as_slice(mem'[path'[l][i]]) = Append(Waiting[l], frame.chunk)[i]
      <4>1. CASE i = Len(path[l]) + 1
        <5>1. path'[l][i] = a
          BY <2>2, <4>1 DEF PushedPath
        <5>2. as_slice(mem'[a]) = Content(a)
          BY <2>4 DEF Content
        <5> QED
          BY <3>2, <4>1, <5>1, <5>2, ZenonT(40)
      <4>2. CASE i # Len(path[l]) + 1
        <5>1. i \in 1 .. Len(path[l])
          BY <4>2, PathFacts
        <5>2. PICK b \in Addresses : b = path[l][i]
          BY <5>1, PathFacts
        <5>3. path'[l][i] = b
          BY <2>2, <5>1, <5>2 DEF PushedPath
        <5>4. as_slice(mem'[b]) = Content(b)
          BY <2>4 DEF Content
        <5> QED
          BY <3>2, <5>1, <5>2, <5>3, <5>4, ZenonT(40)
      <4> QED
        BY <4>1, <4>2, ZenonT(40)
    <3>5. Append(Waiting[l], frame.chunk)
            = [i \in 1 .. Len(path[l]) + 1 |-> Append(Waiting[l], frame.chunk)[i]]
      BY <3>2, LenProperties
    <3> QED
      BY <3>3, <3>4, <3>5, ZenonT(40)
  <2>9. Waiting' = [Waiting EXCEPT ![l] = Append(@, Arriving)]
    <3>1. /\ Waiting' = [k \in Lists |-> Waiting'[k]]
          /\ Waiting = [k \in Lists |-> Waiting[k]]
      BY DEF Waiting
    <3> QED
      BY <1>3, <2>7, <2>8, <3>1
  <2> QED
    BY <1>2, <1>3, <1>5, <2>6, <2>9 DEF Queues!Deliver
<1> QED
  BY <1>4, <1>5 DEF push_back

\* pop_front takes the first chunk, if the data behind it stays.
LEMMA PopWaiting ==
  ASSUME IInv, NEW l \in Lists, pop_front(l), KeepsAllBut(head[l])
  PROVE  /\ Waiting[l] # <<>> /\ Head(Waiting[l]) = Content(head[l])
         /\ Waiting' = [Waiting EXCEPT ![l] = Tail(@)]
<1>1. /\ path[l] # <<>> /\ head[l] = path[l][1] /\ head[l] \in Addresses
      /\ Len(path'[l]) = Len(path[l]) - 1
      /\ \A i \in 1 .. Len(path'[l]) : path'[l][i] = path[l][i + 1]
      /\ \A k \in Lists : k # l => path'[k] = path[k]
  BY PopPath
<1>2. Len(path[l]) \in Nat /\ Len(path[l]) > 0
  BY <1>1, PathFacts
<1>3. /\ Waiting[l] \in Seq(Seq(Byte)) /\ Len(Waiting[l]) = Len(path[l]) /\ Waiting[l] # <<>>
      /\ \A i \in 1 .. Len(path[l]) : Waiting[l][i] = Content(path[l][i])
  BY <1>1, WaitingFacts
<1>4. ASSUME NEW k \in Lists, NEW i \in 1 .. Len(path'[k])
      PROVE  as_slice(mem'[path'[k][i]]) = as_slice(mem[path'[k][i]])
  <2>1. path'[k] \in Seq(Addresses)
    BY PopPath
  <2>2. PICK b \in Addresses : b = path'[k][i]
    BY <2>1, ElementOfSeq
  <2>3. InList(b)'
    BY <2>2 DEF InList
  <2>4. b # head[l]
    BY <2>3, PopOwner
  <2> QED
    BY <2>2, <2>4 DEF KeepsAllBut
<1>5. \A k \in Lists : k # l => Waiting'[k] = Waiting[k]
  BY <1>1, <1>4 DEF Waiting, Content
<1>6. Waiting'[l] = Tail(Waiting[l])
  <2>1. LET w == Tail(Waiting[l])
        IN  /\ w \in Seq(Seq(Byte)) /\ Len(w) = Len(path[l]) - 1
            /\ \A i \in 1 .. Len(path[l]) - 1 : w[i] = Waiting[l][i + 1]
    BY <1>3, HeadTailProperties
  <2>2. Waiting'[l] = [i \in 1 .. Len(path[l]) - 1 |-> as_slice(mem'[path'[l][i]])]
    BY <1>1 DEF Waiting, Content
  <2>3. ASSUME NEW i \in 1 .. Len(path[l]) - 1
        PROVE  as_slice(mem'[path'[l][i]]) = Tail(Waiting[l])[i]
    <3>1. i \in 1 .. Len(path'[l]) /\ i + 1 \in 1 .. Len(path[l])
      BY <1>1, <1>2
    <3>2. as_slice(mem'[path'[l][i]]) = as_slice(mem[path[l][i + 1]])
      BY <1>1, <1>4, <3>1, ZenonT(40)
    <3> QED
      BY <1>3, <2>1, <3>1, <3>2, ZenonT(40) DEF Content
  <2>4. Tail(Waiting[l]) = [i \in 1 .. Len(path[l]) - 1 |-> Tail(Waiting[l])[i]]
    BY <2>1, LenProperties, ZenonT(40)
  <2> QED
    BY <2>2, <2>3, <2>4, ZenonT(40)
<1>7. Waiting' = [Waiting EXCEPT ![l] = Tail(@)]
  <2>1. /\ Waiting' = [k \in Lists |-> Waiting'[k]]
        /\ Waiting = [k \in Lists |-> Waiting[k]]
    BY DEF Waiting
  <2> QED
    BY <1>5, <1>6, <2>1
<1>8. Head(Waiting[l]) = Content(head[l])
  <2>1. 1 \in 1 .. Len(path[l])
    BY <1>2
  <2>2. Head(Waiting[l]) = Waiting[l][1]
    BY <1>3
  <2> QED
    BY <1>1, <1>3, <2>1, <2>2, ZenonT(40)
<1> QED
  BY <1>3, <1>7, <1>8

\* read gives the first chunk to the application.
LEMMA MapsRead ==
  ASSUME IInv, NEW l \in Lists, read(l)
  PROVE  Queues!Read(l)
<1>1. /\ pop_front(l) /\ kept[l] = None /\ kept' = [kept EXCEPT ![l] = head[l]]
      /\ mem' = mem /\ frame' = frame /\ kept \in [Lists -> Addresses \cup {None}]
  BY DEF IInv, TypeOK, read
<1>2. /\ Waiting[l] # <<>> /\ Head(Waiting[l]) = Content(head[l])
      /\ Waiting' = [Waiting EXCEPT ![l] = Tail(@)]
  <2>1. KeepsAllBut(head[l])
    BY <1>1 DEF KeepsAllBut
  <2> QED
    BY <1>1, <2>1, PopWaiting
<1>3. PICK a \in Addresses : a = head[l]
  BY <1>1, PopPath
<1>4. Held' = [Held EXCEPT ![l] = Head(Waiting[l])]
  <2>1. a # None
    BY DataListAssumption
  <2>2. kept' = [kept EXCEPT ![l] = a]
    BY <1>1, <1>3
  <2>3. Head(Waiting[l]) = Content(a)
    BY <1>2, <1>3
  <2>4. Held' = [k \in Lists |-> IF kept'[k] = None THEN None ELSE as_slice(mem[kept'[k]])]
    BY <1>1 DEF Held, Content
  <2>5. Held = [k \in Lists |-> IF kept[k] = None THEN None ELSE as_slice(mem[kept[k]])]
    BY DEF Held, Content
  <2> QED
    BY <1>1, <2>1, <2>2, <2>3, <2>4, <2>5 DEF Content
<1>5. Held[l] = None /\ Arriving' = Arriving
  BY <1>1 DEF Held, Arriving
<1> QED
  BY <1>2, <1>4, <1>5 DEF Queues!Read

\* drop_bytes ends the use of a chunk, and of no other.
LEMMA MapsDropBytes ==
  ASSUME IInv, NEW l \in Lists, drop_bytes(l)
  PROVE  Queues!Finish(l)
<1>1. PICK a \in Addresses : a = kept[l]
  BY DEF IInv, TypeOK, drop_bytes
<1>2. /\ kept[l] # None /\ kept' = [kept EXCEPT ![l] = None] /\ frame' = frame /\ path' = path
      /\ kept \in [Lists -> Addresses \cup {None}] /\ mem \in [Addresses -> Seq(Cells)]
      /\ mem' = [mem EXCEPT ![a] = <<>>]
  BY <1>1 DEF IInv, TypeOK, drop_bytes, listVars
<1>3. InHand(a)
  BY <1>1 DEF InHand
<1>4. ~InList(a) /\ \A k \in Lists : k # l => kept[k] # a
  BY <1>1, <1>2, <1>3 DEF IInv, OneOwner
<1>5. \A b \in Addresses : b # a => Content(b)' = Content(b) /\ mem'[b] = mem[b]
  BY <1>2 DEF Content
<1>6. Waiting' = Waiting
  BY <1>2, <1>4, <1>5, SameWaiting
<1>7. Held' = [Held EXCEPT ![l] = None]
  <2>1. Held' = [k \in Lists |-> IF kept'[k] = None THEN None ELSE as_slice(mem'[kept'[k]])]
    BY DEF Held, Content
  <2>2. Held = [k \in Lists |-> IF kept[k] = None THEN None ELSE as_slice(mem[kept[k]])]
    BY DEF Held, Content
  <2>3. \A k \in Lists : k # l /\ kept[k] # None => kept[k] \in Addresses /\ kept[k] # a
    BY <1>2, <1>4
  <2>4. \A k \in Lists : k # l /\ kept[k] # None => mem'[kept[k]] = mem[kept[k]]
    BY <1>5, <2>3
  <2>5. /\ kept'[l] = None /\ \A k \in Lists : k # l => kept'[k] = kept[k]
        /\ Held' = [k \in Lists |-> Held'[k]] /\ Held = [k \in Lists |-> Held[k]]
    BY <1>2, <2>1, <2>2
  <2>6. Held'[l] = None /\ \A k \in Lists : k # l => Held'[k] = Held[k]
    BY <2>1, <2>2, <2>4, <2>5
  <2> QED
    BY <2>5, <2>6
<1>8. Arriving' = Arriving
  BY <1>2 DEF Arriving
<1> QED
  BY <1>6, <1>7, <1>8 DEF Queues!Finish

\* A node that is dropped with its list discards the first chunk.
LEMMA MapsDropFront ==
  ASSUME IInv, NEW l \in Lists, drop_front(l)
  PROVE  Queues!Discard(l)
<1>1. PICK a \in Addresses : a = head[l]
  BY PopPath DEF drop_front
<1>2. /\ pop_front(l) /\ frame' = frame /\ kept' = kept
      /\ mem \in [Addresses -> Seq(Cells)] /\ mem' = [mem EXCEPT ![a] = <<>>]
  BY <1>1 DEF IInv, TypeOK, drop_front
<1>3. \A b \in Addresses : b # a => mem'[b] = mem[b] /\ Content(b)' = Content(b)
  BY <1>2 DEF Content
<1>4. ~InHand(a)
  <2>1. path[l] # <<>> /\ a = path[l][1]
    BY <1>1, <1>2, PopPath
  <2> QED
    BY <2>1, PathFacts
<1>5. Waiting[l] # <<>> /\ Waiting' = [Waiting EXCEPT ![l] = Tail(@)]
  <2>1. KeepsAllBut(head[l])
    BY <1>1, <1>3 DEF KeepsAllBut
  <2> QED
    BY <1>2, <2>1, PopWaiting
<1>6. Held' = Held
  BY <1>2, <1>3, <1>4, SameHeld
<1>7. Arriving' = Arriving
  BY <1>2 DEF Arriving
<1> QED
  BY <1>5, <1>6, <1>7 DEF Queues!Discard

\* The initial state has empty queues.
LEMMA MapsInit == Init => Queues!Init
  BY EmptySeq DEF Init, Queues!Init, Arriving, Waiting, Held

\* Every step is one of the queues, or none.
LEMMA MapsNext == IInv /\ [Next]_vars => [Queues!Next]_(Queues!vars)
<1> SUFFICES ASSUME IInv, [Next]_vars
             PROVE  Queues!Next \/ UNCHANGED <<Arriving, Waiting, Held>>
  BY DEF Queues!vars
<1>1. ASSUME NEW chunk \in Chunks, with_capacity(chunk)
      PROVE  Queues!Next
  BY <1>1, MapsWithCapacity DEF Queues!Next
<1>2. ASSUME frame # None, NEW n \in 1 .. Len(frame.chunk), poll_read(n)
      PROVE  UNCHANGED <<Arriving, Waiting, Held>>
  BY <1>2, MapsPollRead
<1>3. CASE drop_frame
  BY <1>3, MapsDropFrame DEF Queues!Next
<1>4. ASSUME NEW l \in Lists, push_back(l) \/ read(l) \/ drop_bytes(l) \/ drop_front(l)
      PROVE  Queues!Next
  BY <1>4, MapsPushBack, MapsRead, MapsDropBytes, MapsDropFront, ZenonT(40) DEF Queues!Next
<1>5. CASE UNCHANGED <<mem, frame, head, tail, kept, path>>
  BY <1>5 DEF Arriving, Waiting, Held, Content
<1>6. ASSUME NEW l \in Lists, drop(l) \/ dropped(l)
      PROVE  UNCHANGED <<mem, frame, head, tail, kept, path>>
  BY <1>6 DEF drop, dropped
<1>7. CASE UNCHANGED vars
  BY <1>5, <1>7 DEF vars
<1> QED
  BY <1>1, <1>2, <1>3, <1>4, <1>5, <1>6, <1>7, ZenonT(40) DEF Next

\* The lists of storages implement queues of chunks (buffer.rs): data is read
\* in the order it arrived, once, and unchanged, for every allocator and any
\* number of lists that share it.
THEOREM DataListRefinement == Spec => ImplementsChunks
  BY DataListInvariant, MapsInit, MapsNext, PTL DEF Spec, ImplementsChunks, Queues!Spec
=============================================================================
