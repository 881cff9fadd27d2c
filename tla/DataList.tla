------------------------------ MODULE DataList ------------------------------
(***************************************************************************)
(* The buffers of received data (src/buffer.rs), from the frame that the   *)
(* codec reads, through the list of a stream, to the application.          *)
(*                                                                         *)
(* A storage is a sequence of cells.  The first one is reserved for the    *)
(* link to the next storage of a list; it is written when the next one is  *)
(* pushed, and never reset.  The allocator may give a freed address out    *)
(* again, to any of the lists.  A list is used through an exclusive        *)
(* reference, but dropping one takes a step for each of its nodes.         *)
(***************************************************************************)
EXTENDS Integers, Sequences

CONSTANTS
  Lists,      \* the DataLists of the streams
  Addresses,  \* what the allocator gives out
  Byte,
  Chunks,     \* the payloads of frames; <<>> is a frame without DATA
  Uninit,     \* MaybeUninit::uninit
  Stub,       \* the link of a storage that was in no list
  Dangling,   \* the address of an empty Box
  None

\* What the connection holds: where it is, what was sent, how many bytes of it
\* were read, and whether it is Data.
Frame == [at : Addresses \cup {Dangling}, chunk : Chunks, filled : Nat, data : BOOLEAN]

ASSUME DataListAssumption ==
  /\ Chunks \subseteq Seq(Byte)
  /\ None \notin Chunks \cup Frame
  /\ Dangling \notin Addresses /\ None \notin Addresses
  /\ Uninit \notin Byte

VARIABLES
  mem,       \* per address: the cells of its storage, <<>> if it is free
  frame,     \* the Buffer or the Data that the connection holds
  head, tail,
  kept,      \* per list: the Bytes that the application holds of it
  dropping,  \* the lists that are being dropped
  path       \* ghost, per list: the storages that were pushed and not popped

listVars == <<head, tail, dropping, path>>
vars == <<mem, frame, head, tail, kept, dropping, path>>

free(a) == mem[a] = <<>>

\* What as_slice, as_ref and Bytes::from leave of a storage: all but the link.
as_slice(s) == [i \in 1 .. Len(s) - 1 |-> s[i + 1]]

-----------------------------------------------------------------------------
(* The frame: Buffer and Data.                                             *)

storage(capacity) == [i \in 1 .. capacity + 1 |-> IF i = 1 THEN Stub ELSE Uninit]

\* A frame with DATA is read into a new buffer; one without has Data::default,
\* an empty Box, which is nowhere.
with_capacity(chunk) ==
  /\ frame = None
  /\ \/ /\ chunk = <<>>
        /\ frame' = [at |-> Dangling, chunk |-> chunk, filled |-> 0, data |-> TRUE]
        /\ UNCHANGED mem
     \/ \E a \in Addresses :
          /\ chunk # <<>> /\ free(a)
          /\ mem' = [mem EXCEPT ![a] = storage(Len(chunk))]
          /\ frame' = [at |-> a, chunk |-> chunk, filled |-> 0, data |-> FALSE]
  /\ UNCHANGED <<listVars, kept>>

\* When assume_init may be called.
is_full_early(filled, s) == filled + 1 >= Len(as_slice(s))
is_full(filled, s) == filled = Len(as_slice(s))

\* The bytes of as_mut_slice from the filled ones on, up to the given one.
fill(s, chunk, filled, to) ==
  [i \in 1 .. Len(s) |-> IF i - 1 \in filled + 1 .. to THEN chunk[i - 1] ELSE s[i]]

\* The transport gives the next n bytes.
poll_read(n) ==
  /\ frame # None /\ ~frame.data
  /\ LET s      == mem[frame.at]
         filled == frame.filled + n
     IN  /\ filled <= Len(as_slice(s))
         /\ mem' = [mem EXCEPT ![frame.at] = fill(s, frame.chunk, frame.filled, filled)]
         /\ frame' = [frame EXCEPT !.filled = filled, !.data = is_full(filled, s)]
  /\ UNCHANGED <<listVars, kept>>

\* The connection ends in the middle of a frame, or its stream is not read
\* any more.
drop_frame ==
  /\ frame # None
  /\ mem' = IF frame.at = Dangling THEN mem ELSE [mem EXCEPT ![frame.at] = <<>>]
  /\ frame' = None
  /\ UNCHANGED <<listVars, kept>>

-----------------------------------------------------------------------------
(* DataList.                                                               *)

next(a) == mem[a][1]
set_next_data(a, link) == [mem EXCEPT ![a][2] = link]
set_next(a, link) == [mem EXCEPT ![a][1] = link]

push_back(l) ==
  /\ frame # None /\ frame.data /\ l \notin dropping
  /\ LET link == frame.at
     IN  \/ /\ link = Dangling
            /\ UNCHANGED <<mem, listVars>>
         \/ /\ link # Dangling
            /\ mem' = IF tail[l] = None THEN mem ELSE set_next(tail[l], link)
            /\ head' = IF tail[l] = None THEN [head EXCEPT ![l] = link] ELSE head
            /\ tail' = [tail EXCEPT ![l] = link]
            /\ path' = [path EXCEPT ![l] = Append(@, link)]
            /\ UNCHANGED dropping
  /\ frame' = None
  /\ UNCHANGED kept

\* pop_front, of a list with a head.
pop_front_tail_stays(l) ==
  /\ head[l] # None
  /\ head' = [head EXCEPT ![l] = IF head[l] = tail[l] THEN None ELSE next(head[l])]
  /\ path' = [path EXCEPT ![l] = Tail(@)]
  /\ UNCHANGED tail
pop_front(l) ==
  /\ head[l] # None
  /\ head' = [head EXCEPT ![l] = IF head[l] = tail[l] THEN None ELSE next(head[l])]
  /\ tail' = IF head[l] = tail[l] THEN [tail EXCEPT ![l] = None] ELSE tail
  /\ path' = [path EXCEPT ![l] = Tail(@)]

\* The application reads the next chunk.  It keeps one of each stream.
read(l) ==
  /\ l \notin dropping /\ kept[l] = None
  /\ pop_front(l)
  /\ kept' = [kept EXCEPT ![l] = head[l]]
  /\ UNCHANGED <<mem, frame, dropping>>

drop_bytes(l) ==
  /\ kept[l] # None
  /\ mem' = [mem EXCEPT ![kept[l]] = <<>>]
  /\ kept' = [kept EXCEPT ![l] = None]
  /\ UNCHANGED <<frame, listVars>>

\* Drop of a list: it pops the nodes and drops them.  The next stream has a
\* new list.
drop_leaks(l) ==
  /\ l \notin dropping
  /\ head' = [head EXCEPT ![l] = None]
  /\ tail' = [tail EXCEPT ![l] = None]
  /\ path' = [path EXCEPT ![l] = <<>>]
  /\ UNCHANGED <<mem, frame, kept, dropping>>
drop(l) ==
  /\ l \notin dropping
  /\ dropping' = dropping \cup {l}
  /\ UNCHANGED <<mem, frame, head, tail, kept, path>>

drop_front(l) ==
  /\ l \in dropping
  /\ pop_front(l)
  /\ mem' = [mem EXCEPT ![head[l]] = <<>>]
  /\ UNCHANGED <<frame, kept, dropping>>

dropped(l) ==
  /\ l \in dropping /\ head[l] = None
  /\ dropping' = dropping \ {l}
  /\ UNCHANGED <<mem, frame, head, tail, kept, path>>

-----------------------------------------------------------------------------
Init ==
  /\ mem = [a \in Addresses |-> <<>>]
  /\ frame = None
  /\ head = [l \in Lists |-> None]
  /\ tail = [l \in Lists |-> None]
  /\ kept = [l \in Lists |-> None]
  /\ dropping = {}
  /\ path = [l \in Lists |-> <<>>]

Next ==
  \/ \E chunk \in Chunks : with_capacity(chunk)
  \/ frame # None /\ \E n \in 1 .. Len(frame.chunk) : poll_read(n)
  \/ drop_frame
  \/ \E l \in Lists :
       \/ push_back(l)
       \/ read(l)
       \/ drop_bytes(l)
       \/ drop(l)
       \/ drop_front(l)
       \/ dropped(l)

Spec == Init /\ [][Next]_vars

-----------------------------------------------------------------------------
(* Properties.                                                             *)

Cells == Byte \cup {Uninit, Stub} \cup Addresses
Content(a) == as_slice(mem[a])

InFrame(a) == frame # None /\ frame.at = a
InHand(a)  == \E l \in Lists : kept[l] = a
InList(a)  == \E l \in Lists : \E i \in 1 .. Len(path[l]) : path[l][i] = a

\* Types.  Data has no byte that was not written, and no part of a link:
\* assume_init is called only on a full buffer.
TypeOK ==
  /\ mem \in [Addresses -> Seq(Cells)]
  /\ \/ frame = None
     \/ /\ frame \in Frame
        /\ frame.at = Dangling <=> frame.chunk = <<>>
  /\ head \in [Lists -> Addresses \cup {None}]
  /\ tail \in [Lists -> Addresses \cup {None}]
  /\ kept \in [Lists -> Addresses \cup {None}]
  /\ dropping \subseteq Lists
  /\ path \in [Lists -> Seq(Addresses)]
  /\ \A a \in Addresses : InHand(a) \/ InList(a) => Content(a) \in Seq(Byte)

\* Every storage in use has exactly one owner, so none is leaked and none is
\* freed twice, and nobody owns a free one (the SAFETY comments of buffer.rs).
OneOwner ==
  /\ \A a \in Addresses :
       /\ free(a) <=> ~(InFrame(a) \/ InHand(a) \/ InList(a))
       /\ ~(InFrame(a) /\ InHand(a)) /\ ~(InFrame(a) /\ InList(a))
       /\ ~(InHand(a) /\ InList(a))
  /\ \A k, l \in Lists : kept[k] # None /\ kept[k] = kept[l] => k = l
  /\ \A k, l \in Lists : \A i \in 1 .. Len(path[k]), j \in 1 .. Len(path[l]) :
       path[k][i] = path[l][j] => k = l /\ i = j

\* The frame is what was sent, as far as it was read, and it becomes Data when
\* all of it was, no sooner and no later.
FrameFilled ==
  frame # None =>
    /\ frame.filled \in 0 .. Len(frame.chunk)
    /\ frame.data <=> frame.filled = Len(frame.chunk)
    /\ frame.at # Dangling =>
         /\ Len(mem[frame.at]) = Len(frame.chunk) + 1
         /\ \A i \in 1 .. frame.filled : mem[frame.at][i + 1] = frame.chunk[i]

\* From the head of a list, the links lead through exactly the storages that
\* were pushed and not popped, in their order, to the tail, although a storage
\* may have a stale link to an address that was given out again.
WellLinked ==
  \A l \in Lists :
    /\ head[l] = IF path[l] = <<>> THEN None ELSE path[l][1]
    /\ tail[l] = IF path[l] = <<>> THEN None ELSE path[l][Len(path[l])]
    /\ \A i \in 1 .. Len(path[l]) - 1 : next(path[l][i]) = path[l][i + 1]

\* The state, as queues of chunks.
Arriving == IF frame = None THEN None ELSE frame.chunk
Waiting  == [l \in Lists |-> [i \in 1 .. Len(path[l]) |-> Content(path[l][i])]]
Held     == [l \in Lists |-> IF kept[l] = None THEN None ELSE Content(kept[l])]

Queues == INSTANCE ChunkQueues WITH arriving <- Arriving, queue <- Waiting, kept <- Held

\* Chunks are delivered as they were sent, in order, once, and stay unchanged
\* while the application keeps them: no link is written into data, and no
\* buffer is given out twice.
ImplementsChunks == Queues!Spec
=============================================================================
