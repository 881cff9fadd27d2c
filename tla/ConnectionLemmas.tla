-------------------------- MODULE ConnectionLemmas --------------------------
(***************************************************************************)
(* What the peers of a connection owe each other, as relations between the *)
(* stream at one side, the stream at the other side and the frames between *)
(* them, and what sending and receiving a frame does to these relations.   *)
(* Module ConnectionProofs puts them together.                             *)
(***************************************************************************)
EXTENDS PeerInvariant, TLAPS

\* The provers of a leaf that names none, in the order they are tried.
USE ZenonT(10), SMTT(40), ZenonT(40)

-----------------------------------------------------------------------------
(* Handles, frames and channels.                                           *)

\* What the provers need to know of a stream.
LEMMA StreamFacts ==
  ASSUME NEW s, StreamInv(s)
  PROVE  /\ s.gen \in {0, 1} /\ s.held \in BOOLEAN
         /\ s.outFin.sent \in BOOLEAN /\ s.outFin.received \in BOOLEAN
         /\ s.inFin.sent \in BOOLEAN /\ s.inFin.received \in BOOLEAN
         /\ s.unacked \in Nat /\ s.unread \in Nat /\ s.credit \in Nat
         /\ s.inFin.sent => (after_fin_write(s) <=> s.inFin.received)
         /\ s.inFin.sent => s.unread = 0 /\ s.credit = 0
         /\ s.inFin.received => after_fin_write(s)
<1>1. s \in Stream
  BY SMTT(40) DEF StreamInv
<1>2. /\ s.inFin.sent => (after_fin_write(s) <=> s.inFin.received)
      /\ s.inFin.sent => s.unread = 0 /\ s.credit = 0
      /\ s.inFin.received => after_fin_write(s)
  BY DEF StreamInv, after_fin_write
<1>3. /\ s.gen \in {0, 1} /\ s.held \in BOOLEAN
      /\ s.outFin.sent \in BOOLEAN /\ s.outFin.received \in BOOLEAN
      /\ s.inFin.sent \in BOOLEAN /\ s.inFin.received \in BOOLEAN
      /\ s.unacked \in Nat /\ s.unread \in Nat /\ s.credit \in Nat
  BY <1>1, SMTT(40) DEF Stream, FinState
<1> QED
  BY <1>2, <1>3

\* The types of the fields of a frame.
LEMMA FrameTypes ==
  ASSUME NEW x \in StreamFrame
  PROVE  /\ x.id \in Ids /\ x.gen \in {0, 1} /\ x.syn \in BOOLEAN
         /\ x.credit \in Nat /\ x.data \in {0, 1} /\ x.data \in Nat
         /\ x.fin_read \in BOOLEAN /\ x.fin_write \in BOOLEAN
BY SMTT(40) DEF StreamFrame

\* A channel that a step leaves alone.
LEMMA ChanSame ==
  ASSUME NEW w \in Seq(Packet), NEW s \in Seq(Packet)
  PROVE  Cut(w \o s, w \o s) /\ Len(w \o s) \in Nat
BY SMTT(40) DEF Cut

-----------------------------------------------------------------------------
(* The start and the end of a stream at a connection.                      *)

\* StreamHandle::new
LEMMA NewStream ==
  ASSUME NEW syn \in BOOLEAN, NEW g \in {0, 1}
  PROVE  LET r == new(syn, g)
         IN  /\ StreamInv(r) /\ r.held /\ r.gen = g /\ r.syn = syn
             /\ ~r.outFin.sent /\ ~r.outFin.received /\ ~r.inFin.sent
             /\ ~after_fin_write(r)
             /\ r.unacked = 0 /\ r.unread = 0 /\ r.credit = 0
<1> DEFINE r == new(syn, g)
<1>1. /\ r.held = TRUE /\ r.gen = g /\ r.syn = syn /\ r.out = "open" /\ r.outFin = NoFin
      /\ r.ready = 0 /\ r.unacked = 0 /\ r.writer = FALSE /\ r.inb = "open"
      /\ r.inFin = NoFin /\ r.unread = 0 /\ r.credit = 0 /\ r.reader = FALSE
  BY DEF new
<1> USE <1>1
<1>2. NoFin \in FinState /\ NoFin.sent = FALSE /\ NoFin.received = FALSE
  BY DEF NoFin, FinState
<1> USE <1>2
<1>3. 0 \in 0 .. MaxChunk /\ 0 \in 0 .. Window /\ 0 \in Nat
  BY StreamAssumption, SMTT(40)
<1>4. r \in Stream
  BY <1>3 DEF new, Stream
<1> HIDE DEF r
<1>5. StreamInv(r)
  BY <1>4 DEF StreamInv
<1> QED
  BY <1>5 DEF r, after_fin_write

-----------------------------------------------------------------------------
(* Peers, packets and channels.                                            *)

\* There are two peers, and every ID belongs to one of them.
LEMMA TwoPeers ==
  ASSUME NEW p \in Peers
  PROVE  /\ Other(p) \in Peers /\ Other(p) # p /\ Other(Other(p)) = p
         /\ \A q \in Peers : q = p \/ q = Other(p)
         /\ \A id : (initiated_by(id) = Other(p)) = (~(initiated_by(id) = p))
<1>1. \A id : initiated_by(id) = "client" \/ initiated_by(id) = "server"
  BY DEF initiated_by
<1> QED
  BY <1>1 DEF Peers, Other

-----------------------------------------------------------------------------
(* Sums.  The numbers w[1], ..., w[k] add up to at most n: b[i] bounds     *)
(* what they add up to from w[i] on.                                       *)

AtMost(k, w, n) ==
  \E b \in [1 .. k + 1 -> Nat] :
    b[1] <= n /\ \A i \in 1 .. k : w[i] + b[i + 1] <= b[i]

\* A bound stays one when it grows.
LEMMA AtMostMore ==
  ASSUME NEW k \in Nat, NEW w, NEW n \in Nat, NEW m \in Nat, n <= m, AtMost(k, w, n)
  PROVE  AtMost(k, w, m)
<1>1. PICK b \in [1 .. k + 1 -> Nat] : b[1] <= n /\ \A i \in 1 .. k : w[i] + b[i + 1] <= b[i]
  BY DEF AtMost
<1> USE <1>1
<1>2. b[1] <= m
  BY SMTT(40)
<1> QED
  BY <1>2 DEF AtMost

\* The first number is taken away.
LEMMA AtMostTail ==
  ASSUME NEW k \in Nat, NEW w, NEW v, NEW n \in Nat, AtMost(k + 1, w, n),
         w[1] \in Nat, \A i \in 1 .. k : v[i] = w[i + 1]
  PROVE  w[1] <= n /\ AtMost(k, v, n - w[1])
<1>1. PICK b \in [1 .. k + 1 + 1 -> Nat] :
        b[1] <= n /\ \A i \in 1 .. k + 1 : w[i] + b[i + 1] <= b[i]
  BY DEF AtMost
<1> USE <1>1
<1> DEFINE a == [i \in 1 .. k + 1 |-> b[i + 1]]
<1>2. a \in [1 .. k + 1 -> Nat]
  BY SMTT(40)
<1>3. w[1] + b[2] <= b[1] /\ b[1] \in Nat /\ b[2] \in Nat
  BY SMTT(40)
<1>4. a[1] <= n - w[1] /\ w[1] <= n
  BY <1>3, SMTT(40)
<1>5. \A i \in 1 .. k : v[i] + a[i + 1] <= a[i]
  BY SMTT(40)
<1> HIDE DEF a
<1> QED
  BY <1>2, <1>4, <1>5 DEF AtMost

\* A number is added at the end.
LEMMA AtMostAppend ==
  ASSUME NEW k \in Nat, NEW w \in [1 .. k -> Nat], NEW v, NEW n \in Nat, AtMost(k, w, n),
         v[k + 1] \in Nat, \A i \in 1 .. k : v[i] = w[i]
  PROVE  AtMost(k + 1, v, n + v[k + 1])
<1>1. PICK b \in [1 .. k + 1 -> Nat] :
        b[1] <= n /\ \A i \in 1 .. k : w[i] + b[i + 1] <= b[i]
  BY DEF AtMost
<1> USE <1>1
<1> DEFINE x == v[k + 1]
           a == [i \in 1 .. k + 1 + 1 |-> IF i = k + 2 THEN 0 ELSE b[i] + x]
<1>2. a \in [1 .. k + 1 + 1 -> Nat]
  BY SMTT(40)
<1>3. a[1] <= n + x
  BY SMTT(40)
<1>4. \A i \in 1 .. k + 1 : v[i] + a[i + 1] <= a[i]
  <2> TAKE i \in 1 .. k + 1
  <2>1. CASE i = k + 1
    <3>1. b[k + 1] \in Nat
      BY SMTT(40)
    <3>2. a[k + 1] = b[k + 1] + x /\ a[k + 2] = 0
      BY SMTT(40)
    <3> QED
      BY <2>1, <3>1, <3>2, SMTT(40)
  <2>2. CASE i \in 1 .. k
    <3> USE <2>2
    <3>1. a[i] = b[i] + x /\ a[i + 1] = b[i + 1] + x
      BY SMTT(40)
    <3>2. b[i] \in Nat /\ b[i + 1] \in Nat /\ w[i] \in Nat
      BY SMTT(40)
    <3>3. w[i] + b[i + 1] <= b[i] /\ v[i] = w[i]
      BY SMTT(40)
    <3> HIDE DEF a
    <3> QED
      BY <3>1, <3>2, <3>3, SMTT(120)
  <2> QED
    BY <2>1, <2>2, SMTT(40)
<1> HIDE DEF a
<1> QED
  BY <1>2, <1>3, <1>4 DEF AtMost, x

\* Numbers are dropped from the end.
LEMMA AtMostCut ==
  ASSUME NEW k \in Nat, NEW m \in Nat, m <= k, NEW w, NEW v, NEW n \in Nat, AtMost(k, w, n),
         \A i \in 1 .. m : v[i] = w[i]
  PROVE  AtMost(m, v, n)
<1>1. PICK b \in [1 .. k + 1 -> Nat] :
        b[1] <= n /\ \A i \in 1 .. k : w[i] + b[i + 1] <= b[i]
  BY DEF AtMost
<1> USE <1>1
<1> DEFINE a == [i \in 1 .. m + 1 |-> b[i]]
<1>2. a \in [1 .. m + 1 -> Nat]
  BY SMTT(40)
<1>3. a[1] <= n /\ \A i \in 1 .. m : v[i] + a[i + 1] <= a[i]
  BY SMTT(40)
<1> HIDE DEF a
<1> QED
  BY <1>2, <1>3 DEF AtMost

\* Nothing adds up to nothing.
LEMMA AtMostZero ==
  ASSUME NEW k \in Nat, NEW w, NEW n \in Nat, \A i \in 1 .. k : w[i] = 0
  PROVE  AtMost(k, w, n)
<1> DEFINE a == [i \in 1 .. k + 1 |-> 0]
<1>1. a \in [1 .. k + 1 -> Nat] /\ a[1] <= n /\ \A i \in 1 .. k : w[i] + a[i + 1] <= a[i]
  OBVIOUS
<1> HIDE DEF a
<1> QED
  BY <1>1 DEF AtMost

-----------------------------------------------------------------------------
(* A channel holds the frames of a peer that are not handled yet, written  *)
(* or not.  A frame is added at the end, or taken from the front, or the   *)
(* channel loses its end.                                                  *)

\* The frames of one ID, by their places.
Of(x, id)   == x \in StreamFrame /\ x.id = id

Lane(c, id) == {i \in 1 .. Len(c) : Of(c[i], id)}

\* Among the first n, the stream `g' of the ID closes the direction it
\* writes, or the one it reads.
FinWrite(c, n, id, g) == \E j \in Lane(c, id) : j <= n /\ c[j].gen = g /\ c[j].fin_write

FinRead(c, n, id, g)  == \E j \in Lane(c, id) : j <= n /\ c[j].gen = g /\ c[j].fin_read

\* What the frames of the stream `g' carry, of "credit" or of "data".
Amount(x, what) == IF what = "credit" THEN x.credit ELSE x.data

Carried(c, id, g, what) ==
  [i \in 1 .. Len(c) |->
     IF i \in Lane(c, id) /\ c[i].gen = g THEN Amount(c[i], what) ELSE 0]

CarriesAtMost(c, id, g, what, n) == n \in Nat /\ AtMost(Len(c), Carried(c, id, g, what), n)

\* The frames of one ID when a frame is added at the end.
LEMMA GrownLane ==
  ASSUME NEW c, NEW e, NEW x, Grown(c, e, x), NEW id
  PROVE  /\ Len(c) \in Nat /\ Len(e) \in Nat /\ Len(e) = Len(c) + 1
         /\ \A i \in Lane(c, id) : i \in Lane(e, id) /\ i \in 1 .. Len(c) /\ e[i] = c[i]
         /\ \A i \in Lane(e, id) : i \in Nat /\ i >= 1 /\ i <= Len(e) /\
              ((i \in Lane(c, id) /\ i <= Len(c) /\ e[i] = c[i])
                \/ (i = Len(e) /\ e[i] = x /\ Of(x, id)))
         /\ Of(x, id) => Len(e) \in Lane(e, id) /\ e[Len(e)] = x
BY SMTT(40) DEF Grown, Lane

\* The frames of one ID when the first one is taken.
LEMMA TakenLane ==
  ASSUME NEW c, NEW e, Taken(c, e), NEW id
  PROVE  /\ Len(c) \in Nat /\ Len(e) \in Nat /\ Len(c) = Len(e) + 1
         /\ \A i \in Lane(e, id) : i \in 1 .. Len(e) /\ i + 1 \in Lane(c, id) /\ e[i] = c[i + 1]
         /\ \A i \in Lane(c, id) : i \in 1 .. Len(c) /\
              ((i = 1 /\ Of(c[1], id)) \/ (i > 1 /\ i - 1 \in Lane(e, id) /\ e[i - 1] = c[i]))
         /\ Of(c[1], id) => 1 \in Lane(c, id)
BY SMTT(40) DEF Taken, Lane

\* The frames of one ID when the channel loses its end.
LEMMA CutLane ==
  ASSUME NEW c, NEW e, Cut(c, e), NEW id
  PROVE  /\ Len(c) \in Nat /\ Len(e) \in Nat /\ Len(e) <= Len(c)
         /\ \A i \in Lane(e, id) : i \in 1 .. Len(e) /\ i \in Lane(c, id) /\ e[i] = c[i]
         /\ \A i \in Lane(c, id) : i \in 1 .. Len(c) /\
               (i <= Len(e) => i \in Lane(e, id) /\ e[i] = c[i])
BY SMTT(40) DEF Cut, Lane

\* The fields of the frames of a lane.
LEMMA LaneTypes ==
  ASSUME NEW c, NEW id, NEW i \in Lane(c, id)
  PROVE  /\ i \in 1 .. Len(c) /\ c[i] \in StreamFrame /\ c[i].id = id /\ Of(c[i], id)
         /\ c[i].gen \in {0, 1} /\ c[i].syn \in BOOLEAN
         /\ c[i].credit \in Nat /\ c[i].data \in {0, 1}
         /\ c[i].fin_read \in BOOLEAN /\ c[i].fin_write \in BOOLEAN
BY FrameTypes DEF Lane, Of

\* The FINs on their way when a frame is added.
LEMMA GrownFins ==
  ASSUME NEW c, NEW e, NEW x, Grown(c, e, x), NEW id, NEW g
  PROVE  /\ \A n \in Nat : n <= Len(c) => (FinWrite(e, n, id, g) <=> FinWrite(c, n, id, g))
         /\ \A n \in Nat : n <= Len(c) => (FinRead(e, n, id, g) <=> FinRead(c, n, id, g))
         /\ FinWrite(e, Len(e), id, g) <=>
              FinWrite(c, Len(c), id, g) \/ (Of(x, id) /\ x.gen = g /\ x.fin_write)
         /\ FinRead(e, Len(e), id, g) <=>
              FinRead(c, Len(c), id, g) \/ (Of(x, id) /\ x.gen = g /\ x.fin_read)
<1> USE GrownLane
<1>1. \A n \in Nat : n <= Len(c) => (FinWrite(e, n, id, g) <=> FinWrite(c, n, id, g))
  BY SMTT(40) DEF FinWrite
<1>2. \A n \in Nat : n <= Len(c) => (FinRead(e, n, id, g) <=> FinRead(c, n, id, g))
  BY SMTT(40) DEF FinRead
<1>3. FinWrite(e, Len(e), id, g) <=>
        FinWrite(c, Len(c), id, g) \/ (Of(x, id) /\ x.gen = g /\ x.fin_write)
  BY SMTT(40) DEF FinWrite
<1>4. FinRead(e, Len(e), id, g) <=>
        FinRead(c, Len(c), id, g) \/ (Of(x, id) /\ x.gen = g /\ x.fin_read)
  BY SMTT(40) DEF FinRead
<1> QED
  BY <1>1, <1>2, <1>3, <1>4, SMTT(40)

\* The FINs on their way when the first frame is taken.
LEMMA TakenFins ==
  ASSUME NEW c, NEW e, Taken(c, e), NEW id, NEW g, NEW n \in Nat
  PROVE  /\ FinWrite(c, n + 1, id, g) <=>
              FinWrite(e, n, id, g) \/ (Of(c[1], id) /\ c[1].gen = g /\ c[1].fin_write)
         /\ FinRead(c, n + 1, id, g) <=>
              FinRead(e, n, id, g) \/ (Of(c[1], id) /\ c[1].gen = g /\ c[1].fin_read)
<1> USE TakenLane
<1>1. FinWrite(c, n + 1, id, g) =>
        FinWrite(e, n, id, g) \/ (Of(c[1], id) /\ c[1].gen = g /\ c[1].fin_write)
  BY SMTT(40) DEF FinWrite
<1>2. Of(c[1], id) /\ c[1].gen = g /\ c[1].fin_write => FinWrite(c, n + 1, id, g)
  BY SMTT(40) DEF FinWrite
<1>3. FinWrite(e, n, id, g) => FinWrite(c, n + 1, id, g)
  <2>1. ASSUME NEW j \in Lane(e, id), j <= n, e[j].gen = g, e[j].fin_write
        PROVE  FinWrite(c, n + 1, id, g)
    <3> USE <2>1
    <3>1. j + 1 \in Lane(c, id) /\ j + 1 <= n + 1 /\ c[j + 1] = e[j]
      BY SMTT(40)
    <3> QED
      BY <3>1 DEF FinWrite
  <2> QED
    BY <2>1, SMTT(40) DEF FinWrite
<1>4. FinRead(c, n + 1, id, g) =>
        FinRead(e, n, id, g) \/ (Of(c[1], id) /\ c[1].gen = g /\ c[1].fin_read)
  BY SMTT(120) DEF FinRead
<1>5. Of(c[1], id) /\ c[1].gen = g /\ c[1].fin_read => FinRead(c, n + 1, id, g)
  BY SMTT(40) DEF FinRead
<1>6. FinRead(e, n, id, g) => FinRead(c, n + 1, id, g)
  <2>1. ASSUME NEW j \in Lane(e, id), j <= n, e[j].gen = g, e[j].fin_read
        PROVE  FinRead(c, n + 1, id, g)
    <3> USE <2>1
    <3>1. j + 1 \in Lane(c, id) /\ j + 1 <= n + 1 /\ c[j + 1] = e[j]
      BY SMTT(40)
    <3> QED
      BY <3>1 DEF FinRead
  <2> QED
    BY <2>1, SMTT(40) DEF FinRead
<1> QED
  BY <1>1, <1>2, <1>3, <1>4, <1>5, <1>6

\* The FINs on their way when the channel loses its end.
LEMMA CutFins ==
  ASSUME NEW c, NEW e, Cut(c, e), NEW id, NEW g, NEW n \in Nat, n <= Len(e)
  PROVE  /\ FinWrite(c, n, id, g) <=> FinWrite(e, n, id, g)
         /\ FinRead(c, n, id, g) <=> FinRead(e, n, id, g)
BY CutLane, SMTT(40) DEF FinWrite, FinRead

\* The types of what is carried.
LEMMA CarriedType ==
  ASSUME NEW c, NEW id, NEW g, NEW what
  PROVE  /\ Carried(c, id, g, what) \in [1 .. Len(c) -> Nat]
         /\ \A x : Of(x, id) => Amount(x, what) \in Nat
<1>1. \A x : Of(x, id) => Amount(x, what) \in Nat
  BY FrameTypes, SMTT(40) DEF Amount, Of
<1> USE <1>1
<1>2. \A i \in 1 .. Len(c) :
        (IF i \in Lane(c, id) /\ c[i].gen = g THEN Amount(c[i], what) ELSE 0) \in Nat
  BY LaneTypes, SMTT(40)
<1> QED
  BY <1>2 DEF Carried

\* The data or credit on its way grows by what the new frame carries.
LEMMA GrownSums ==
  ASSUME NEW c, NEW e, NEW x, Grown(c, e, x), NEW id, NEW g, NEW what, NEW n,
         CarriesAtMost(c, id, g, what, n)
  PROVE  CarriesAtMost(e, id, g, what,
                       n + IF Of(x, id) /\ x.gen = g THEN Amount(x, what) ELSE 0)
<1> DEFINE w == Carried(c, id, g, what)
           v == Carried(e, id, g, what)
           a == IF Of(x, id) /\ x.gen = g THEN Amount(x, what) ELSE 0
<1>0. /\ Len(c) \in Nat /\ Len(e) \in Nat /\ Len(e) = Len(c) + 1
      /\ Len(e) \in 1 .. Len(e) /\ a \in Nat
  <2>1. Len(c) \in Nat /\ Len(e) = Len(c) + 1
    BY SMTT(40) DEF Grown
  <2>2. a \in Nat
    BY CarriedType
  <2> QED
    BY <2>1, <2>2, SMTT(40)
<1> USE <1>0
<1>1. w \in [1 .. Len(c) -> Nat]
  BY CarriedType, SMTT(40)
<1>2. \A i \in 1 .. Len(c) : v[i] = w[i]
  <2> TAKE i \in 1 .. Len(c)
  <2>1. i \in 1 .. Len(e) /\ i # Len(e)
    BY SMTT(40)
  <2> USE <2>1
  <2>2. i \in Lane(e, id) <=> i \in Lane(c, id)
    BY GrownLane, SMTT(40)
  <2>3. i \in Lane(c, id) => e[i] = c[i]
    BY GrownLane, SMTT(40)
  <2> QED
    BY <2>2, <2>3 DEF Carried
<1>3. v[Len(e)] = a
  <2>1. Len(e) \in Lane(e, id) <=> Of(x, id)
    BY GrownLane, SMTT(40)
  <2>2. Of(x, id) => e[Len(e)] = x
    BY GrownLane, SMTT(40)
  <2> QED
    BY <2>1, <2>2 DEF Carried
<1> HIDE DEF w, v
<1>4. n \in Nat /\ AtMost(Len(c), w, n)
  BY DEF CarriesAtMost, w
<1> USE <1>4
<1>5. v[Len(c) + 1] = a
  BY <1>3, SMTT(40)
<1> USE <1>5
<1> HIDE DEF a
<1>6. AtMost(Len(c) + 1, v, n + v[Len(c) + 1])
  BY <1>1, <1>2, AtMostAppend, SMTT(40)
<1>7. n + a \in Nat
  BY SMTT(40)
<1>8. CarriesAtMost(e, id, g, what, n + a)
  BY <1>6, <1>7 DEF CarriesAtMost, v
<1> QED
  BY <1>8, SMTT(40) DEF a

\* The first frame carries no more than all of them, and what it carried is
\* no longer on its way.
LEMMA TakenSums ==
  ASSUME NEW c, NEW e, Taken(c, e), NEW id, NEW g, NEW what, NEW n,
         CarriesAtMost(c, id, g, what, n)
  PROVE  LET a == IF Of(c[1], id) /\ c[1].gen = g THEN Amount(c[1], what) ELSE 0
         IN  a \in Nat /\ a <= n /\ CarriesAtMost(e, id, g, what, n - a)
<1> DEFINE w == Carried(c, id, g, what)
           v == Carried(e, id, g, what)
           a == IF Of(c[1], id) /\ c[1].gen = g THEN Amount(c[1], what) ELSE 0
<1>0. /\ Len(c) \in Nat /\ Len(e) \in Nat /\ Len(c) = Len(e) + 1
      /\ 1 \in 1 .. Len(c) /\ a \in Nat
  <2>1. Len(e) \in Nat /\ Len(c) = Len(e) + 1
    BY SMTT(40) DEF Taken
  <2>2. a \in Nat
    BY CarriedType
  <2> QED
    BY <2>1, <2>2, SMTT(40)
<1> USE <1>0
<1>1. \A i \in 1 .. Len(e) : v[i] = w[i + 1]
  <2> TAKE i \in 1 .. Len(e)
  <2>1. i + 1 \in 1 .. Len(c) /\ i + 1 # 1 /\ (i + 1) - 1 = i
    BY SMTT(40)
  <2> USE <2>1
  <2>2. i \in Lane(e, id) <=> i + 1 \in Lane(c, id)
    BY TakenLane, SMTT(40)
  <2>3. i \in Lane(e, id) => e[i] = c[i + 1]
    BY TakenLane, SMTT(40)
  <2> QED
    BY <2>2, <2>3 DEF Carried
<1>2. w[1] = a
  <2>1. 1 \in Lane(c, id) <=> Of(c[1], id)
    BY TakenLane, SMTT(40)
  <2> QED
    BY <2>1 DEF Carried
<1> USE <1>2
<1> HIDE DEF w, v
<1>3. n \in Nat /\ AtMost(Len(e) + 1, w, n)
  BY DEF CarriesAtMost, w
<1> USE <1>3
<1> HIDE DEF a
<1>4. w[1] <= n /\ AtMost(Len(e), v, n - w[1])
  BY <1>1, AtMostTail
<1> USE <1>4
<1>5. n - a \in Nat
  BY SMTT(40)
<1>6. a \in Nat /\ a <= n /\ CarriesAtMost(e, id, g, what, n - a)
  BY <1>5 DEF CarriesAtMost, v
<1> QED
  BY <1>6, SMTT(40) DEF a

\* A channel that loses its end carries no more than before.
LEMMA CutSums ==
  ASSUME NEW c, NEW e, Cut(c, e), NEW id, NEW g, NEW what, NEW n,
         CarriesAtMost(c, id, g, what, n)
  PROVE  CarriesAtMost(e, id, g, what, n)
<1> DEFINE w == Carried(c, id, g, what)
           v == Carried(e, id, g, what)
<1>0. Len(c) \in Nat /\ Len(e) \in Nat /\ Len(e) <= Len(c)
  BY CutLane, SMTT(40)
<1> USE <1>0
<1>1. \A i \in 1 .. Len(e) : v[i] = w[i]
  <2> TAKE i \in 1 .. Len(e)
  <2>1. i \in 1 .. Len(c) /\ i <= Len(e)
    BY SMTT(40)
  <2> USE <2>1
  <2>2. i \in Lane(e, id) <=> i \in Lane(c, id)
    BY CutLane, SMTT(40)
  <2>3. i \in Lane(e, id) => e[i] = c[i]
    BY CutLane, SMTT(40)
  <2> QED
    BY <2>2, <2>3 DEF Carried
<1> HIDE DEF w, v
<1>2. n \in Nat /\ AtMost(Len(c), w, n)
  BY DEF CarriesAtMost, w
<1> USE <1>2
<1>3. AtMost(Len(e), v, n)
  BY <1>1, AtMostCut, SMTT(40)
<1> QED
  BY <1>3 DEF CarriesAtMost, v

\* A bound of what is on its way stays one when it grows.
LEMMA MoreSums ==
  ASSUME NEW c, Len(c) \in Nat, NEW id, NEW g, NEW what, NEW n, NEW m \in Nat,
         CarriesAtMost(c, id, g, what, n), n <= m
  PROVE  CarriesAtMost(c, id, g, what, m)
BY AtMostMore, SMTT(40) DEF CarriesAtMost

\* Frames that carry nothing keep to every bound.
LEMMA NoSums ==
  ASSUME NEW c, Len(c) \in Nat, NEW id, NEW g, NEW what, NEW n \in Nat,
         \A i \in Lane(c, id) : c[i].gen = g => Amount(c[i], what) = 0
  PROVE  CarriesAtMost(c, id, g, what, n)
<1>1. \A i \in 1 .. Len(c) : Carried(c, id, g, what)[i] = 0
  BY DEF Carried
<1> QED
  BY <1>1, AtMostZero, SMTT(40) DEF CarriesAtMost

-----------------------------------------------------------------------------
(* What a channel owes the peer that reads it.                             *)

\* After the first n frames, the stream `s' that receives them is dead: it
\* has sent its own FINs, and has received the other ones or finds them there.
Finishing(c, n, id, s) ==
  /\ s.inFin.sent /\ s.outFin.sent
  /\ s.inFin.received \/ FinWrite(c, n, id, s.gen)
  /\ s.outFin.received \/ FinRead(c, n, id, s.gen)

\* A frame for the stream `s', with nothing that `s' takes for a violation.
Welcome(x, s) ==
  /\ s.held /\ ~x.syn
  /\ after_fin_write(s) => x.data = 0 /\ ~x.fin_write
  /\ s.outFin.received => x.credit = 0 /\ ~x.fin_read

\* A frame for the stream that takes the place of `s', if the sender may
\* start one: it starts the stream, or comes after the frame that does.
Early(c, i, id, own) ==
  own /\ c[i].credit = 0 /\ \E j \in Lane(c, id) : j <= i /\ c[j].syn

\* A frame at a later place: streams do not overlap, nothing follows a FIN.
Follows(x, y) ==
  /\ x.syn => ~y.syn /\ y.gen = x.gen
  /\ x.gen = y.gen => /\ x.fin_write => y.data = 0 /\ ~y.fin_write
                      /\ x.fin_read => y.credit = 0 /\ ~y.fin_read

\* All that `s' is going to receive is in order; and the credit is not more
\* than what it counts as in flight.
Accept(c, s, id, own) ==
  /\ \A i \in Lane(c, id) :
       /\ Speaks(c[i])
       /\ c[i].gen = s.gen => Welcome(c[i], s)
       /\ c[i].gen # s.gen => Early(c, i, id, own)
       /\ c[i].syn /\ s.held => Finishing(c, i, id, s)
  /\ \A i, j \in Lane(c, id) : i < j => Follows(c[i], c[j])
  /\ CarriesAtMost(c, id, s.gen, "credit", s.unacked)

\* A step of the stream's own side: what it received does not change, what it
\* sent only grows, and it goes only when it has received both FINs.
OwnStep(s, r) ==
  /\ r.gen = s.gen /\ s.unacked <= r.unacked
  /\ r.held => s.held
  /\ s.held /\ ~r.held => after_fin_write(r) /\ r.outFin.received
  /\ after_fin_write(r) <=> after_fin_write(s)
  /\ r.outFin.received <=> s.outFin.received
  /\ s.inFin.sent => r.inFin.sent
  /\ s.outFin.sent => r.outFin.sent

\* A step of the application or of poll_send on a stream makes no frame
\* unwelcome that is on its way to the stream.
LEMMA AcceptOwn ==
  ASSUME NEW c, Len(c) \in Nat, NEW id, NEW own, NEW s, NEW r,
         StreamInv(s), StreamInv(r), OwnStep(s, r)
  PROVE  /\ \A n : Finishing(c, n, id, s) => Finishing(c, n, id, r)
         /\ Accept(c, s, id, own) => Accept(c, r, id, own)
<1>1. ASSUME NEW n, Finishing(c, n, id, s)
      PROVE  Finishing(c, n, id, r)
  BY <1>1, StreamFacts DEF Finishing, OwnStep
<1> USE <1>1
<1>2. ASSUME Accept(c, s, id, own)
      PROVE  Accept(c, r, id, own)
  <2> USE <1>2
  <2>1. ASSUME NEW i \in Lane(c, id)
        PROVE  /\ Speaks(c[i])
               /\ c[i].gen = r.gen => Welcome(c[i], r)
               /\ c[i].gen # r.gen => Early(c, i, id, own)
               /\ c[i].syn /\ r.held => Finishing(c, i, id, r)
    <3>1. /\ Speaks(c[i])
          /\ c[i].gen = s.gen => Welcome(c[i], s)
          /\ c[i].gen # s.gen => Early(c, i, id, own)
          /\ c[i].syn /\ s.held => Finishing(c, i, id, s)
      BY <2>1 DEF Accept
    <3> USE <3>1
    <3>2. c[i].syn /\ r.held => Finishing(c, i, id, r)
      BY DEF OwnStep
    <3>3. ASSUME c[i].gen = r.gen
          PROVE  Welcome(c[i], r)
      BY <3>3, LaneTypes, SMTT(40) DEF OwnStep, Welcome, Speaks
    <3> QED
      BY <3>2, <3>3 DEF OwnStep
  <2>2. CarriesAtMost(c, id, r.gen, "credit", r.unacked)
    <3>1. CarriesAtMost(c, id, r.gen, "credit", s.unacked)
      BY DEF Accept, OwnStep
    <3>2. r.unacked \in Nat /\ s.unacked <= r.unacked
      BY StreamFacts DEF OwnStep
    <3> QED
      BY <3>1, <3>2, MoreSums
  <2> QED
    BY <2>1, <2>2 DEF Accept
<1> QED
  BY <1>2, SMTT(40)

\* What the next frame `x' for `s' has to be, behind the frames of `c'.
Fits(c, x, s, id, own) ==
  /\ Speaks(x)
  /\ x.gen = s.gen => Welcome(x, s)
  /\ x.gen # s.gen => own /\ x.credit = 0 /\ (x.syn \/ \E j \in Lane(c, id) : c[j].syn)
  /\ x.syn /\ s.held => Finishing(c, Len(c), id, s)
  /\ \A i \in Lane(c, id) : Follows(c[i], x)
  /\ x.gen = s.gen => \E m \in Nat : /\ CarriesAtMost(c, id, s.gen, "credit", m)
                                     /\ m + x.credit <= s.unacked

\* A stream that is finishing stays so when frames are added.
LEMMA FinishingGrown ==
  ASSUME NEW c, NEW e, NEW x, Grown(c, e, x), NEW id, NEW s
  PROVE  /\ \A n \in Nat : n <= Len(c) => (Finishing(e, n, id, s) <=> Finishing(c, n, id, s))
         /\ Finishing(c, Len(c), id, s) => Finishing(e, Len(e), id, s)
BY GrownFins DEF Finishing

\* A stream accepts one more frame if that frame fits.
LEMMA AcceptGrown ==
  ASSUME NEW c, NEW e, NEW x, Grown(c, e, x), NEW id, NEW own, NEW s, StreamInv(s),
         Accept(c, s, id, own), Of(x, id) => Fits(c, x, s, id, own)
  PROVE  Accept(e, s, id, own)
<1>1. ASSUME NEW i \in Lane(e, id)
      PROVE  /\ Speaks(e[i])
             /\ e[i].gen = s.gen => Welcome(e[i], s)
             /\ e[i].gen # s.gen => Early(e, i, id, own)
             /\ e[i].syn /\ s.held => Finishing(e, i, id, s)
  <2> USE <1>1
  <2>1. CASE i \in Lane(c, id) /\ i <= Len(c) /\ e[i] = c[i]
    <3> USE <2>1
    <3>1. /\ Speaks(c[i])
          /\ c[i].gen = s.gen => Welcome(c[i], s)
          /\ c[i].gen # s.gen => Early(c, i, id, own)
          /\ c[i].syn /\ s.held => Finishing(c, i, id, s)
      BY DEF Accept
    <3>2. Early(c, i, id, own) => Early(e, i, id, own)
      <4>1. \A j \in Lane(c, id) : j \in Lane(e, id) /\ e[j] = c[j]
        BY GrownLane, SMTT(40)
      <4> QED
        BY <4>1 DEF Early
    <3>3. Finishing(c, i, id, s) => Finishing(e, i, id, s)
      <4>1. i \in Nat /\ i <= Len(c)
        BY GrownLane, SMTT(40)
      <4> QED
        BY <4>1, FinishingGrown
    <3> QED
      BY <3>1, <3>2, <3>3
  <2>2. CASE i = Len(e) /\ e[i] = x /\ Of(x, id)
    <3> USE <2>2
    <3>1. Fits(c, x, s, id, own)
      BY SMTT(40)
    <3> USE <3>1
    <3>2. e[i].gen # s.gen => Early(e, i, id, own)
      <4>1. CASE x.syn
        <5>1. i <= i
          BY GrownLane, SMTT(40)
        <5> QED
          BY <4>1, <5>1 DEF Fits, Early
      <4>2. ASSUME NEW j \in Lane(c, id), c[j].syn
            PROVE  e[i].gen # s.gen => Early(e, i, id, own)
        <5>1. j \in Lane(e, id) /\ e[j] = c[j] /\ j <= i
          BY GrownLane, SMTT(40)
        <5> QED
          BY <4>2, <5>1 DEF Fits, Early
      <4> QED
        BY <4>1, <4>2 DEF Fits
    <3> QED
      BY <3>2, FinishingGrown DEF Fits
  <2> QED
    BY <2>1, <2>2, GrownLane, SMTT(40)
<1>2. ASSUME NEW i \in Lane(e, id), NEW j \in Lane(e, id), i < j
      PROVE  Follows(e[i], e[j])
  <2> USE <1>2
  <2>1. i \in Lane(c, id) /\ e[i] = c[i]
    BY GrownLane, SMTT(40)
  <2> USE <2>1
  <2>2. CASE j \in Lane(c, id) /\ e[j] = c[j]
    BY <2>2 DEF Accept
  <2>3. CASE e[j] = x /\ Of(x, id)
    BY <2>3 DEF Fits
  <2> QED
    BY <2>2, <2>3, GrownLane, SMTT(40)
<1>3. CarriesAtMost(e, id, s.gen, "credit", s.unacked)
  <2>0. s.unacked \in Nat /\ Len(e) \in Nat
    BY StreamFacts, GrownLane
  <2> USE <2>0
  <2>1. CASE Of(x, id) /\ x.gen = s.gen
    <3> USE <2>1
    <3>1. PICK m \in Nat : /\ CarriesAtMost(c, id, s.gen, "credit", m)
                           /\ m + x.credit <= s.unacked
      BY DEF Fits
    <3> USE <3>1
    <3>2. Amount(x, "credit") = x.credit
      BY SMTT(40) DEF Amount
    <3>3. CarriesAtMost(e, id, s.gen, "credit", m + x.credit)
      BY <3>2, GrownSums
    <3> QED
      BY <3>3, MoreSums
  <2>2. CASE ~(Of(x, id) /\ x.gen = s.gen)
    <3>1. CarriesAtMost(c, id, s.gen, "credit", s.unacked)
      BY SMTT(40) DEF Accept
    <3>2. CarriesAtMost(e, id, s.gen, "credit", s.unacked + 0)
      BY <2>2, <3>1, GrownSums
    <3>3. s.unacked + 0 = s.unacked
      BY SMTT(40)
    <3> QED
      BY <3>2, <3>3
  <2> QED
    BY <2>1, <2>2, SMTT(40)
<1> QED
  BY <1>1, <1>2, <1>3 DEF Accept

\* A stream accepts what is left of a channel.
LEMMA AcceptCut ==
  ASSUME NEW c, NEW e, Cut(c, e), NEW id, NEW own, NEW s, Accept(c, s, id, own)
  PROVE  Accept(e, s, id, own)
<1>1. ASSUME NEW i \in Lane(e, id)
      PROVE  /\ Speaks(e[i])
             /\ e[i].gen = s.gen => Welcome(e[i], s)
             /\ e[i].gen # s.gen => Early(e, i, id, own)
             /\ e[i].syn /\ s.held => Finishing(e, i, id, s)
  <2>1. i \in Lane(c, id) /\ e[i] = c[i] /\ i \in Nat /\ i <= Len(e)
    BY CutLane, SMTT(40)
  <2> USE <2>1
  <2>2. /\ Speaks(c[i])
        /\ c[i].gen = s.gen => Welcome(c[i], s)
        /\ c[i].gen # s.gen => Early(c, i, id, own)
        /\ c[i].syn /\ s.held => Finishing(c, i, id, s)
    BY DEF Accept
  <2>3. Early(c, i, id, own) => Early(e, i, id, own)
    BY CutLane, SMTT(40) DEF Early
  <2>4. Finishing(c, i, id, s) => Finishing(e, i, id, s)
    BY CutFins DEF Finishing
  <2> QED
    BY <2>2, <2>3, <2>4
<1>2. ASSUME NEW i \in Lane(e, id), NEW j \in Lane(e, id), i < j
      PROVE  Follows(e[i], e[j])
  <2>1. i \in Lane(c, id) /\ j \in Lane(c, id) /\ e[i] = c[i] /\ e[j] = c[j]
    BY CutLane, SMTT(40)
  <2> QED
    BY <1>2, <2>1 DEF Accept
<1>3. CarriesAtMost(e, id, s.gen, "credit", s.unacked)
  BY CutSums DEF Accept
<1> QED
  BY <1>1, <1>2, <1>3 DEF Accept

\* The first frame is no violation: it starts a stream on a free ID, or it
\* belongs to the stream there (Streams::receive, StreamHandle::received).
LEMMA FirstFrame ==
  ASSUME NEW c, NEW e, Taken(c, e), NEW id, NEW own, NEW s, StreamInv(s),
         s.held <=> ~is_dead(s), Accept(c, s, id, own), Of(c[1], id)
  PROVE  /\ c[1].syn => own /\ ~s.held /\ c[1].gen # s.gen /\ c[1].credit = 0
         /\ ~c[1].syn => s.held /\ c[1].gen = s.gen
         /\ received_error(IF c[1].syn THEN new(FALSE, c[1].gen) ELSE s, c[1]) = "none"
<1> DEFINE x == c[1]
<1>0. /\ 1 \in Lane(c, id) /\ x.gen \in {0, 1} /\ x.syn \in BOOLEAN
      /\ x.credit \in Nat /\ x.data \in {0, 1}
      /\ x.fin_read \in BOOLEAN /\ x.fin_write \in BOOLEAN
  BY TakenLane, LaneTypes, SMTT(40)
<1> USE <1>0
<1>1. /\ Speaks(x)
      /\ x.gen = s.gen => Welcome(x, s)
      /\ x.gen # s.gen => Early(c, 1, id, own)
      /\ x.syn /\ s.held => Finishing(c, 1, id, s)
  BY DEF Accept
<1> USE <1>1
<1>2. \A j \in Lane(c, id) : j <= 1 => j = 1
  BY TakenLane, SMTT(40)
<1> USE <1>2
<1>3. x.gen # s.gen => x.syn /\ own /\ x.credit = 0
  BY DEF Early
<1> USE <1>3
<1>4. x.gen = s.gen => s.held /\ ~x.syn
  BY DEF Welcome
<1> USE <1>4
<1>5. ASSUME x.syn
      PROVE  ~s.held
  <2>1. SUFFICES ASSUME s.held PROVE FALSE
    OBVIOUS
  <2> USE <2>1
  <2>2. Finishing(c, 1, id, s) /\ x.gen # s.gen
    BY <1>5
  <2> USE <2>2
  <2>3. ~FinWrite(c, 1, id, s.gen) /\ ~FinRead(c, 1, id, s.gen)
    BY SMTT(40) DEF FinWrite, FinRead
  <2>4. is_dead(s)
    BY <2>3 DEF Finishing, is_dead
  <2> QED
    BY <2>4, SMTT(40)
<1>6. CASE x.syn
  <2> USE <1>6
  <2> DEFINE n == new(FALSE, x.gen)
  <2>1. /\ n.unacked = 0 /\ ~n.outFin.received /\ ~after_fin_write(n)
    BY NewStream
  <2> HIDE DEF n
  <2>2. x.gen # s.gen
    OBVIOUS
  <2> USE <2>2
  <2>3. x.credit = 0
    OBVIOUS
  <2>4. received_error(n, x) = "none"
    BY <2>1, <2>3, SMTT(40) DEF received_error
  <2> QED
    BY <1>5, <2>4 DEF n
<1>7. CASE ~x.syn
  <2> USE <1>7
  <2>1. x.gen = s.gen
    OBVIOUS
  <2> USE <2>1
  <2>2. x.credit <= s.unacked
    <3>1. CarriesAtMost(c, id, s.gen, "credit", s.unacked)
      BY SMTT(40) DEF Accept
    <3>2. Amount(x, "credit") = x.credit
      BY SMTT(40) DEF Amount
    <3> QED
      BY <3>1, <3>2, TakenSums
  <2>3. Welcome(x, s)
    BY SMTT(40)
  <2>4. s.unacked \in Nat
    BY StreamFacts, SMTT(40)
  <2>5. received_error(s, x) = "none"
    BY <2>2, <2>3, <2>4, SMTT(40) DEF received_error, Welcome
  <2> QED
    BY <2>5
<1> QED
  BY <1>6, <1>7

\* A frame of another ID is taken.
LEMMA AcceptTakenOther ==
  ASSUME NEW c, NEW e, Taken(c, e), NEW id, NEW own, NEW s, StreamInv(s),
         ~Of(c[1], id)
  PROVE  /\ \A n \in Nat : Finishing(e, n, id, s) <=> Finishing(c, n + 1, id, s)
         /\ Accept(c, s, id, own) => Accept(e, s, id, own)
<1>1. \A n \in Nat : Finishing(e, n, id, s) <=> Finishing(c, n + 1, id, s)
  BY TakenFins DEF Finishing
<1>2. ASSUME Accept(c, s, id, own)
      PROVE  Accept(e, s, id, own)
  <2>1. ASSUME NEW i \in Lane(e, id)
        PROVE  /\ Speaks(e[i])
               /\ e[i].gen = s.gen => Welcome(e[i], s)
               /\ e[i].gen # s.gen => Early(e, i, id, own)
               /\ e[i].syn /\ s.held => Finishing(e, i, id, s)
    <3>1. i \in Nat /\ i + 1 \in Lane(c, id) /\ e[i] = c[i + 1]
      BY TakenLane, SMTT(40)
    <3>2. /\ Speaks(c[i + 1])
          /\ c[i + 1].gen = s.gen => Welcome(c[i + 1], s)
          /\ c[i + 1].gen # s.gen => Early(c, i + 1, id, own)
          /\ c[i + 1].syn /\ s.held => Finishing(c, i + 1, id, s)
      BY <1>2, <3>1 DEF Accept
    <3>3. ASSUME NEW j \in Lane(c, id), j <= i + 1, c[j].syn
          PROVE  \E k \in Lane(e, id) : k <= i /\ e[k].syn
      BY <3>1, <3>3, TakenLane, SMTT(40)
    <3>4. Early(c, i + 1, id, own) => Early(e, i, id, own)
      BY <3>1, <3>3 DEF Early
    <3> QED
      BY <1>1, <3>1, <3>2, <3>4
  <2>2. ASSUME NEW i \in Lane(e, id), NEW j \in Lane(e, id), i < j
        PROVE  Follows(e[i], e[j])
    <3>1. /\ i + 1 \in Lane(c, id) /\ j + 1 \in Lane(c, id) /\ i + 1 < j + 1
          /\ e[i] = c[i + 1] /\ e[j] = c[j + 1]
      BY <2>2, TakenLane, SMTT(40)
    <3> QED
      BY <1>2, <3>1 DEF Accept
  <2>3. CarriesAtMost(e, id, s.gen, "credit", s.unacked)
    <3>1. CarriesAtMost(c, id, s.gen, "credit", s.unacked)
      BY <1>2 DEF Accept
    <3>2. CarriesAtMost(e, id, s.gen, "credit", s.unacked - 0)
      BY <3>1, TakenSums
    <3>3. s.unacked - 0 = s.unacked
      BY StreamFacts, SMTT(40)
    <3> QED
      BY <3>2, <3>3
  <2> QED
    BY <2>1, <2>2, <2>3 DEF Accept
<1> QED
  BY <1>1, <1>2, SMTT(40)

\* What follows the first frame is welcome to the stream that took it.
LEMMA StaysWelcome ==
  ASSUME NEW x \in StreamFrame, NEW y \in StreamFrame, NEW b, NEW r,
         StreamInv(b), StreamInv(r), TakeStep(b, r, x), r.held <=> ~is_dead(r),
         Speaks(y), Follows(x, y), x.gen = y.gen, ~y.syn,
         after_fin_write(b) => y.data = 0 /\ ~y.fin_write,
         b.outFin.received => y.credit = 0 /\ ~y.fin_read
  PROVE  Welcome(y, r)
<1>1. /\ after_fin_write(r) => y.data = 0 /\ ~y.fin_write
      /\ r.outFin.received => y.credit = 0 /\ ~y.fin_read
  BY DEF Follows, TakeStep
<1> USE <1>1
<1>2. after_fin_write(r) /\ r.outFin.received => FALSE
  BY FrameTypes, SMTT(40) DEF Speaks
<1>3. is_dead(r) => FALSE
  BY <1>2, StreamFacts DEF is_dead
<1> QED
  BY <1>3 DEF Welcome

\* Streams::receive of a frame of the stream: the stream accepts the frames
\* behind it.
LEMMA AcceptTaken ==
  ASSUME NEW c, NEW e, Taken(c, e), NEW id, NEW own, NEW s, NEW r,
         StreamInv(s), StreamInv(r), s.held <=> ~is_dead(s), r.held <=> ~is_dead(r),
         Accept(c, s, id, own), Of(c[1], id), ~c[1].syn, TakeStep(s, r, c[1])
  PROVE  /\ \A n \in Nat : Finishing(c, n + 1, id, s) => Finishing(e, n, id, r)
         /\ Accept(e, r, id, own)
<1>0. /\ s.held /\ c[1].gen = s.gen /\ 1 \in Lane(c, id) /\ c[1] \in StreamFrame
      /\ r.gen = s.gen /\ Len(e) \in Nat
  <2>1. s.held /\ c[1].gen = s.gen
    BY FirstFrame
  <2>2. 1 \in Lane(c, id) /\ Len(e) \in Nat
    BY TakenLane
  <2> QED
    BY <2>1, <2>2 DEF Of, TakeStep
<1> USE <1>0
<1>1. ASSUME NEW n \in Nat, Finishing(c, n + 1, id, s)
      PROVE  Finishing(e, n, id, r)
  <2> USE <1>1
  <2>1. /\ FinWrite(c, n + 1, id, s.gen) => FinWrite(e, n, id, s.gen) \/ c[1].fin_write
        /\ FinRead(c, n + 1, id, s.gen) => FinRead(e, n, id, s.gen) \/ c[1].fin_read
    BY TakenFins
  <2>2. /\ r.inFin.sent /\ r.outFin.sent
        /\ s.inFin.received \/ c[1].fin_write => r.inFin.received
        /\ s.outFin.received \/ c[1].fin_read => r.outFin.received
    BY StreamFacts DEF Finishing, TakeStep
  <2> QED
    BY <2>1, <2>2 DEF Finishing
<1> USE <1>1
<1>2. ASSUME NEW i \in Lane(e, id)
      PROVE  /\ Speaks(e[i])
             /\ e[i].gen = r.gen => Welcome(e[i], r)
             /\ e[i].gen # r.gen => Early(e, i, id, own)
             /\ e[i].syn /\ r.held => Finishing(e, i, id, r)
  <2>1. /\ i \in Nat /\ i + 1 \in Lane(c, id) /\ e[i] = c[i + 1] /\ 1 < i + 1
        /\ e[i] \in StreamFrame
    BY TakenLane, LaneTypes, SMTT(40)
  <2> USE <2>1
  <2>2. /\ Speaks(c[i + 1])
        /\ c[i + 1].gen = s.gen => Welcome(c[i + 1], s)
        /\ c[i + 1].gen # s.gen => Early(c, i + 1, id, own)
        /\ c[i + 1].syn /\ s.held => Finishing(c, i + 1, id, s)
        /\ Follows(c[1], c[i + 1])
    BY DEF Accept
  <2> USE <2>2
  <2>3. ASSUME NEW j \in Lane(c, id), j <= i + 1, c[j].syn
        PROVE  \E k \in Lane(e, id) : k <= i /\ e[k].syn
    <3> USE <2>3
    <3>1. j # 1
      BY SMTT(40)
    <3>2. j - 1 \in Lane(e, id) /\ e[j - 1] = c[j] /\ j - 1 <= i
      BY <3>1, TakenLane, SMTT(40)
    <3> QED
      BY <3>2
  <2>4. Early(c, i + 1, id, own) => Early(e, i, id, own)
    BY <2>3 DEF Early
  <2>5. ASSUME e[i].gen = r.gen
        PROVE  Welcome(e[i], r)
    <3>1. Welcome(e[i], s) /\ Follows(c[1], e[i]) /\ Speaks(e[i]) /\ c[1].gen = e[i].gen
      BY <2>5
    <3> USE <3>1
    <3>2. /\ ~e[i].syn
          /\ after_fin_write(s) => e[i].data = 0 /\ ~e[i].fin_write
          /\ s.outFin.received => e[i].credit = 0 /\ ~e[i].fin_read
      BY DEF Welcome
    <3> QED
      BY <3>2, StaysWelcome
  <2> QED
    BY <2>4, <2>5
<1>3. ASSUME NEW i \in Lane(e, id), NEW j \in Lane(e, id), i < j
      PROVE  Follows(e[i], e[j])
  <2>1. /\ i + 1 \in Lane(c, id) /\ j + 1 \in Lane(c, id) /\ i + 1 < j + 1
        /\ e[i] = c[i + 1] /\ e[j] = c[j + 1]
    BY <1>3, TakenLane, SMTT(40)
  <2> QED
    BY <2>1 DEF Accept
<1>4. CarriesAtMost(e, id, r.gen, "credit", r.unacked)
  <2>1. CASE c[1].fin_read
    <3>1. \A i \in Lane(e, id) : e[i].gen = r.gen => Amount(e[i], "credit") = 0
      <4> TAKE i \in Lane(e, id)
      <4>1. i + 1 \in Lane(c, id) /\ e[i] = c[i + 1] /\ 1 < i + 1
        BY TakenLane, SMTT(40)
      <4>2. Follows(c[1], e[i])
        BY <4>1 DEF Accept
      <4> QED
        BY <2>1, <4>2, SMTT(40) DEF Follows, Amount
    <3>2. r.unacked \in Nat
      BY StreamFacts, SMTT(40)
    <3> QED
      BY <3>1, <3>2, NoSums
  <2>2. CASE ~c[1].fin_read
    <3>1. CarriesAtMost(c, id, s.gen, "credit", s.unacked)
      BY SMTT(40) DEF Accept
    <3>2. Amount(c[1], "credit") = c[1].credit
      BY SMTT(40) DEF Amount
    <3>3. CarriesAtMost(e, id, s.gen, "credit", s.unacked - c[1].credit)
      BY <3>1, <3>2, TakenSums
    <3> QED
      BY <2>2, <3>3 DEF TakeStep
  <2> QED
    BY <2>1, <2>2, SMTT(40)
<1> QED
  BY <1>2, <1>3, <1>4 DEF Accept

\* The first frame starts a stream.
LEMMA AcceptStarted ==
  ASSUME NEW c, NEW e, Taken(c, e), NEW id, NEW own, NEW s, NEW r,
         StreamInv(s), StreamInv(r), s.held <=> ~is_dead(s), r.held <=> ~is_dead(r),
         Accept(c, s, id, own), Of(c[1], id), c[1].syn,
         TakeStep(new(FALSE, c[1].gen), r, c[1])
  PROVE  Accept(e, r, id, own)
<1> DEFINE b == new(FALSE, c[1].gen)
<1>0. /\ c[1].gen # s.gen /\ 1 \in Lane(c, id) /\ c[1] \in StreamFrame /\ Len(e) \in Nat
      /\ c[1].gen \in {0, 1}
  <2>1. c[1].gen # s.gen
    BY FirstFrame
  <2>2. 1 \in Lane(c, id) /\ Len(e) \in Nat
    BY TakenLane
  <2> QED
    BY <2>1, <2>2, FrameTypes DEF Of
<1> USE <1>0
<1>1. /\ StreamInv(b) /\ ~b.outFin.received /\ ~after_fin_write(b) /\ b.gen = c[1].gen
  BY NewStream
<1> USE <1>1
<1> HIDE DEF b
<1>2. TakeStep(b, r, c[1]) /\ r.gen = c[1].gen
  BY DEF TakeStep, b
<1> USE <1>2
<1>3. ASSUME NEW i \in Lane(e, id)
      PROVE  /\ Speaks(e[i]) /\ e[i].gen = r.gen /\ ~e[i].syn /\ e[i].credit = 0
             /\ Welcome(e[i], r)
  <2>1. /\ i \in Nat /\ i + 1 \in Lane(c, id) /\ e[i] = c[i + 1] /\ 1 < i + 1
        /\ e[i] \in StreamFrame
    BY TakenLane, LaneTypes, SMTT(40)
  <2> USE <2>1
  <2>2. /\ Speaks(e[i]) /\ Follows(c[1], e[i])
        /\ e[i].gen # s.gen => e[i].credit = 0
    BY DEF Accept, Early
  <2> USE <2>2
  <2>3. e[i].gen = r.gen /\ ~e[i].syn /\ e[i].credit = 0
    BY DEF Follows
  <2> USE <2>3
  <2>4. Welcome(e[i], r)
    BY StaysWelcome
  <2> QED
    BY <2>4, SMTT(40)
<1> USE <1>3
<1>4. ASSUME NEW i \in Lane(e, id), NEW j \in Lane(e, id), i < j
      PROVE  Follows(e[i], e[j])
  <2>1. /\ i + 1 \in Lane(c, id) /\ j + 1 \in Lane(c, id) /\ i + 1 < j + 1
        /\ e[i] = c[i + 1] /\ e[j] = c[j + 1]
    BY <1>4, TakenLane, SMTT(40)
  <2> QED
    BY <2>1 DEF Accept
<1>5. CarriesAtMost(e, id, r.gen, "credit", r.unacked)
  <2>1. \A i \in Lane(e, id) : Amount(e[i], "credit") = 0
    BY DEF Amount
  <2>2. r.unacked \in Nat
    BY StreamFacts, SMTT(40)
  <2> QED
    BY <2>1, <2>2, NoSums
<1> QED
  BY <1>4, <1>5 DEF Accept

\* Steps of an application, and sending, are steps of the stream's own side.
LEMMA AppIsOwn ==
  ASSUME NEW s, NEW r, StreamInv(s), StreamInv(r), AppStep(s, r)
  PROVE  OwnStep(s, r)
<1>1. s.unacked <= s.unacked
  BY StreamFacts, SMTT(40)
<1> QED
  BY <1>1 DEF AppStep, OwnStep

\* Sending a frame is a step of the stream itself.
LEMMA SendIsOwn ==
  ASSUME NEW s, NEW r, NEW u, StreamInv(s), StreamInv(r), SendStep(s, r, u), u.data \in {0, 1},
         s.held, r.held <=> ~is_dead(r)
  PROVE  OwnStep(s, r)
<1>1. s.unacked <= r.unacked
  BY StreamFacts, SMTT(40) DEF SendStep
<1>2. after_fin_write(r) <=> after_fin_write(s)
  BY DEF SendStep, after_fin_write
<1>3. ~r.held => after_fin_write(r) /\ r.outFin.received
  BY StreamFacts DEF is_dead
<1> QED
  BY <1>1, <1>2, <1>3 DEF SendStep, OwnStep

-----------------------------------------------------------------------------
(* The ledger of an ID, while both peers are active: `c' leads from the    *)
(* peer that has `s' to the one that has `t', and `d' back.                *)

\* Both have the same stream: what one has sent the other has received, or
\* it is on its way, and the data that is not credited yet is in flight.
Same(c, d, s, t, id) ==
  /\ ~s.syn
  /\ \A i \in Lane(c, id) : c[i].gen = s.gen
  /\ s.outFin.sent <=> FinWrite(c, Len(c), id, s.gen) \/ after_fin_write(t)
  /\ s.inFin.sent <=> FinRead(c, Len(c), id, s.gen) \/ t.outFin.received
  /\ ~s.outFin.received =>
       \E m, k \in Nat : /\ CarriesAtMost(c, id, s.gen, "data", m)
                         /\ CarriesAtMost(d, id, s.gen, "credit", k)
                         /\ m + k + (t.unread + t.credit) <= s.unacked

\* `s' has taken the place of `t', which is about to be dead, and nothing of
\* `s' has reached the other peer.
Fresh(c, d, s, t, id, own) ==
  /\ own /\ s.held /\ ~s.outFin.received /\ ~after_fin_write(s)
  /\ s.unread = 0 /\ s.credit = 0
  /\ Lane(d, id) = {}
  /\ Finishing(c, Len(c), id, t)
  /\ s.syn <=> \A i \in Lane(c, id) : c[i].gen # s.gen
  /\ s.outFin.sent <=> FinWrite(c, Len(c), id, s.gen)
  /\ s.inFin.sent <=> FinRead(c, Len(c), id, s.gen)
  /\ CarriesAtMost(c, id, s.gen, "data", s.unacked)

Ledger(c, d, s, t, id, own) ==
  \/ s.gen = t.gen /\ Same(c, d, s, t, id) /\ Same(d, c, t, s, id)
  \/ s.gen # t.gen /\ (Fresh(c, d, s, t, id, own) \/ Fresh(d, c, t, s, id, ~own))

\* The accounts of the two sides are the same seen from either.
LEMMA LedgerSymmetric ==
  ASSUME NEW c, NEW d, NEW s, NEW t, NEW id, NEW own \in BOOLEAN
  PROVE  Ledger(c, d, s, t, id, own) <=> Ledger(d, c, t, s, id, ~own)
<1>1. (~~own) = own
  OBVIOUS
<1> QED
  BY <1>1 DEF Ledger

\* A dead stream has nothing to wait for from the other side, which will be
\* dead too.
LEMMA DeadMeansFinishing ==
  ASSUME NEW c, NEW d, NEW s, NEW t, NEW id, StreamInv(s), StreamInv(t), s.gen = t.gen,
         Same(c, d, s, t, id), Same(d, c, t, s, id), is_dead(s)
  PROVE  Finishing(c, Len(c), id, t)
<1>1. /\ s.inFin.sent /\ s.outFin.sent /\ after_fin_write(s) /\ s.outFin.received
  BY StreamFacts DEF is_dead
<1> USE <1>1
<1>2. t.inFin.sent /\ t.outFin.sent
  BY DEF Same
<1>3. /\ FinWrite(c, Len(c), id, s.gen) \/ after_fin_write(t)
      /\ FinRead(c, Len(c), id, s.gen) \/ t.outFin.received
  BY DEF Same
<1> QED
  BY <1>2, <1>3, StreamFacts DEF Finishing

\* What an application does to its stream leaves the accounts true.
LEMMA LedgerApp ==
  ASSUME NEW c, NEW d, Len(c) \in Nat, Len(d) \in Nat, NEW s, NEW t, NEW r, NEW id, NEW own,
         StreamInv(s), StreamInv(r), StreamInv(t), AppStep(s, r), Ledger(c, d, s, t, id, own)
  PROVE  Ledger(c, d, r, t, id, own)
<1>0. /\ s.unread \in Nat /\ s.credit \in Nat /\ r.unread \in Nat /\ r.credit \in Nat
      /\ t.unacked \in Nat /\ r.unread + r.credit <= s.unread + s.credit
  BY StreamFacts DEF AppStep
<1> USE <1>0
<1>1. CASE s.gen = t.gen /\ Same(c, d, s, t, id) /\ Same(d, c, t, s, id)
  <2> USE <1>1
  <2>1. Same(c, d, r, t, id)
    BY DEF Same, AppStep
  <2>2. ASSUME ~t.outFin.received
        PROVE  \E m, k \in Nat : /\ CarriesAtMost(d, id, t.gen, "data", m)
                                 /\ CarriesAtMost(c, id, t.gen, "credit", k)
                                 /\ m + k + (r.unread + r.credit) <= t.unacked
    <3>1. PICK m \in Nat, k \in Nat : /\ CarriesAtMost(d, id, t.gen, "data", m)
                                      /\ CarriesAtMost(c, id, t.gen, "credit", k)
                                      /\ m + k + (s.unread + s.credit) <= t.unacked
      BY <2>2 DEF Same
    <3> USE <3>1
    <3>2. m + k + (r.unread + r.credit) <= t.unacked
      <4>1. m + k + (s.unread + s.credit) <= t.unacked
        BY SMTT(40)
      <4> QED
        BY <4>1, SMTT(40)
    <3> QED
      BY <3>2
  <2>3. Same(d, c, t, r, id)
    BY <2>2 DEF Same, AppStep
  <2> QED
    BY <2>1, <2>3 DEF Ledger, AppStep
<1>2. CASE s.gen # t.gen /\ Fresh(c, d, s, t, id, own)
  <2> USE <1>2
  <2>1. r.unread = 0 /\ r.credit = 0
    BY SMTT(40) DEF Fresh
  <2>2. Fresh(c, d, r, t, id, own)
    BY <2>1 DEF Fresh, AppStep
  <2> QED
    BY <2>2 DEF Ledger, AppStep
<1>3. CASE s.gen # t.gen /\ Fresh(d, c, t, s, id, ~own)
  <2> USE <1>3
  <2>1. Finishing(d, Len(d), id, r)
    BY AppIsOwn, AcceptOwn DEF Fresh
  <2>2. Fresh(d, c, t, r, id, ~own)
    BY <2>1 DEF Fresh
  <2> QED
    BY <2>2 DEF Ledger, AppStep
<1> QED
  BY <1>1, <1>2, <1>3 DEF Ledger

\* A stream takes the place of a dead one (try_start_outbound).
LEMMA LedgerOpen ==
  ASSUME NEW c, NEW d, Len(c) \in Nat, Len(d) \in Nat, NEW s, NEW t, NEW id, NEW own,
         StreamInv(s), StreamInv(t), ~s.held, is_dead(s), own,
         Accept(d, s, id, ~own), Ledger(c, d, s, t, id, own)
  PROVE  /\ Lane(d, id) = {}
         /\ Ledger(c, d, new(TRUE, 1 - s.gen), t, id, own)
<1> DEFINE r == new(TRUE, 1 - s.gen)
<1>0. s.gen \in {0, 1} /\ 1 - s.gen \in {0, 1} /\ 1 - s.gen # s.gen
  BY StreamFacts, SMTT(40)
<1> USE <1>0
<1>1. /\ StreamInv(r) /\ r.held /\ r.gen = 1 - s.gen /\ r.syn = TRUE
      /\ ~r.outFin.sent /\ ~r.outFin.received /\ ~r.inFin.sent /\ ~after_fin_write(r)
      /\ r.unacked = 0 /\ r.unread = 0 /\ r.credit = 0
  BY NewStream
<1> USE <1>1
<1> HIDE DEF r
<1>2. Lane(d, id) = {}
  <2>1. SUFFICES ASSUME NEW i \in Lane(d, id) PROVE FALSE
    OBVIOUS
  <2>2. /\ d[i].gen = s.gen => Welcome(d[i], s)
        /\ d[i].gen # s.gen => Early(d, i, id, ~own)
    BY DEF Accept
  <2> QED
    BY <2>2 DEF Welcome, Early
<1> USE <1>2
<1>3. s.gen = t.gen /\ Same(c, d, s, t, id) /\ Same(d, c, t, s, id)
  BY DEF Ledger, Fresh
<1> USE <1>3
<1>4. Finishing(c, Len(c), id, t)
  BY DeadMeansFinishing
<1>5. \A i \in Lane(c, id) : c[i].gen # r.gen
  BY DEF Same
<1> USE <1>5
<1>6. ~FinWrite(c, Len(c), id, r.gen) /\ ~FinRead(c, Len(c), id, r.gen)
  BY DEF FinWrite, FinRead
<1>7. CarriesAtMost(c, id, r.gen, "data", r.unacked)
  <2>1. r.unacked \in Nat
    BY SMTT(40)
  <2> QED
    BY <2>1, NoSums
<1>8. Fresh(c, d, r, t, id, own)
  BY <1>4, <1>6, <1>7 DEF Fresh
<1>9. r.gen # t.gen
  OBVIOUS
<1> QED
  BY <1>8, <1>9 DEF Ledger, r

\* A frame of another ID is sent.
LEMMA LedgerGrownOther ==
  ASSUME NEW c, NEW e, NEW x, Grown(c, e, x), NEW d, NEW s, NEW t, NEW id, NEW own,
         ~Of(x, id), StreamInv(s), StreamInv(t), Ledger(c, d, s, t, id, own)
  PROVE  Ledger(e, d, s, t, id, own)
<1>1. \A i : i \in Lane(e, id) <=> i \in Lane(c, id)
  BY GrownLane, SMTT(40)
<1> USE <1>1
<1>2. \A i \in Lane(c, id) : e[i] = c[i]
  BY GrownLane, SMTT(40)
<1> USE <1>2
<1>3. \A g : /\ FinWrite(e, Len(e), id, g) <=> FinWrite(c, Len(c), id, g)
             /\ FinRead(e, Len(e), id, g) <=> FinRead(c, Len(c), id, g)
  BY GrownFins
<1> USE <1>3
<1>4. ASSUME NEW g, NEW what, NEW n, CarriesAtMost(c, id, g, what, n)
      PROVE  CarriesAtMost(e, id, g, what, n)
  <2> USE <1>4
  <2>1. n \in Nat
    BY SMTT(40) DEF CarriesAtMost
  <2>2. CarriesAtMost(e, id, g, what, n + 0)
    BY GrownSums
  <2>3. n + 0 = n
    BY <2>1, SMTT(40)
  <2> QED
    BY <2>2, <2>3
<1> USE <1>4
<1>5. Same(c, d, s, t, id) => Same(e, d, s, t, id)
  BY DEF Same
<1>6. Same(d, c, t, s, id) => Same(d, e, t, s, id)
  BY DEF Same
<1>7. Fresh(c, d, s, t, id, own) => Fresh(e, d, s, t, id, own)
  <2>1. Finishing(c, Len(c), id, t) => Finishing(e, Len(e), id, t)
    BY DEF Finishing
  <2>2. (\A i \in Lane(c, id) : c[i].gen # s.gen) <=> \A i \in Lane(e, id) : e[i].gen # s.gen
    OBVIOUS
  <2> QED
    BY <2>1, <2>2 DEF Fresh
<1>8. Fresh(d, c, t, s, id, ~own) => Fresh(d, e, t, s, id, ~own)
  BY DEF Fresh
<1> QED
  BY <1>5, <1>6, <1>7, <1>8 DEF Ledger

\* A frame of another ID is taken.
LEMMA LedgerTakenOther ==
  ASSUME NEW d, NEW e, Taken(d, e), NEW c, NEW s, NEW t, NEW id, NEW own,
         ~Of(d[1], id), StreamInv(s), StreamInv(t), Ledger(c, d, s, t, id, own)
  PROVE  Ledger(c, e, s, t, id, own)
<1>0. Len(e) \in Nat /\ Len(d) = Len(e) + 1
  BY SMTT(40) DEF Taken
<1>1. \A i \in Lane(e, id) : i + 1 \in Lane(d, id) /\ e[i] = d[i + 1]
  BY TakenLane, SMTT(40)
<1> USE <1>1
<1>2. \A i \in Lane(d, id) : \E j \in Lane(e, id) : e[j] = d[i]
  BY TakenLane, SMTT(40)
<1>3. \A g : /\ FinWrite(e, Len(e), id, g) <=> FinWrite(d, Len(d), id, g)
             /\ FinRead(e, Len(e), id, g) <=> FinRead(d, Len(d), id, g)
  BY <1>0, TakenFins
<1> USE <1>3
<1>4. ASSUME NEW g, NEW what, NEW n, CarriesAtMost(d, id, g, what, n)
      PROVE  CarriesAtMost(e, id, g, what, n)
  <2> USE <1>4
  <2>1. n \in Nat
    BY SMTT(40) DEF CarriesAtMost
  <2>2. CarriesAtMost(e, id, g, what, n - 0)
    BY TakenSums
  <2>3. n - 0 = n
    BY <2>1, SMTT(40)
  <2> QED
    BY <2>2, <2>3
<1> USE <1>4
<1>5. \A g : (\A i \in Lane(d, id) : d[i].gen = g) => \A i \in Lane(e, id) : e[i].gen = g
  OBVIOUS
<1>6. \A g : (\A i \in Lane(d, id) : d[i].gen # g) <=> \A i \in Lane(e, id) : e[i].gen # g
  BY <1>2
<1>7. Same(d, c, t, s, id) => Same(e, c, t, s, id)
  BY <1>5 DEF Same
<1>8. Same(c, d, s, t, id) => Same(c, e, s, t, id)
  BY DEF Same
<1>9. Fresh(d, c, t, s, id, ~own) => Fresh(e, c, t, s, id, ~own)
  BY <1>6 DEF Fresh, Finishing
<1>10. Fresh(c, d, s, t, id, own) => Fresh(c, e, s, t, id, own)
  BY DEF Fresh
<1> QED
  BY <1>7, <1>8, <1>9, <1>10 DEF Ledger

\* What is sent (poll_progress) is what the other side expects next.
LEMMA SendFits ==
  ASSUME NEW c, NEW d, Len(c) \in Nat, NEW x, NEW s, NEW t, NEW r, NEW id, NEW own,
         Of(x, id), x.gen = s.gen, Speaks(x), SendStep(s, r, x),
         StreamInv(s), StreamInv(r), StreamInv(t), t.held <=> ~is_dead(t),
         Accept(c, t, id, own), Ledger(c, d, s, t, id, own)
  PROVE  /\ Fits(c, x, t, id, own)
         /\ ~(s.gen # t.gen /\ Fresh(d, c, t, s, id, ~own))
<1>0. /\ x.data \in {0, 1} /\ x.credit \in Nat /\ x.syn \in BOOLEAN /\ x.gen \in {0, 1}
      /\ x.fin_read \in BOOLEAN /\ x.fin_write \in BOOLEAN
      /\ s.unread \in Nat /\ s.credit \in Nat /\ r.credit \in Nat
      /\ t.unacked \in Nat /\ s.gen \in {0, 1} /\ t.gen \in {0, 1}
  BY FrameTypes, StreamFacts DEF Of
<1>1. s.outFin.sent => x.data = 0 /\ ~x.fin_write
  BY <1>0, SMTT(40) DEF SendStep
<1>2. s.inFin.sent => x.credit = 0 /\ ~x.fin_read
  BY <1>0, SMTT(40) DEF SendStep
<1>3. ~(s.outFin.sent /\ s.inFin.sent)
  BY <1>0, <1>1, <1>2, SMTT(40) DEF Speaks
<1>4. ~(s.gen # t.gen /\ Fresh(d, c, t, s, id, ~own))
  BY <1>3 DEF Fresh, Finishing
<1>5. x.credit <= s.credit /\ x.syn = s.syn
  <2>1. r.credit + x.credit <= s.credit
    BY SMTT(40) DEF SendStep
  <2>2. x.credit <= s.credit
    BY <1>0, <2>1, SMTT(40)
  <2> QED
    BY <2>2, SMTT(40) DEF SendStep
<1>6. \A i \in Lane(c, id) : c[i].gen = t.gen => ~c[i].syn
  BY DEF Accept, Welcome
<1>7. ASSUME NEW i \in Lane(c, id), c[i].gen = s.gen,
             FinWrite(c, Len(c), id, s.gen) => s.outFin.sent,
             FinRead(c, Len(c), id, s.gen) => s.inFin.sent
      PROVE  /\ c[i].fin_write => x.data = 0 /\ ~x.fin_write
             /\ c[i].fin_read => x.credit = 0 /\ ~x.fin_read
  <2>1. i <= Len(c)
    BY LaneTypes, SMTT(40)
  <2>2. /\ c[i].fin_write => s.outFin.sent
        /\ c[i].fin_read => s.inFin.sent
    BY <1>7, <2>1 DEF FinWrite, FinRead
  <2> QED
    BY <1>1, <1>2, <2>2
<1>8. CASE s.gen = t.gen /\ Same(c, d, s, t, id) /\ Same(d, c, t, s, id)
  <2>1. ~x.syn
    BY <1>5, <1>8 DEF Same
  <2>2. /\ after_fin_write(t) => s.outFin.sent
        /\ t.outFin.received => s.inFin.sent
        /\ FinWrite(c, Len(c), id, s.gen) => s.outFin.sent
        /\ FinRead(c, Len(c), id, s.gen) => s.inFin.sent
    BY <1>8 DEF Same
  <2>3. t.held
    BY <1>3, <2>2, StreamFacts DEF is_dead
  <2>4. Welcome(x, t)
    BY <1>1, <1>2, <2>1, <2>2, <2>3 DEF Welcome
  <2>5. \A i \in Lane(c, id) : Follows(c[i], x)
    <3> TAKE i \in Lane(c, id)
    <3>1. c[i].gen = s.gen /\ ~c[i].syn
      BY <1>6, <1>8 DEF Same
    <3> QED
      BY <1>7, <2>2, <3>1 DEF Follows
  <2>6. \E m \in Nat : /\ CarriesAtMost(c, id, t.gen, "credit", m)
                       /\ m + x.credit <= t.unacked
    <3>1. CASE t.outFin.received
      <4>1. CarriesAtMost(c, id, t.gen, "credit", t.unacked)
        BY SMTT(40) DEF Accept
      <4>2. t.unacked + x.credit <= t.unacked
        BY <1>0, <1>2, <2>2, <3>1, SMTT(40)
      <4> QED
        BY <1>0, <4>1, <4>2
    <3>2. CASE ~t.outFin.received
      <4>1. PICK m \in Nat, k \in Nat : /\ CarriesAtMost(d, id, t.gen, "data", m)
                                        /\ CarriesAtMost(c, id, t.gen, "credit", k)
                                        /\ m + k + (s.unread + s.credit) <= t.unacked
        BY <1>8, <3>2 DEF Same
      <4>2. m + k + (s.unread + s.credit) <= t.unacked
        BY <4>1, SMTT(40)
      <4>3. k + x.credit <= t.unacked
        BY <1>0, <1>5, <4>2, SMTT(40)
      <4> QED
        BY <4>1, <4>3
    <3> QED
      BY <3>1, <3>2, SMTT(40)
  <2> QED
    BY <1>4, <1>8, <2>1, <2>4, <2>5, <2>6 DEF Fits
<1>9. CASE s.gen # t.gen /\ Fresh(c, d, s, t, id, own)
  <2>1. own /\ x.credit = 0 /\ Finishing(c, Len(c), id, t)
    <3>1. s.credit = 0 /\ own /\ Finishing(c, Len(c), id, t)
      BY <1>9 DEF Fresh
    <3> QED
      BY <1>0, <1>5, <3>1, SMTT(40)
  <2>2. x.syn \/ \E j \in Lane(c, id) : c[j].syn
    <3>1. CASE ~s.syn
      <4>1. PICK i \in Lane(c, id) : c[i].gen = s.gen
        BY <1>9, <3>1 DEF Fresh
      <4>2. Early(c, i, id, own)
        BY <1>9, <4>1 DEF Accept
      <4> QED
        BY <4>2 DEF Early
    <3> QED
      BY <1>5, <3>1
  <2>3. \A i \in Lane(c, id) : Follows(c[i], x)
    <3> TAKE i \in Lane(c, id)
    <3>1. c[i].syn => c[i].gen # t.gen
      BY <1>6
    <3>2. c[i].gen \in {0, 1}
      BY LaneTypes, SMTT(40)
    <3>3. c[i].syn => c[i].gen = s.gen
      BY <1>0, <1>9, <3>1, <3>2, SMTT(40)
    <3>4. c[i].gen = s.gen => ~s.syn
      BY <1>9 DEF Fresh
    <3>5. c[i].gen = s.gen => /\ c[i].fin_write => x.data = 0 /\ ~x.fin_write
                              /\ c[i].fin_read => x.credit = 0 /\ ~x.fin_read
      BY <1>7, <1>9 DEF Fresh
    <3> QED
      BY <1>5, <3>3, <3>4, <3>5 DEF Follows
  <2> QED
    BY <1>4, <1>9, <2>1, <2>2, <2>3 DEF Fits
<1> QED
  BY <1>4, <1>8, <1>9 DEF Ledger

\* Arithmetic of what is in flight: data is sent, or credit is; credit is
\* received, or data is.
LEMMA SentArithmetic ==
  ASSUME NEW m \in Nat, NEW k \in Nat, NEW a \in Nat, NEW b \in Nat, NEW n \in Nat,
         m + k + (a + b) <= n
  PROVE  /\ \A x \in Nat : m + x \in Nat /\ (m + x) + k + (a + b) <= n + x
         /\ \A x, f \in Nat : f + x <= b => k + x \in Nat /\ m + (k + x) + (a + f) <= n
BY SMTT(40)

\* A frame taken from the channel moves its data to what is unread, and its
\* credit out of what is unacknowledged.
LEMMA TakenArithmetic ==
  ASSUME NEW m \in Nat, NEW k \in Nat, NEW a \in Nat, NEW b \in Nat, NEW n \in Nat,
         m + k + (a + b) <= n
  PROVE  /\ \A x \in Nat : x <= k => k - x \in Nat /\ m + (k - x) + (a + b) <= n - x
         /\ \A x, f \in Nat : x <= m /\ f <= a + x =>
              m - x \in Nat /\ (m - x) + k + (f + b) <= n
BY SMTT(40)

\* The ledger after a frame is sent.
LEMMA LedgerSend ==
  ASSUME NEW c, NEW e, NEW d, NEW x, Grown(c, e, x), Len(d) \in Nat,
         NEW s, NEW t, NEW r, NEW id, NEW own,
         Of(x, id), x.gen = s.gen, Speaks(x), SendStep(s, r, x),
         StreamInv(s), StreamInv(r), StreamInv(t),
         r.held <=> ~is_dead(r), t.held <=> ~is_dead(t),
         Accept(c, t, id, own), Ledger(c, d, s, t, id, own)
  PROVE  Ledger(e, d, r, t, id, own)
<1>0. /\ x.data \in Nat /\ x.credit \in Nat
      /\ s.unread \in Nat /\ s.credit \in Nat /\ r.credit \in Nat /\ r.unread \in Nat
      /\ t.unacked \in Nat /\ s.unacked \in Nat /\ t.unread \in Nat /\ t.credit \in Nat
      /\ Len(c) \in Nat
  <2>1. Len(c) \in Nat
    BY SMTT(40) DEF Grown
  <2>2. x.data \in Nat /\ x.credit \in Nat
    BY FrameTypes DEF Of
  <2> QED
    BY <2>1, <2>2, StreamFacts
<1>1. /\ r.gen = s.gen /\ ~r.syn /\ r.unread = s.unread /\ r.unacked = s.unacked + x.data
      /\ r.credit + x.credit <= s.credit
      /\ r.outFin.received <=> s.outFin.received
      /\ r.inFin.sent <=> s.inFin.sent \/ x.fin_read
      /\ r.outFin.sent <=> s.outFin.sent \/ x.fin_write
      /\ after_fin_write(r) <=> after_fin_write(s)
  BY DEF SendStep, after_fin_write
<1>2. /\ FinWrite(e, Len(e), id, s.gen) <=> FinWrite(c, Len(c), id, s.gen) \/ x.fin_write
      /\ FinRead(e, Len(e), id, s.gen) <=> FinRead(c, Len(c), id, s.gen) \/ x.fin_read
  BY GrownFins, SMTT(40)
<1>3. /\ \A n : CarriesAtMost(c, id, s.gen, "data", n) =>
                  CarriesAtMost(e, id, s.gen, "data", n + x.data)
      /\ \A n : CarriesAtMost(c, id, s.gen, "credit", n) =>
                  CarriesAtMost(e, id, s.gen, "credit", n + x.credit)
  <2>1. Amount(x, "data") = x.data /\ Amount(x, "credit") = x.credit
    BY SMTT(40) DEF Amount
  <2> QED
    BY <2>1, GrownSums
<1>4. CASE s.gen = t.gen /\ Same(c, d, s, t, id) /\ Same(d, c, t, s, id)
  <2>1. \A i \in Lane(e, id) : e[i].gen = r.gen
    <3> TAKE i \in Lane(e, id)
    <3>1. (i \in Lane(c, id) /\ e[i] = c[i]) \/ e[i] = x
      BY GrownLane, SMTT(40)
    <3> QED
      BY <1>1, <1>4, <3>1 DEF Same
  <2>2. ASSUME ~r.outFin.received
        PROVE  \E m, k \in Nat : /\ CarriesAtMost(e, id, r.gen, "data", m)
                                 /\ CarriesAtMost(d, id, r.gen, "credit", k)
                                 /\ m + k + (t.unread + t.credit) <= r.unacked
    <3>1. PICK m \in Nat, k \in Nat : /\ CarriesAtMost(c, id, s.gen, "data", m)
                                      /\ CarriesAtMost(d, id, s.gen, "credit", k)
                                      /\ m + k + (t.unread + t.credit) <= s.unacked
      BY <1>1, <1>4, <2>2 DEF Same
    <3>2. /\ m + x.data \in Nat
          /\ (m + x.data) + k + (t.unread + t.credit) <= s.unacked + x.data
      BY <1>0, <3>1, SentArithmetic
    <3>3. (m + x.data) + k + (t.unread + t.credit) <= r.unacked
      BY <1>1, <3>2
    <3>4. CarriesAtMost(e, id, r.gen, "data", m + x.data)
      BY <1>1, <1>3, <3>1
    <3> QED
      BY <1>1, <3>1, <3>2, <3>3, <3>4
  <2>3. Same(e, d, r, t, id)
    BY <1>1, <1>2, <1>4, <2>1, <2>2 DEF Same
  <2>4. ASSUME ~t.outFin.received
        PROVE  \E m, k \in Nat : /\ CarriesAtMost(d, id, t.gen, "data", m)
                                 /\ CarriesAtMost(e, id, t.gen, "credit", k)
                                 /\ m + k + (r.unread + r.credit) <= t.unacked
    <3>1. PICK m \in Nat, k \in Nat : /\ CarriesAtMost(d, id, t.gen, "data", m)
                                      /\ CarriesAtMost(c, id, t.gen, "credit", k)
                                      /\ m + k + (s.unread + s.credit) <= t.unacked
      BY <1>4, <2>4 DEF Same
    <3>2. k + x.credit \in Nat /\ m + (k + x.credit) + (s.unread + r.credit) <= t.unacked
      <4>1. m + k + (s.unread + s.credit) <= t.unacked /\ r.credit + x.credit <= s.credit
        BY <1>1, <3>1, SMTT(40)
      <4> QED
        BY <1>0, <4>1, SentArithmetic
    <3>3. m + (k + x.credit) + (r.unread + r.credit) <= t.unacked
      BY <1>1, <3>2
    <3>4. CarriesAtMost(e, id, t.gen, "credit", k + x.credit)
      BY <1>3, <1>4, <3>1
    <3> QED
      BY <3>1, <3>2, <3>3, <3>4
  <2>5. Same(d, e, t, r, id)
    BY <1>1, <1>4, <2>4 DEF Same
  <2> QED
    BY <1>1, <1>4, <2>3, <2>5 DEF Ledger
<1>5. CASE s.gen # t.gen /\ Fresh(c, d, s, t, id, own)
  <2>1. r.unread = 0 /\ r.credit = 0
    <3>1. s.unread = 0 /\ s.credit = 0
      BY <1>5 DEF Fresh
    <3> QED
      BY <1>0, <1>1, <3>1, SMTT(40)
  <2>2. r.held
    BY <1>1, <1>5 DEF Fresh, is_dead
  <2>3. Finishing(e, Len(e), id, t)
    BY <1>5, FinishingGrown DEF Fresh
  <2>4. ~\A i \in Lane(e, id) : e[i].gen # r.gen
    BY <1>1, GrownLane, SMTT(40)
  <2>5. CarriesAtMost(e, id, r.gen, "data", r.unacked)
    BY <1>1, <1>3, <1>5 DEF Fresh
  <2>6. Fresh(e, d, r, t, id, own)
    BY <1>1, <1>2, <1>5, <2>1, <2>2, <2>3, <2>4, <2>5 DEF Fresh
  <2> QED
    BY <1>1, <1>5, <2>6 DEF Ledger
<1>6. ~(s.gen # t.gen /\ Fresh(d, c, t, s, id, ~own))
  <2>1. Len(c) \in Nat
    BY <1>0, SMTT(40)
  <2>2. Fits(c, x, t, id, own) /\ ~(s.gen # t.gen /\ Fresh(d, c, t, s, id, ~own))
    BY <2>1, SendFits, SMTT(40)
  <2> QED
    BY <2>2, SMTT(40)
<1> QED
  BY <1>4, <1>5, <1>6 DEF Ledger

\* The ledger after a frame of the stream `s' is taken.
LEMMA LedgerTaken ==
  ASSUME NEW c, NEW d, NEW e, Taken(d, e), Len(c) \in Nat,
         NEW s, NEW t, NEW r, NEW id, NEW own,
         Of(d[1], id), ~d[1].syn, TakeStep(s, r, d[1]),
         StreamInv(s), StreamInv(r), StreamInv(t),
         s.held <=> ~is_dead(s), r.held <=> ~is_dead(r),
         Accept(d, s, id, ~own), Ledger(c, d, s, t, id, own)
  PROVE  Ledger(c, e, r, t, id, own)
<1> DEFINE x == d[1]
<1>0. /\ x.data \in Nat /\ x.credit \in Nat /\ x.gen = s.gen
      /\ s.unread \in Nat /\ s.credit \in Nat /\ r.credit \in Nat /\ r.unread \in Nat
      /\ t.unacked \in Nat /\ s.unacked \in Nat /\ t.unread \in Nat /\ t.credit \in Nat
      /\ Len(e) \in Nat /\ Len(d) = Len(e) + 1 /\ 1 \in Lane(d, id)
  <2>1. Len(e) \in Nat /\ Len(d) = Len(e) + 1
    BY SMTT(40) DEF Taken
  <2>2. x.data \in Nat /\ x.credit \in Nat
    BY FrameTypes DEF Of
  <2>3. x.gen = s.gen
    BY FirstFrame
  <2>4. 1 \in Lane(d, id)
    BY TakenLane
  <2> QED
    BY <2>1, <2>2, <2>3, <2>4, StreamFacts
<1>1. /\ r.gen = s.gen /\ r.syn = s.syn /\ r.credit = s.credit
      /\ r.inFin.sent = s.inFin.sent /\ r.outFin.sent = s.outFin.sent
      /\ r.unacked = IF x.fin_read THEN 0 ELSE s.unacked - x.credit
      /\ r.outFin.received <=> s.outFin.received \/ x.fin_read
      /\ after_fin_write(r) <=> after_fin_write(s) \/ x.fin_write
      /\ r.unread <= s.unread + x.data
  BY SMTT(40) DEF TakeStep
<1>2. \A g : /\ FinWrite(d, Len(d), id, g) <=>
                  FinWrite(e, Len(e), id, g) \/ (x.gen = g /\ x.fin_write)
             /\ FinRead(d, Len(d), id, g) <=>
                  FinRead(e, Len(e), id, g) \/ (x.gen = g /\ x.fin_read)
  <2> TAKE g
  <2>1. /\ FinWrite(d, Len(e) + 1, id, g) <=>
             FinWrite(e, Len(e), id, g) \/ (x.gen = g /\ x.fin_write)
        /\ FinRead(d, Len(e) + 1, id, g) <=>
             FinRead(e, Len(e), id, g) \/ (x.gen = g /\ x.fin_read)
    BY <1>0, TakenFins
  <2> QED
    BY <1>0, <2>1
<1>3. /\ \A n : CarriesAtMost(d, id, s.gen, "data", n) =>
                  x.data <= n /\ CarriesAtMost(e, id, s.gen, "data", n - x.data)
      /\ \A n : CarriesAtMost(d, id, s.gen, "credit", n) =>
                  x.credit <= n /\ CarriesAtMost(e, id, s.gen, "credit", n - x.credit)
  <2>1. Amount(x, "data") = x.data /\ Amount(x, "credit") = x.credit
    BY SMTT(40) DEF Amount
  <2>2. Of(d[1], id) /\ d[1].gen = s.gen
    BY <1>0, SMTT(40)
  <2>3. ASSUME NEW n, NEW what, CarriesAtMost(d, id, s.gen, what, n)
        PROVE  Amount(x, what) <= n /\ CarriesAtMost(e, id, s.gen, what, n - Amount(x, what))
    BY <2>2, <2>3, TakenSums
  <2> QED
    BY <2>1, <2>3
<1> HIDE DEF x
<1>4. CASE s.gen = t.gen /\ Same(c, d, s, t, id) /\ Same(d, c, t, s, id)
  <2>1. \A i \in Lane(e, id) : e[i].gen = t.gen
    <3> TAKE i \in Lane(e, id)
    <3>1. i + 1 \in Lane(d, id) /\ e[i] = d[i + 1]
      BY TakenLane, SMTT(40)
    <3> QED
      BY <1>4, <3>1 DEF Same
  <2>2. ASSUME ~t.outFin.received
        PROVE  \E m, k \in Nat : /\ CarriesAtMost(e, id, t.gen, "data", m)
                                 /\ CarriesAtMost(c, id, t.gen, "credit", k)
                                 /\ m + k + (r.unread + r.credit) <= t.unacked
    <3>1. PICK m \in Nat, k \in Nat : /\ CarriesAtMost(d, id, t.gen, "data", m)
                                      /\ CarriesAtMost(c, id, t.gen, "credit", k)
                                      /\ m + k + (s.unread + s.credit) <= t.unacked
      BY <1>4, <2>2 DEF Same
    <3>2. x.data <= m /\ CarriesAtMost(e, id, t.gen, "data", m - x.data)
      BY <1>3, <1>4, <3>1
    <3>3. m - x.data \in Nat /\ (m - x.data) + k + (r.unread + s.credit) <= t.unacked
      <4>1. m + k + (s.unread + s.credit) <= t.unacked /\ r.unread <= s.unread + x.data
        BY <1>1, <3>1, SMTT(40)
      <4> QED
        BY <1>0, <3>2, <4>1, TakenArithmetic
    <3>4. (m - x.data) + k + (r.unread + r.credit) <= t.unacked
      BY <1>1, <3>3
    <3> QED
      BY <3>1, <3>2, <3>3, <3>4
  <2>3. Same(e, c, t, r, id)
    <3>1. t.outFin.sent <=> FinWrite(e, Len(e), id, t.gen) \/ after_fin_write(r)
      BY <1>0, <1>1, <1>2, <1>4 DEF Same
    <3>2. t.inFin.sent <=> FinRead(e, Len(e), id, t.gen) \/ r.outFin.received
      BY <1>0, <1>1, <1>2, <1>4 DEF Same
    <3> QED
      BY <1>4, <2>1, <2>2, <3>1, <3>2 DEF Same
  <2>4. ASSUME ~r.outFin.received
        PROVE  \E m, k \in Nat : /\ CarriesAtMost(c, id, r.gen, "data", m)
                                 /\ CarriesAtMost(e, id, r.gen, "credit", k)
                                 /\ m + k + (t.unread + t.credit) <= r.unacked
    <3>0. ~s.outFin.received /\ r.unacked = s.unacked - x.credit
      BY <1>1, <2>4, SMTT(40)
    <3>1. PICK m \in Nat, k \in Nat : /\ CarriesAtMost(c, id, s.gen, "data", m)
                                      /\ CarriesAtMost(d, id, s.gen, "credit", k)
                                      /\ m + k + (t.unread + t.credit) <= s.unacked
      BY <1>4, <3>0 DEF Same
    <3>2. x.credit <= k /\ CarriesAtMost(e, id, s.gen, "credit", k - x.credit)
      BY <1>3, <3>1
    <3>3. /\ k - x.credit \in Nat
          /\ m + (k - x.credit) + (t.unread + t.credit) <= s.unacked - x.credit
      <4>1. m + k + (t.unread + t.credit) <= s.unacked
        BY <3>1, SMTT(40)
      <4> QED
        BY <1>0, <3>2, <4>1, TakenArithmetic
    <3> QED
      BY <1>1, <3>0, <3>1, <3>2, <3>3
  <2>5. Same(c, e, r, t, id)
    BY <1>1, <1>4, <2>4 DEF Same
  <2> QED
    BY <1>1, <1>4, <2>3, <2>5 DEF Ledger
<1>5. CASE s.gen # t.gen /\ Fresh(d, c, t, s, id, ~own)
  <2>1. Finishing(e, Len(e), id, r)
    <3>1. Finishing(d, Len(e) + 1, id, s)
      BY <1>0, <1>5 DEF Fresh
    <3> QED
      BY <1>0, <3>1, AcceptTaken
  <2>2. (\A i \in Lane(d, id) : d[i].gen # t.gen) <=> \A i \in Lane(e, id) : e[i].gen # t.gen
    <3>1. \A i \in Lane(e, id) : \E j \in Lane(d, id) : d[j] = e[i]
      BY TakenLane, SMTT(40)
    <3>2. \A i \in Lane(d, id) : i = 1 \/ \E j \in Lane(e, id) : e[j] = d[i]
      BY TakenLane, SMTT(40)
    <3>3. d[1].gen # t.gen
      BY <1>0, <1>5, SMTT(40) DEF x
    <3>4. ASSUME NEW i \in Lane(e, id), \A j \in Lane(d, id) : d[j].gen # t.gen
          PROVE  e[i].gen # t.gen
      BY <3>1, <3>4, SMTT(40)
    <3>5. ASSUME NEW i \in Lane(d, id), \A j \in Lane(e, id) : e[j].gen # t.gen
          PROVE  d[i].gen # t.gen
      BY <3>2, <3>3, <3>5, SMTT(40)
    <3> QED
      BY <3>4, <3>5
  <2>3. /\ FinWrite(d, Len(d), id, t.gen) <=> FinWrite(e, Len(e), id, t.gen)
        /\ FinRead(d, Len(d), id, t.gen) <=> FinRead(e, Len(e), id, t.gen)
    BY <1>0, <1>2, <1>5
  <2>4. CarriesAtMost(e, id, t.gen, "data", t.unacked)
    <3>1. CarriesAtMost(d, id, t.gen, "data", t.unacked)
      BY <1>5 DEF Fresh
    <3>2. CarriesAtMost(e, id, t.gen, "data", t.unacked - 0)
      <4>1. ~(Of(d[1], id) /\ d[1].gen = t.gen)
        BY <1>0, <1>5, SMTT(40) DEF x
      <4> QED
        BY <3>1, <4>1, TakenSums
    <3>3. t.unacked - 0 = t.unacked
      BY <1>0, SMTT(40)
    <3> QED
      BY <3>2, <3>3
  <2>5. Fresh(e, c, t, r, id, ~own)
    BY <1>5, <2>1, <2>2, <2>3, <2>4 DEF Fresh
  <2> QED
    BY <1>1, <1>5, <2>5 DEF Ledger
<1>6. ~Fresh(c, d, s, t, id, own)
  BY <1>0 DEF Fresh
<1> QED
  BY <1>4, <1>5, <1>6 DEF Ledger

\* The ledger after a frame that starts a stream is taken.
LEMMA LedgerStarted ==
  ASSUME NEW c, NEW d, NEW e, Taken(d, e), Len(c) \in Nat,
         NEW s, NEW t, NEW r, NEW id, NEW own,
         Of(d[1], id), d[1].syn, TakeStep(new(FALSE, d[1].gen), r, d[1]),
         StreamInv(s), StreamInv(r), StreamInv(t),
         s.held <=> ~is_dead(s), r.held <=> ~is_dead(r),
         Accept(d, s, id, ~own), Ledger(c, d, s, t, id, own)
  PROVE  Ledger(c, e, r, t, id, own)
<1> DEFINE x == d[1]
           b == new(FALSE, x.gen)
<1>0. /\ x.data \in Nat /\ x.credit = 0 /\ x.gen # s.gen
      /\ x.gen \in {0, 1} /\ s.gen \in {0, 1} /\ t.gen \in {0, 1}
      /\ r.credit \in Nat /\ r.unread \in Nat /\ t.unacked \in Nat /\ r.unacked \in Nat
      /\ Len(e) \in Nat /\ Len(d) = Len(e) + 1 /\ 1 \in Lane(d, id)
  <2>1. Len(e) \in Nat /\ Len(d) = Len(e) + 1
    BY SMTT(40) DEF Taken
  <2>2. x.data \in Nat /\ x.gen \in {0, 1}
    BY FrameTypes DEF Of
  <2>3. x.gen # s.gen /\ x.credit = 0
    BY FirstFrame
  <2>4. 1 \in Lane(d, id)
    BY TakenLane
  <2> QED
    BY <2>1, <2>2, <2>3, <2>4, StreamFacts
<1>1. /\ b.gen = x.gen /\ ~b.syn /\ b.credit = 0 /\ b.unread = 0
      /\ ~b.inFin.sent /\ ~b.outFin.sent /\ ~b.outFin.received /\ ~after_fin_write(b)
  <2>1. FALSE \in BOOLEAN
    OBVIOUS
  <2>2. b.syn = FALSE
    BY <1>0, <2>1, NewStream
  <2> QED
    BY <1>0, <2>1, <2>2, NewStream
<1>2. TakeStep(b, r, x)
  OBVIOUS
<1> HIDE DEF b
<1>3. /\ r.gen = x.gen /\ ~r.syn /\ r.credit = 0 /\ ~r.inFin.sent /\ ~r.outFin.sent
      /\ r.outFin.received <=> x.fin_read
      /\ after_fin_write(r) <=> x.fin_write
      /\ r.unread <= 0 + x.data
  BY <1>1, <1>2 DEF TakeStep
<1>4. s.gen # t.gen /\ Fresh(d, c, t, s, id, ~own)
  <2>1. ~Fresh(c, d, s, t, id, own)
    BY <1>0 DEF Fresh
  <2>2. ~(s.gen = t.gen /\ Same(d, c, t, s, id))
    BY <1>0 DEF Same
  <2> QED
    BY <2>1, <2>2 DEF Ledger
<1>5. t.gen = x.gen
  BY <1>0, <1>4, SMTT(40)
<1>6. /\ ~t.outFin.received /\ ~after_fin_write(t) /\ t.unread = 0 /\ t.credit = 0
      /\ Lane(c, id) = {} /\ ~t.syn
      /\ t.outFin.sent <=> FinWrite(d, Len(d), id, t.gen)
      /\ t.inFin.sent <=> FinRead(d, Len(d), id, t.gen)
      /\ CarriesAtMost(d, id, t.gen, "data", t.unacked)
  <2>1. ~\A i \in Lane(d, id) : d[i].gen # t.gen
    BY <1>0, <1>5, SMTT(40)
  <2> QED
    BY <1>4, <2>1 DEF Fresh
<1>7. /\ FinWrite(d, Len(d), id, t.gen) <=> FinWrite(e, Len(e), id, t.gen) \/ x.fin_write
      /\ FinRead(d, Len(d), id, t.gen) <=> FinRead(e, Len(e), id, t.gen) \/ x.fin_read
  <2>1. /\ FinWrite(d, Len(e) + 1, id, t.gen) <=>
             FinWrite(e, Len(e), id, t.gen) \/ (x.gen = t.gen /\ x.fin_write)
        /\ FinRead(d, Len(e) + 1, id, t.gen) <=>
             FinRead(e, Len(e), id, t.gen) \/ (x.gen = t.gen /\ x.fin_read)
    <3>1. Len(e) \in Nat
      BY <1>0, SMTT(40)
    <3> QED
      BY <3>1, TakenFins
  <2> QED
    BY <1>0, <1>5, <2>1
<1>8. \A i \in Lane(e, id) : e[i].gen = t.gen /\ Amount(e[i], "credit") = 0
  <2> TAKE i \in Lane(e, id)
  <2>1. i + 1 \in Lane(d, id) /\ e[i] = d[i + 1] /\ 1 < i + 1
    BY TakenLane, SMTT(40)
  <2>2. Follows(d[1], e[i]) /\ (e[i].gen # s.gen => e[i].credit = 0)
    BY <1>0, <2>1 DEF Accept, Early
  <2>3. e[i].gen = x.gen
    BY <2>2 DEF Follows
  <2>4. e[i].credit = 0
    BY <1>0, <2>2, <2>3
  <2> QED
    BY <1>5, <2>3, <2>4 DEF Amount
<1>9. \A g : ~FinWrite(c, Len(c), id, g) /\ ~FinRead(c, Len(c), id, g)
  BY <1>6 DEF FinWrite, FinRead
<1>10. 0 \in Nat /\ CarriesAtMost(c, id, t.gen, "credit", 0)
       /\ CarriesAtMost(c, id, t.gen, "data", 0) /\ CarriesAtMost(e, id, t.gen, "credit", 0)
  <2>1. 0 \in Nat
    OBVIOUS
  <2>2. CarriesAtMost(c, id, t.gen, "credit", 0) /\ CarriesAtMost(c, id, t.gen, "data", 0)
    BY <1>6, <2>1, NoSums
  <2>3. CarriesAtMost(e, id, t.gen, "credit", 0)
    BY <1>0, <1>8, <2>1, NoSums
  <2> QED
    BY <2>1, <2>2, <2>3, SMTT(40)
<1>11. x.data <= t.unacked /\ CarriesAtMost(e, id, t.gen, "data", t.unacked - x.data)
  <2>1. Amount(x, "data") = x.data
    BY SMTT(40) DEF Amount
  <2>2. Of(d[1], id) /\ d[1].gen = t.gen
    BY <1>5, SMTT(40)
  <2> QED
    BY <1>6, <2>1, <2>2, TakenSums
<1>12. Same(e, c, t, r, id)
  <2>1. /\ t.unacked - x.data \in Nat
        /\ (t.unacked - x.data) + 0 + (r.unread + r.credit) <= t.unacked
    BY <1>0, <1>3, <1>11, SMTT(40)
  <2>2. \E m, k \in Nat : /\ CarriesAtMost(e, id, t.gen, "data", m)
                          /\ CarriesAtMost(c, id, t.gen, "credit", k)
                          /\ m + k + (r.unread + r.credit) <= t.unacked
    BY <1>10, <1>11, <2>1
  <2>3. /\ t.outFin.sent <=> FinWrite(e, Len(e), id, t.gen) \/ after_fin_write(r)
        /\ t.inFin.sent <=> FinRead(e, Len(e), id, t.gen) \/ r.outFin.received
    BY <1>3, <1>6, <1>7
  <2> QED
    BY <1>6, <1>8, <2>2, <2>3 DEF Same
<1>13. Same(c, e, r, t, id)
  <2>1. 0 + 0 + (t.unread + t.credit) <= r.unacked
    <3>1. t.unread = 0 /\ t.credit = 0
      BY <1>6, ZenonT(40)
    <3>2. r.unacked \in Nat
      BY <1>0, ZenonT(40)
    <3> QED
      BY <3>1, <3>2, SMTT(40)
  <2>2. r.gen = t.gen
    BY <1>3, <1>5, SMTT(40)
  <2>3. \E m, k \in Nat : /\ CarriesAtMost(c, id, r.gen, "data", m)
                          /\ CarriesAtMost(e, id, r.gen, "credit", k)
                          /\ m + k + (t.unread + t.credit) <= r.unacked
    BY <1>10, <2>1, <2>2
  <2> QED
    BY <1>3, <1>6, <1>9, <2>3 DEF Same
<1> QED
  BY <1>3, <1>5, <1>12, <1>13 DEF Ledger

-----------------------------------------------------------------------------
(* The stream limit.  `ts' are the streams at the peer that reads `c', and *)
(* `p' is the peer that writes it.                                         *)

\* The streams that `p' started and that are alive after the first n frames.
OpenAt(c, n, ts, p) ==
  {id \in Ids :
     /\ initiated_by(id) = p
     /\ \/ ts[id].held /\ ~Finishing(c, n, id, ts[id])
        \/ \E j \in Lane(c, id) : j <= n /\ c[j].syn}

\* A frame that starts a stream finds room for it.
Limit(c, ts, p) ==
  \A i \in 1 .. Len(c) :
    c[i] \in StreamFrame /\ c[i].syn => Cardinality(OpenAt(c, i, ts, p)) <= MaxStreams

\* What is needed of the number of IDs: it grows with the set, by one for
\* every ID.
CountsIds ==
  /\ \A A \in SUBSET Ids : Cardinality(A) \in Nat
  /\ \A B \in SUBSET Ids : \A A \in SUBSET B :
       Cardinality(B) <= MaxStreams => Cardinality(A) <= MaxStreams
  /\ \A A \in SUBSET Ids : \A x \in Ids :
       x \notin A => (Cardinality(A \cup {x}) <= MaxStreams <=> Cardinality(A) < MaxStreams)

\* Fewer IDs are no more than the limit allows.
LEMMA FewerIds ==
  ASSUME CountsIds, NEW A, NEW B, A \subseteq B, B \subseteq Ids
  PROVE  /\ Cardinality(B) <= MaxStreams => Cardinality(A) <= MaxStreams
         /\ Cardinality(A) \in Nat
BY DEF CountsIds

\* Streams that only finish keep the stream limit of the frames on their way.
LEMMA LimitOwn ==
  ASSUME CountsIds, NEW c, NEW ts, NEW rs, NEW p, Limit(c, ts, p),
         \A id \in Ids : initiated_by(id) = p =>
           \A n : rs[id].held /\ ~Finishing(c, n, id, rs[id]) =>
                    ts[id].held /\ ~Finishing(c, n, id, ts[id])
  PROVE  Limit(c, rs, p)
<1> SUFFICES ASSUME NEW i \in 1 .. Len(c), c[i] \in StreamFrame /\ c[i].syn
             PROVE  Cardinality(OpenAt(c, i, rs, p)) <= MaxStreams
  BY DEF Limit
<1>1. OpenAt(c, i, rs, p) \subseteq OpenAt(c, i, ts, p) /\ OpenAt(c, i, ts, p) \subseteq Ids
  BY DEF OpenAt
<1>2. Cardinality(OpenAt(c, i, ts, p)) <= MaxStreams
  BY DEF Limit
<1> QED
  BY <1>1, <1>2, FewerIds

\* The stream limit holds for one more frame if the streams open then are not
\* too many.
LEMMA LimitGrown ==
  ASSUME CountsIds, NEW c, NEW e, NEW x, Grown(c, e, x), NEW ts, NEW p, Limit(c, ts, p),
         x \in StreamFrame /\ x.syn => Cardinality(OpenAt(e, Len(e), ts, p)) <= MaxStreams
  PROVE  Limit(e, ts, p)
<1> SUFFICES ASSUME NEW i \in 1 .. Len(e), e[i] \in StreamFrame /\ e[i].syn
             PROVE  Cardinality(OpenAt(e, i, ts, p)) <= MaxStreams
  BY DEF Limit
<1>1. CASE i = Len(e)
  BY <1>1, SMTT(40) DEF Grown
<1>2. CASE i # Len(e)
  <2>1. i \in 1 .. Len(c) /\ e[i] = c[i] /\ i \in Nat /\ i <= Len(c)
    BY <1>2, SMTT(40) DEF Grown
  <2> USE <2>1
  <2>2. ASSUME NEW id \in Ids
        PROVE  /\ \A j \in Lane(e, id) : j <= i => j \in Lane(c, id) /\ e[j] = c[j]
               /\ Finishing(e, i, id, ts[id]) <=> Finishing(c, i, id, ts[id])
    <3>1. Finishing(e, i, id, ts[id]) <=> Finishing(c, i, id, ts[id])
      BY FinishingGrown
    <3>2. ASSUME NEW j \in Lane(e, id), j <= i
          PROVE  j \in Lane(c, id) /\ e[j] = c[j]
      BY <3>2, GrownLane, SMTT(40)
    <3> QED
      BY <3>1, <3>2, SMTT(40)
  <2>3. OpenAt(e, i, ts, p) \subseteq OpenAt(c, i, ts, p) /\ OpenAt(c, i, ts, p) \subseteq Ids
    BY <2>2 DEF OpenAt
  <2>4. Cardinality(OpenAt(c, i, ts, p)) <= MaxStreams
    BY DEF Limit
  <2> QED
    BY <2>3, <2>4, FewerIds
<1> QED
  BY <1>1, <1>2, SMTT(40)

\* The stream limit holds for what is left of a channel.
LEMMA LimitCut ==
  ASSUME CountsIds, NEW c, NEW e, Cut(c, e), NEW ts, NEW p, Limit(c, ts, p)
  PROVE  Limit(e, ts, p)
<1> SUFFICES ASSUME NEW i \in 1 .. Len(e), e[i] \in StreamFrame /\ e[i].syn
             PROVE  Cardinality(OpenAt(e, i, ts, p)) <= MaxStreams
  BY DEF Limit
<1>1. i \in 1 .. Len(c) /\ e[i] = c[i] /\ i \in Nat /\ i <= Len(e)
  BY SMTT(40) DEF Cut
<1> USE <1>1
<1>2. ASSUME NEW id \in Ids
      PROVE  /\ \A j \in Lane(e, id) : j \in Lane(c, id) /\ e[j] = c[j]
             /\ Finishing(e, i, id, ts[id]) <=> Finishing(c, i, id, ts[id])
  <2>1. Finishing(e, i, id, ts[id]) <=> Finishing(c, i, id, ts[id])
    BY CutFins DEF Finishing
  <2>2. \A j \in Lane(e, id) : j \in Lane(c, id) /\ e[j] = c[j]
    BY CutLane, SMTT(40)
  <2> QED
    BY <2>1, <2>2, SMTT(40)
<1>3. OpenAt(e, i, ts, p) \subseteq OpenAt(c, i, ts, p) /\ OpenAt(c, i, ts, p) \subseteq Ids
  BY <1>2 DEF OpenAt
<1>4. Cardinality(OpenAt(c, i, ts, p)) <= MaxStreams
  BY DEF Limit
<1> QED
  BY <1>3, <1>4, FewerIds

\* The stream limit holds behind a frame that is taken, if only that frame
\* opens a stream.
LEMMA LimitTaken ==
  ASSUME CountsIds, NEW c, NEW e, Taken(c, e), NEW ts, NEW rs, NEW p, Limit(c, ts, p),
         \A id \in Ids : initiated_by(id) = p =>
           \A n \in Nat : rs[id].held /\ ~Finishing(e, n, id, rs[id]) =>
                            \/ ts[id].held /\ ~Finishing(c, n + 1, id, ts[id])
                            \/ Of(c[1], id) /\ c[1].syn
  PROVE  Limit(e, rs, p)
<1> SUFFICES ASSUME NEW i \in 1 .. Len(e), e[i] \in StreamFrame /\ e[i].syn
             PROVE  Cardinality(OpenAt(e, i, rs, p)) <= MaxStreams
  BY DEF Limit
<1>1. i + 1 \in 1 .. Len(c) /\ e[i] = c[i + 1] /\ i \in Nat /\ 1 <= i + 1
  BY SMTT(40) DEF Taken
<1> USE <1>1
<1>2. ASSUME NEW id \in Ids
      PROVE  /\ \A j \in Lane(e, id) : j <= i =>
                  \E k \in Lane(c, id) : k <= i + 1 /\ c[k] = e[j]
             /\ Of(c[1], id) => 1 \in Lane(c, id)
  BY TakenLane, SMTT(40)
<1> USE <1>2
<1>3. OpenAt(e, i, rs, p) \subseteq OpenAt(c, i + 1, ts, p)
  <2> SUFFICES ASSUME NEW id \in Ids, initiated_by(id) = p,
                      \/ rs[id].held /\ ~Finishing(e, i, id, rs[id])
                      \/ \E j \in Lane(e, id) : j <= i /\ e[j].syn
               PROVE  \/ ts[id].held /\ ~Finishing(c, i + 1, id, ts[id])
                      \/ \E j \in Lane(c, id) : j <= i + 1 /\ c[j].syn
    BY DEF OpenAt
  <2>1. CASE rs[id].held /\ ~Finishing(e, i, id, rs[id])
    BY <2>1
  <2>2. ASSUME NEW j \in Lane(e, id), j <= i, e[j].syn
        PROVE  \E k \in Lane(c, id) : k <= i + 1 /\ c[k].syn
    <3> USE <2>2
    <3>1. PICK k \in Lane(c, id) : k <= i + 1 /\ c[k] = e[j]
      OBVIOUS
    <3> QED
      BY <3>1
  <2> QED
    BY <2>1, <2>2
<1>4. OpenAt(c, i + 1, ts, p) \subseteq Ids
  BY DEF OpenAt
<1>5. Cardinality(OpenAt(c, i + 1, ts, p)) <= MaxStreams
  BY DEF Limit
<1> QED
  BY <1>3, <1>4, <1>5, FewerIds

\* The streams that `p' started and that the other peer holds.
StartedBy(p, ts) == {id \in Ids : ts[id].held /\ initiated_by(id) = p}

\* The first frame starts a stream: the peer holds fewer than it accepts.
LEMMA FirstFits ==
  ASSUME CountsIds, NEW c, NEW e, Taken(c, e), NEW ts, NEW p, Limit(c, ts, p),
         c[1] \in StreamFrame, c[1].syn, initiated_by(c[1].id) = p, ~ts[c[1].id].held,
         \A id \in Ids : ts[id].held => ~is_dead(ts[id])
  PROVE  Cardinality(StartedBy(p, ts)) < MaxStreams
<1> DEFINE H == {id \in Ids : ts[id].held /\ initiated_by(id) = p}
           x == c[1].id
<1>0. x \in Ids /\ x \notin H /\ Of(c[1], x) /\ 1 \in 1 .. Len(c)
  <2>1. 1 \in 1 .. Len(c)
    BY SMTT(40) DEF Taken
  <2> QED
    BY <2>1, FrameTypes DEF Of
<1> USE <1>0
<1>1. \A id \in Ids : \A j \in Lane(c, id) : j <= 1 => j = 1 /\ id = x
  BY TakenLane, SMTT(40) DEF Of
<1>2. \A id \in H : id # x /\ id \in OpenAt(c, 1, ts, p)
  <2> TAKE id \in H
  <2>1. id \in Ids /\ id # x /\ ts[id].held /\ initiated_by(id) = p /\ ~is_dead(ts[id])
    OBVIOUS
  <2> USE <2>1
  <2>2. \A j \in Lane(c, id) : ~(j <= 1)
    BY <1>1
  <2>3. ~Finishing(c, 1, id, ts[id])
    BY <2>2 DEF Finishing, FinWrite, FinRead, is_dead
  <2> QED
    BY <2>3 DEF OpenAt
<1>3. x \in OpenAt(c, 1, ts, p)
  <2>1. 1 \in Lane(c, x) /\ 1 <= 1
    BY TakenLane, SMTT(40)
  <2> QED
    BY <2>1 DEF OpenAt
<1>4. (H \cup {x}) \subseteq OpenAt(c, 1, ts, p) /\ OpenAt(c, 1, ts, p) \subseteq Ids
  BY <1>2, <1>3 DEF OpenAt
<1>5. Cardinality(OpenAt(c, 1, ts, p)) <= MaxStreams
  BY DEF Limit
<1> HIDE DEF H
<1>6. Cardinality(H \cup {x}) <= MaxStreams
  BY <1>4, <1>5, FewerIds
<1>7. H \in SUBSET Ids
  BY DEF H
<1>8. Cardinality(H) < MaxStreams
  BY <1>6, <1>7 DEF CountsIds
<1> QED
  BY <1>8, SMTT(40) DEF H, StartedBy

\* A frame that starts a stream is sent: the other peer will not hold more
\* streams than the sender does.
LEMMA SendWithinLimit ==
  ASSUME CountsIds, NEW c, NEW d, NEW e, NEW x, Grown(c, e, x), NEW ss, NEW ts, NEW p,
         x \in StreamFrame, ss[x.id].held,
         \A id \in Ids : /\ StreamInv(ss[id]) /\ StreamInv(ts[id])
                         /\ ss[id].held <=> ~is_dead(ss[id])
                         /\ Accept(c, ts[id], id, initiated_by(id) = p)
                         /\ Ledger(c, d, ss[id], ts[id], id, initiated_by(id) = p),
         Cardinality({id \in Ids : ss[id].held /\ initiated_by(id) = p}) <= MaxStreams
  PROVE  Cardinality(OpenAt(e, Len(e), ts, p)) <= MaxStreams
<1> DEFINE H == {id \in Ids : ss[id].held /\ initiated_by(id) = p}
<1>1. ASSUME NEW id \in Ids, initiated_by(id) = p, ~ss[id].held
      PROVE  /\ \A j \in Lane(e, id) : ~e[j].syn
             /\ Finishing(e, Len(e), id, ts[id])
  <2> USE <1>1
  <2>1. /\ ss[id].gen = ts[id].gen
        /\ Same(c, d, ss[id], ts[id], id) /\ Same(d, c, ts[id], ss[id], id)
    BY DEF Ledger, Fresh
  <2> USE <2>1
  <2>2. Finishing(c, Len(c), id, ts[id])
    BY DeadMeansFinishing
  <2>3. ASSUME NEW j \in Lane(e, id)
        PROVE  ~e[j].syn
    <3>1. ~Of(x, id)
      BY DEF Of
    <3>2. j \in Lane(c, id) /\ e[j] = c[j]
      BY <3>1, GrownLane, SMTT(40)
    <3> USE <3>2
    <3>3. c[j].gen = ts[id].gen
      BY DEF Same
    <3>4. Welcome(c[j], ts[id])
      BY <3>3 DEF Accept
    <3> QED
      BY <3>4 DEF Welcome
  <2> QED
    BY <2>2, <2>3, FinishingGrown
<1>2. OpenAt(e, Len(e), ts, p) \subseteq H
  BY <1>1 DEF OpenAt
<1>3. H \subseteq Ids
  OBVIOUS
<1> HIDE DEF H
<1>4. Cardinality(H) <= MaxStreams
  BY SMTT(40) DEF H
<1> QED
  BY <1>2, <1>3, <1>4, FewerIds

\* A new stream has nothing on its way to it: what the last one with its ID
\* was sent, it received.
LEMMA NothingForDead ==
  ASSUME NEW c, Len(c) \in Nat, NEW id, NEW s, StreamInv(s), ~s.held, Accept(c, s, id, FALSE)
  PROVE  /\ Lane(c, id) = {}
         /\ \A r : StreamInv(r) => Accept(c, r, id, FALSE)
<1>1. Lane(c, id) = {}
  <2>1. ASSUME NEW i \in Lane(c, id)
        PROVE  FALSE
    BY <2>1 DEF Accept, Welcome, Early
  <2> QED
    BY <2>1
<1> USE <1>1
<1>2. ASSUME NEW r, StreamInv(r)
      PROVE  Accept(c, r, id, FALSE)
  <2>1. r.unacked \in Nat
    BY <1>2, StreamFacts
  <2>2. CarriesAtMost(c, id, r.gen, "credit", r.unacked)
    BY <2>1, NoSums
  <2> QED
    BY <2>2 DEF Accept
<1> QED
  BY <1>2

-----------------------------------------------------------------------------
(* The invariant of the two peers.                                         *)

\* All that is on its way to `p' is in order.
Ready(p) ==
  /\ Limit(Chan(Other(p)), streams[p], Other(p))
  /\ \A id \in Ids : Accept(Chan(Other(p)), streams[p][id], id, initiated_by(id) = Other(p))

\* The peers agree on every ID: `c' leads from `p', which has the streams
\* `ss', to the other peer, which has `ts', and `d' back.
AgreeOn(c, d, ss, ts, p) ==
  \A id \in Ids : Ledger(c, d, ss[id], ts[id], id, initiated_by(id) = p)

Agree(p) == AgreeOn(Chan(p), Chan(Other(p)), streams[p], streams[Other(p)], p)

Peer(p) == conn[p] = "active" => Ready(p) /\ Cardinality(Held(p, p)) <= MaxStreams

Pair(p) == conn[p] = "active" /\ conn[Other(p)] = "active" => Agree(p)

FrameInv == \A p \in Peers : Peer(p) /\ Pair(p)

Inv == TypeInv /\ LocalInv /\ TermInv /\ FrameInv

\* It is the same for both of them.
LEMMA AgreeBoth ==
  ASSUME NEW p \in Peers, NEW c, NEW d, NEW ss, NEW ts, AgreeOn(c, d, ss, ts, p)
  PROVE  AgreeOn(d, c, ts, ss, Other(p))
<1>0. \A id : (initiated_by(id) = Other(p)) = (~(initiated_by(id) = p))
  BY TwoPeers
<1>1. ASSUME NEW id \in Ids
      PROVE  Ledger(d, c, ts[id], ss[id], id, initiated_by(id) = Other(p))
  <2>1. (initiated_by(id) = p) \in BOOLEAN
    OBVIOUS
  <2>2. (initiated_by(id) = Other(p)) = (~(initiated_by(id) = p))
    BY <1>0, SMTT(40)
  <2>3. Ledger(c, d, ss[id], ts[id], id, initiated_by(id) = p)
    BY DEF AgreeOn
  <2> QED
    BY <2>1, <2>2, <2>3, LedgerSymmetric
<1> QED
  BY <1>1 DEF AgreeOn

\* What a step of `p' finds.
LEMMA Found ==
  ASSUME Inv, NEW p \in Peers
  PROVE  /\ Other(p) \in Peers /\ Other(p) # p /\ Other(Other(p)) = p
         /\ \A id \in Ids : StreamInv(streams[p][id]) /\ StreamInv(streams[Other(p)][id])
         /\ conn[p] = "active" =>
              \A id \in Ids : streams[p][id].held <=> ~is_dead(streams[p][id])
         /\ conn[Other(p)] = "active" =>
              \A id \in Ids : streams[Other(p)][id].held <=> ~is_dead(streams[Other(p)][id])
         /\ Peer(p) /\ Peer(Other(p)) /\ Pair(p)
         /\ Len(Chan(p)) \in Nat /\ Len(Chan(Other(p))) \in Nat
         /\ Cut(Chan(p), Chan(p)) /\ Cut(Chan(Other(p)), Chan(Other(p)))
<1>1. Other(p) \in Peers /\ Other(p) # p /\ Other(Other(p)) = p
  BY TwoPeers
<1> USE <1>1
<1>2. /\ \A id \in Ids : StreamInv(streams[p][id]) /\ StreamInv(streams[Other(p)][id])
      /\ conn[p] = "active" =>
           \A id \in Ids : streams[p][id].held <=> ~is_dead(streams[p][id])
      /\ conn[Other(p)] = "active" =>
           \A id \in Ids : streams[Other(p)][id].held <=> ~is_dead(streams[Other(p)][id])
  BY DEF Inv, LocalInv
<1>3. Peer(p) /\ Peer(Other(p)) /\ Pair(p)
  BY DEF Inv, FrameInv
<1>4. \A q \in Peers : wire[q] \in Seq(Packet) /\ pending[q] \in Seq(Packet)
  BY DEF Inv, TypeInv
<1>5. \A q \in Peers : Cut(Chan(q), Chan(q)) /\ Len(Chan(q)) \in Nat
  BY <1>4, ChanSame DEF Chan
<1> QED
  BY <1>2, <1>3, <1>5

\* A step of a stream of `p' that is not a step of its peer keeps what is on
\* its way to `p' in order.
LEMMA OwnKeepsReady ==
  ASSUME CountsIds, Inv, NEW p \in Peers, NEW id \in Ids, conn[p] = "active",
         OnlyStream(p, id), StreamInv(streams'[p][id]),
         OwnStep(streams[p][id], streams'[p][id]),
         Chan(Other(p))' = Chan(Other(p))
  PROVE  Ready(p)'
<1> DEFINE c == Chan(Other(p))
           own(j) == initiated_by(j) = Other(p)
<1>1. /\ Ready(p) /\ Len(c) \in Nat
      /\ \A j \in Ids : StreamInv(streams[p][j])
  BY Found DEF Peer
<1>2. ASSUME NEW j \in Ids
      PROVE  /\ \A n : Finishing(c, n, j, streams[p][j]) => Finishing(c, n, j, streams'[p][j])
             /\ streams'[p][j].held => streams[p][j].held
             /\ Accept(c, streams'[p][j], j, own(j))
  <2>0. Accept(c, streams[p][j], j, own(j))
    BY <1>1 DEF Ready
  <2>1. CASE j = id
    <3>1. StreamInv(streams[p][id])
      BY <1>1, SMTT(40)
    <3>2. /\ \A n : Finishing(c, n, id, streams[p][id]) => Finishing(c, n, id, streams'[p][id])
          /\ Accept(c, streams[p][id], id, own(id)) => Accept(c, streams'[p][id], id, own(id))
      BY <1>1, <3>1, AcceptOwn
    <3>3. streams'[p][id].held => streams[p][id].held
      BY DEF OwnStep
    <3> QED
      BY <2>0, <2>1, <3>2, <3>3
  <2>2. CASE j # id
    <3>1. streams'[p][j] = streams[p][j]
      BY <2>2 DEF OnlyStream
    <3> QED
      BY <2>0, <3>1
  <2> QED
    BY <2>1, <2>2
<1>3. Limit(c, streams[p], Other(p))
  BY <1>1 DEF Ready
<1> HIDE DEF c
<1>4. \A j \in Ids : initiated_by(j) = Other(p) =>
        \A n : streams'[p][j].held /\ ~Finishing(c, n, j, streams'[p][j]) =>
                 streams[p][j].held /\ ~Finishing(c, n, j, streams[p][j])
  BY <1>2
<1>5. Limit(c, streams'[p], Other(p))
  BY <1>3, <1>4, LimitOwn
<1>6. \A j \in Ids : Accept(c, streams'[p][j], j, own(j))
  BY <1>2
<1>7. /\ Limit(Chan(Other(p))', streams'[p], Other(p))
      /\ \A j \in Ids : Accept(Chan(Other(p))', streams'[p][j], j, initiated_by(j) = Other(p))
  BY <1>5, <1>6 DEF c
<1> QED
  BY <1>7, SMTT(40) DEF Ready

\* What the sender's peer has on its way to it, if it is active.
LEMMA SendReaches ==
  ASSUME CountsIds, Inv, NEW p \in Peers, NEW id \in Ids, NEW x \in StreamFrame, Of(x, id),
         Sends(p, id, x), Grown(Chan(p), Chan(p)', x), conn[p] = "active",
         conn[Other(p)] = "active"
  PROVE  /\ Limit(Chan(p)', streams[Other(p)], p)
         /\ \A j \in Ids : Accept(Chan(p)', streams[Other(p)][j], j, initiated_by(j) = p)
         /\ \A j \in Ids : Ledger(Chan(p)', Chan(Other(p)), streams'[p][j], streams[Other(p)][j],
                                  j, initiated_by(j) = p)
<1> DEFINE c == Chan(p)
           e == Chan(p)'
           d == Chan(Other(p))
           ss == streams[p]
           ts == streams[Other(p)]
           own(j) == initiated_by(j) = p
<1>1. /\ Other(Other(p)) = p /\ Peer(p) /\ Peer(Other(p)) /\ Pair(p)
      /\ \A j \in Ids : StreamInv(ss[j]) /\ StreamInv(ts[j])
      /\ \A j \in Ids : ss[j].held <=> ~is_dead(ss[j])
      /\ \A j \in Ids : ts[j].held <=> ~is_dead(ts[j])
      /\ Len(c) \in Nat /\ Len(d) \in Nat
  BY Found
<1>2. Limit(c, ts, p) /\ \A j \in Ids : Accept(c, ts[j], j, own(j))
  BY <1>1 DEF Peer, Ready
<1>3. \A j \in Ids : Ledger(c, d, ss[j], ts[j], j, own(j))
  BY <1>1 DEF Pair, Agree, AgreeOn
<1>4. /\ ss[id].held /\ x.id = id /\ x.gen = ss[id].gen /\ Speaks(x)
      /\ SendStep(ss[id], streams'[p][id], x) /\ StreamInv(streams'[p][id])
      /\ streams'[p][id].held <=> ~is_dead(streams'[p][id])
      /\ OnlyStream(p, id)
  BY DEF Sends
<1>5. Grown(c, e, x)
  OBVIOUS
<1>6. Cardinality({j \in Ids : ss[j].held /\ initiated_by(j) = p}) <= MaxStreams
  BY <1>1 DEF Peer, Held
<1> HIDE DEF c, e, d, ts
<1>7. Cardinality(OpenAt(e, Len(e), ts, p)) <= MaxStreams
  <2>1. ss[x.id].held
    BY <1>4
  <2> HIDE DEF ss
  <2> QED
    BY <1>1, <1>2, <1>3, <1>5, <1>6, <2>1, SendWithinLimit
<1>8. Limit(e, ts, p)
  BY <1>2, <1>5, <1>7, LimitGrown
<1>9. Fits(c, x, ts[id], id, own(id))
  <2>1. /\ StreamInv(ss[id]) /\ StreamInv(ts[id]) /\ (ts[id].held <=> ~is_dead(ts[id]))
        /\ Accept(c, ts[id], id, own(id)) /\ Ledger(c, d, ss[id], ts[id], id, own(id))
    BY <1>1, <1>2, <1>3
  <2> HIDE DEF ss, own
  <2> QED
    BY <1>1, <1>4, <2>1, SendFits
<1>10. ASSUME NEW j \in Ids
       PROVE  Accept(e, ts[j], j, own(j))
  <2>1. Of(x, j) => j = id
    BY <1>4 DEF Of
  <2>2. Of(x, j) => Fits(c, x, ts[j], j, own(j))
    BY <1>9, <2>1
  <2>3. StreamInv(ts[j]) /\ Accept(c, ts[j], j, own(j))
    BY <1>1, <1>2
  <2> QED
    BY <1>5, <2>2, <2>3, AcceptGrown
<1>11. ASSUME NEW j \in Ids
       PROVE  Ledger(e, d, streams'[p][j], ts[j], j, own(j))
  <2>1. /\ StreamInv(ss[j]) /\ StreamInv(ts[j]) /\ (ts[j].held <=> ~is_dead(ts[j]))
        /\ Accept(c, ts[j], j, own(j)) /\ Ledger(c, d, ss[j], ts[j], j, own(j))
    BY <1>1, <1>2, <1>3
  <2>2. CASE j = id
    <3>1. /\ Of(x, j) /\ x.gen = ss[j].gen /\ SendStep(ss[j], streams'[p][j], x)
          /\ StreamInv(streams'[p][j]) /\ (streams'[p][j].held <=> ~is_dead(streams'[p][j]))
      BY <1>4, <2>2
    <3> HIDE DEF ss, own
    <3> QED
      BY <1>1, <1>4, <1>5, <2>1, <3>1, LedgerSend
  <2>3. CASE j # id
    <3>1. streams'[p][j] = ss[j] /\ ~Of(x, j)
      BY <1>4, <2>3 DEF OnlyStream, Of
    <3> HIDE DEF ss, own
    <3> QED
      BY <1>5, <2>1, <3>1, LedgerGrownOther
  <2> QED
    BY <2>2, <2>3, SMTT(40)
<1> QED
  BY <1>8, <1>10, <1>11 DEF e, d, ts

\* None of the violations that Streams::receive looks for is found.
LEMMA NothingWrong ==
  ASSUME CountsIds, Inv, NEW p \in Peers, conn[p] = "active", NEW x \in StreamFrame,
         x = Chan(Other(p))[1], NEW e, Taken(Chan(Other(p)), e)
  PROVE  /\ receive_error(p, x) = "none"
         /\ ~x.syn => streams[p][x.id].held /\ streams[p][x.id].gen = x.gen
         /\ x.syn => ~streams[p][x.id].held /\ initiated_by(x.id) = Other(p)
<1> DEFINE c == Chan(Other(p))
           id == x.id
           s == streams[p][id]
           own == initiated_by(id) = Other(p)
<1>1. id \in Ids /\ Of(c[1], id)
  BY FrameTypes DEF Of
<1>2. /\ StreamInv(s) /\ (s.held <=> ~is_dead(s)) /\ Ready(p)
      /\ \A j \in Ids : streams[p][j].held => ~is_dead(streams[p][j])
      /\ Other(p) \in Peers /\ Other(p) # p
  BY <1>1, Found DEF Peer
<1>3. Accept(c, s, id, own) /\ Limit(c, streams[p], Other(p)) /\ Taken(c, e)
  BY <1>1, <1>2 DEF Ready
<1>4. x = c[1]
  OBVIOUS
<1>5. /\ x.syn => own /\ ~s.held
      /\ ~x.syn => s.held /\ x.gen = s.gen
      /\ received_error(IF x.syn THEN new(FALSE, x.gen) ELSE s, x) = "none"
  <2> HIDE DEF c, s, id, own
  <2>1. /\ c[1].syn => own /\ ~s.held
        /\ ~c[1].syn => s.held /\ c[1].gen = s.gen
        /\ received_error(IF c[1].syn THEN new(FALSE, c[1].gen) ELSE s, c[1]) = "none"
    BY <1>1, <1>2, <1>3, FirstFrame
  <2> QED
    BY <1>4, <2>1
<1>6. ~(x.syn /\ Cardinality(Held(p, Other(p))) >= MaxStreams)
  <2> SUFFICES ASSUME x.syn
               PROVE  ~(Cardinality(Held(p, Other(p))) >= MaxStreams)
    OBVIOUS
  <2>0. initiated_by(x.id) = Other(p) /\ ~streams[p][x.id].held
    BY <1>5
  <2>1. /\ c[1] \in StreamFrame /\ c[1].syn /\ initiated_by(c[1].id) = Other(p)
        /\ ~streams[p][c[1].id].held
    <3> HIDE DEF c
    <3> QED
      BY <1>4, <2>0
  <2> DEFINE H == StartedBy(Other(p), streams[p])
  <2> HIDE DEF c
  <2>2. Cardinality(H) < MaxStreams
    BY <1>2, <1>3, <2>1, FirstFits
  <2>3. H = Held(p, Other(p)) /\ H \subseteq Ids
    BY DEF Held, StartedBy
  <2> HIDE DEF H
  <2>4. Cardinality(H) \in Nat
    BY <2>3, FewerIds
  <2>5. ~(Cardinality(H) >= MaxStreams)
    BY <2>2, <2>4, ConnectionAssumption, SMTT(40)
  <2> QED
    BY <2>3, <2>5
<1>7. ~(initiated_by(id) = p /\ x.syn) /\ ~(~s.held /\ ~x.syn) /\ ~(s.held /\ x.syn)
  BY <1>2, <1>5
<1>8. receive_error(p, x) = received_error(IF x.syn THEN new(FALSE, x.gen) ELSE s, x)
  BY <1>6, <1>7 DEF receive_error
<1> QED
  BY <1>5, <1>8

\* A peer takes the first frame: what is then on its way to it is in order.
LEMMA TakeKeepsReady ==
  ASSUME CountsIds, Inv, NEW p \in Peers, conn[p] = "active", NEW id \in Ids, NEW x \in StreamFrame,
         Takes(p, id, x), x = Chan(Other(p))[1], Taken(Chan(Other(p)), Chan(Other(p))')
  PROVE  Ready(p)'
<1> DEFINE c == Chan(Other(p))
           e == Chan(Other(p))'
           own(j) == initiated_by(j) = Other(p)
<1>1. /\ \A j \in Ids : StreamInv(streams[p][j])
      /\ \A j \in Ids : streams[p][j].held <=> ~is_dead(streams[p][j])
      /\ Ready(p)
  BY Found DEF Peer
<1>2. /\ Of(c[1], id) /\ Taken(c, e) /\ OnlyStream(p, id)
      /\ TakeStep(IF c[1].syn THEN new(FALSE, c[1].gen) ELSE streams[p][id],
                  streams'[p][id], c[1])
      /\ StreamInv(streams'[p][id])
      /\ streams'[p][id].held <=> ~is_dead(streams'[p][id])
  BY DEF Takes, Of
<1>3. Limit(c, streams[p], Other(p)) /\ \A j \in Ids : Accept(c, streams[p][j], j, own(j))
  BY <1>1 DEF Ready
<1>4. ~c[1].syn => streams[p][id].held
  <2>1. x.id = id
    BY DEF Takes
  <2> QED
    BY <2>1, NothingWrong
<1> HIDE DEF c, e
<1>5. ASSUME NEW j \in Ids
      PROVE  /\ \A n \in Nat : streams'[p][j].held /\ ~Finishing(e, n, j, streams'[p][j]) =>
                  \/ streams[p][j].held /\ ~Finishing(c, n + 1, j, streams[p][j])
                  \/ Of(c[1], j) /\ c[1].syn
             /\ Accept(e, streams'[p][j], j, own(j))
  <2>1. Accept(c, streams[p][j], j, own(j)) /\ StreamInv(streams[p][j])
        /\ (streams[p][j].held <=> ~is_dead(streams[p][j]))
    BY <1>1, <1>3
  <2>2. CASE j # id
    <3>1. streams'[p][j] = streams[p][j] /\ ~Of(c[1], j)
      BY <1>2, <2>2 DEF OnlyStream, Of
    <3>2. /\ \A n \in Nat : Finishing(e, n, j, streams[p][j]) <=> Finishing(c, n + 1, j, streams[p][j])
          /\ Accept(e, streams[p][j], j, own(j))
      BY <1>2, <2>1, <3>1, AcceptTakenOther
    <3> QED
      BY <3>1, <3>2
  <2>3. CASE j = id /\ c[1].syn
    <3>1. /\ TakeStep(new(FALSE, c[1].gen), streams'[p][j], c[1]) /\ Of(c[1], j)
          /\ StreamInv(streams'[p][j]) /\ (streams'[p][j].held <=> ~is_dead(streams'[p][j]))
      BY <1>2, <2>3
    <3>2. Accept(e, streams'[p][j], j, own(j))
      BY <1>2, <2>1, <2>3, <3>1, AcceptStarted
    <3> QED
      BY <2>3, <3>1, <3>2
  <2>4. CASE j = id /\ ~c[1].syn
    <3>1. /\ TakeStep(streams[p][j], streams'[p][j], c[1]) /\ Of(c[1], j) /\ streams[p][j].held
          /\ StreamInv(streams'[p][j]) /\ (streams'[p][j].held <=> ~is_dead(streams'[p][j]))
      BY <1>2, <1>4, <2>4
    <3>2. /\ \A n \in Nat :
               Finishing(c, n + 1, j, streams[p][j]) => Finishing(e, n, j, streams'[p][j])
          /\ Accept(e, streams'[p][j], j, own(j))
      BY <1>2, <2>1, <2>4, <3>1, AcceptTaken
    <3> QED
      BY <3>1, <3>2
  <2> QED
    BY <2>2, <2>3, <2>4
<1>6. Limit(e, streams'[p], Other(p))
  BY <1>2, <1>3, <1>5, LimitTaken
<1>7. /\ Limit(Chan(Other(p))', streams'[p], Other(p))
      /\ \A j \in Ids : Accept(Chan(Other(p))', streams'[p][j], j, initiated_by(j) = Other(p))
  BY <1>5, <1>6 DEF e
<1> QED
  BY <1>7, SMTT(40) DEF Ready

\* The two peers still agree.
LEMMA TakeKeepsAgree ==
  ASSUME Inv, NEW p \in Peers, conn[p] = "active", conn[Other(p)] = "active",
         NEW id \in Ids, NEW x \in StreamFrame,
         Takes(p, id, x), x = Chan(Other(p))[1], Taken(Chan(Other(p)), Chan(Other(p))')
  PROVE  \A j \in Ids : Ledger(Chan(p), Chan(Other(p))', streams'[p][j], streams[Other(p)][j],
                               j, initiated_by(j) = p)
<1> DEFINE c == Chan(p)
           d == Chan(Other(p))
           e == Chan(Other(p))'
           ts == streams[Other(p)]
           own(j) == initiated_by(j) = p
<1>1. /\ \A j \in Ids : StreamInv(streams[p][j]) /\ StreamInv(ts[j])
      /\ \A j \in Ids : streams[p][j].held <=> ~is_dead(streams[p][j])
      /\ Ready(p) /\ Agree(p) /\ Len(c) \in Nat
  BY Found DEF Peer, Pair
<1> USE <1>1
<1>2. /\ Of(d[1], id) /\ Taken(d, e) /\ OnlyStream(p, id)
      /\ TakeStep(IF d[1].syn THEN new(FALSE, d[1].gen) ELSE streams[p][id],
                  streams'[p][id], d[1])
      /\ StreamInv(streams'[p][id])
      /\ streams'[p][id].held <=> ~is_dead(streams'[p][id])
  BY DEF Takes, Of
<1> USE <1>2
<1>3. \A j \in Ids : Ledger(c, d, streams[p][j], ts[j], j, own(j))
  BY DEF Agree, AgreeOn
<1>4. \A j \in Ids : Accept(d, streams[p][j], j, ~own(j))
  <2>1. \A j : (initiated_by(j) = Other(p)) = (~(initiated_by(j) = p))
    BY TwoPeers
  <2>2. \A j \in Ids : Accept(d, streams[p][j], j, initiated_by(j) = Other(p))
    BY DEF Ready
  <2> QED
    BY <2>1, <2>2
<1> HIDE DEF c, d, e, ts
<1>5. ASSUME NEW j \in Ids
      PROVE  Ledger(c, e, streams'[p][j], ts[j], j, own(j))
  <2>1. /\ Ledger(c, d, streams[p][j], ts[j], j, own(j)) /\ StreamInv(streams[p][j])
        /\ (streams[p][j].held <=> ~is_dead(streams[p][j])) /\ StreamInv(ts[j])
        /\ Accept(d, streams[p][j], j, ~own(j))
    BY <1>3, <1>4
  <2> USE <2>1
  <2>2. CASE j # id
    <3>1. streams'[p][j] = streams[p][j] /\ ~Of(d[1], j)
      BY <2>2 DEF OnlyStream, Of
    <3> HIDE DEF own
    <3> QED
      BY <3>1, LedgerTakenOther
  <2>3. CASE j = id /\ d[1].syn
    <3> USE <2>3
    <3>1. /\ TakeStep(new(FALSE, d[1].gen), streams'[p][j], d[1]) /\ Of(d[1], j)
          /\ StreamInv(streams'[p][j]) /\ (streams'[p][j].held <=> ~is_dead(streams'[p][j]))
      OBVIOUS
    <3> HIDE DEF own
    <3> QED
      BY <3>1, LedgerStarted
  <2>4. CASE j = id /\ ~d[1].syn
    <3> USE <2>4
    <3>1. /\ TakeStep(streams[p][j], streams'[p][j], d[1]) /\ Of(d[1], j)
          /\ StreamInv(streams'[p][j]) /\ (streams'[p][j].held <=> ~is_dead(streams'[p][j]))
      OBVIOUS
    <3> HIDE DEF own
    <3> QED
      BY <3>1, LedgerTaken
  <2> QED
    BY <2>2, <2>3, <2>4
<1> QED
  BY <1>5 DEF c, e, ts

\* One more stream than fewer than the limit.
LEMMA OneMore ==
  ASSUME CountsIds, NEW A, NEW B, NEW x \in Ids, A \subseteq Ids, B \subseteq A \cup {x},
         Cardinality(A) < MaxStreams
  PROVE  Cardinality(B) <= MaxStreams
<1>1. A \in SUBSET Ids /\ A \cup {x} \in SUBSET Ids /\ A \in SUBSET (A \cup {x})
  OBVIOUS
<1> USE <1>1
<1>2. Cardinality(A \cup {x}) <= MaxStreams
  <2>1. CASE x \notin A
    BY <2>1 DEF CountsIds
  <2>2. CASE x \in A
    <3>1. A \cup {x} = A
      BY <2>2
    <3>2. Cardinality(A) \in Nat
      BY DEF CountsIds
    <3> QED
      BY <3>1, <3>2, ConnectionAssumption, SMTT(40)
  <2> QED
    BY <2>1, <2>2, SMTT(40)
<1> QED
  BY <1>2, FewerIds

-----------------------------------------------------------------------------
(* The steps.                                                              *)

\* What a step of `p' has to show.
LEMMA Shown ==
  ASSUME NEW p \in Peers, Peer(p)', Peer(Other(p))', Pair(p)'
  PROVE  FrameInv'
<1>1. /\ Other(p) \in Peers /\ Other(Other(p)) = p
      /\ \A q \in Peers : q = p \/ q = Other(p)
  BY TwoPeers
<1> USE <1>1
<1>2. Pair(Other(p))'
  <2>1. ASSUME conn'[p] = "active", conn'[Other(p)] = "active"
        PROVE  AgreeOn(Chan(Other(p))', Chan(p)', streams'[Other(p)], streams'[p], Other(p))
    <3>1. AgreeOn(Chan(p)', Chan(Other(p))', streams'[p], streams'[Other(p)], p)
      BY <2>1, SMTT(40) DEF Pair, Agree
    <3> QED
      BY <3>1, AgreeBoth
  <2> QED
    BY <2>1, SMTT(40) DEF Pair, Agree
<1>3. ASSUME NEW q \in Peers
      PROVE  Peer(q)' /\ Pair(q)'
  <2>1. CASE q = p
    BY <2>1
  <2>2. CASE q = Other(p)
    BY <1>2, <2>2
  <2> QED
    BY <2>1, <2>2, SMTT(40)
<1> QED
  BY <1>3, SMTT(40) DEF FrameInv

-----------------------------------------------------------------------------
(* Steps that change nothing on its way to an active peer, or drop the end *)
(* of it, or add TERM or what is not a frame.                              *)

\* Streams that are the same one by one are the same together.
LEMMA KeptStreams ==
  ASSUME TypeInv, streams' \in [Peers -> [Ids -> Stream]], NEW q \in Peers,
         \A id \in Ids : streams'[q][id] = streams[q][id]
  PROVE  streams'[q] = streams[q]
BY SMTT(40) DEF TypeInv

\* The streams a peer started are as many as before.
LEMMA KeptHeld ==
  ASSUME NEW p \in Peers, \A id \in Ids : streams'[p][id].held = streams[p][id].held
  PROVE  Held(p, p)' = Held(p, p)
BY SMTT(40) DEF Held

\* A peer whose streams stay, and whose channel stays or loses its end.
LEMMA KeptPeer ==
  ASSUME CountsIds, NEW p \in Peers, Peer(p), conn'[p] = "active" => conn[p] = "active",
         streams'[p] = streams[p], Cut(Chan(Other(p)), Chan(Other(p))')
  PROVE  Peer(p)'
<1> SUFFICES ASSUME conn'[p] = "active"
             PROVE  Ready(p)' /\ Cardinality(Held(p, p)') <= MaxStreams
  BY SMTT(40) DEF Peer
<1>1. Ready(p) /\ Cardinality(Held(p, p)) <= MaxStreams
  BY DEF Peer
<1> USE <1>1
<1>2. Held(p, p)' = Held(p, p)
  BY KeptHeld
<1>3. Limit(Chan(Other(p))', streams'[p], Other(p))
  BY LimitCut DEF Ready
<1>4. \A id \in Ids :
        Accept(Chan(Other(p))', streams'[p][id], id, initiated_by(id) = Other(p))
  BY AcceptCut DEF Ready
<1> QED
  BY <1>2, <1>3, <1>4, SMTT(40) DEF Ready

\* A peer whose streams stay, and whose channel gets a packet that is no
\* stream frame.
LEMMA GrownPeer ==
  ASSUME CountsIds, NEW p \in Peers, Peer(p), conn'[p] = "active" => conn[p] = "active",
         \A id \in Ids : StreamInv(streams[p][id]),
         streams'[p] = streams[p], NEW x, x \notin StreamFrame,
         Grown(Chan(Other(p)), Chan(Other(p))', x)
  PROVE  Peer(p)'
<1> SUFFICES ASSUME conn'[p] = "active"
             PROVE  Ready(p)' /\ Cardinality(Held(p, p)') <= MaxStreams
  BY SMTT(40) DEF Peer
<1>1. Ready(p) /\ Cardinality(Held(p, p)) <= MaxStreams
  BY DEF Peer
<1> USE <1>1
<1>2. Held(p, p)' = Held(p, p)
  BY KeptHeld
<1>3. Limit(Chan(Other(p))', streams'[p], Other(p))
  BY LimitGrown DEF Ready
<1>4. ASSUME NEW id \in Ids
      PROVE  Accept(Chan(Other(p))', streams'[p][id], id, initiated_by(id) = Other(p))
  <2>1. ~Of(x, id)
    BY DEF Of
  <2> QED
    BY <2>1, AcceptGrown DEF Ready
<1> QED
  BY <1>2, <1>3, <1>4, SMTT(40) DEF Ready

\* A step that moves nothing between the peers.
LEMMA QuietStep ==
  ASSUME CountsIds, Inv, NEW p \in Peers, conn' = conn, streams' = streams,
         Chan(p)' = Chan(p), Chan(Other(p))' = Chan(Other(p))
  PROVE  FrameInv'
<1>1. /\ Other(p) \in Peers /\ Other(Other(p)) = p /\ Peer(p) /\ Peer(Other(p)) /\ Pair(p)
      /\ Cut(Chan(p), Chan(p)) /\ Cut(Chan(Other(p)), Chan(Other(p)))
  BY Found
<1> USE <1>1
<1>2. Peer(p)'
  BY KeptPeer
<1>3. Peer(Other(p))'
  BY KeptPeer
<1>4. Pair(p)'
  BY SMTT(40) DEF Pair, Agree
<1> QED
  BY <1>2, <1>3, <1>4, Shown

-----------------------------------------------------------------------------
(* Steps on one stream of `p': its own, which send nothing.                *)

\* The other peer sees nothing of it.
LEMMA OtherKept ==
  ASSUME CountsIds, Inv, NEW p \in Peers, NEW id \in Ids, OnlyStream(p, id), conn' = conn,
         streams' \in [Peers -> [Ids -> Stream]], Chan(p)' = Chan(p)
  PROVE  Peer(Other(p))' /\ streams'[Other(p)] = streams[Other(p)]
<1>1. /\ Other(p) \in Peers /\ Other(p) # p /\ Other(Other(p)) = p
      /\ Peer(Other(p)) /\ Cut(Chan(p), Chan(p))
  BY Found
<1> USE <1>1
<1>2. \A j \in Ids : streams'[Other(p)][j] = streams[Other(p)][j]
  BY DEF OnlyStream
<1>3. streams'[Other(p)] = streams[Other(p)]
  BY <1>2, KeptStreams DEF Inv
<1> QED
  BY <1>3, KeptPeer
=============================================================================
