---------------------------- MODULE PingsProofs ----------------------------
(***************************************************************************)
(* A peer that runs is not taken for dead, its samples are right, and they *)
(* come in the order of its PINGs: for every interval, timeout and delay   *)
(* that the assumptions allow, and for every size of transport.            *)
(***************************************************************************)
EXTENDS Pings, TLAPS

\* The provers of a leaf that names none, in the order they are tried.
USE SMTT(60), ZenonT(20)

Stamps == [t : Nat, age : Nat]
Frames == [ping : Stamps \cup {None}, pong : Stamps \cup {None}, age : 0 .. Delay]
Held   == [ping : BOOLEAN, pong : Stamps \cup {None}] \cup {None}

\* The transport delivers in order, so the first frame is the oldest.
Ordered(p) ==
  /\ Len(net[p]) <= Cap
  /\ \A i, j \in 1 .. Len(net[p]) : i <= j => net[p][j].age <= net[p][i].age

TypeInv ==
  /\ now \in Nat
  /\ peer \in [Peers -> {"running", "crashed", "timed_out"}]
  /\ ping_sleep \in [Peers -> Nat]
  /\ owed_pong \in [Peers -> Stamps \cup {None}]
  /\ pending \in [Peers -> Held]
  /\ net \in [Peers -> Seq(Frames)]
  /\ taken \in [Peers -> BOOLEAN]
  /\ inbound_frame_sleep \in [Peers -> Nat]
  /\ \A p \in Peers : ping_sleep[p] <= Interval[p] /\ inbound_frame_sleep[p] <= Timeout[p]
  /\ \A p \in Peers : Ordered(p)

\* The transport has room for a frame of `p' within n ticks.
RoomIn(p, n) ==
  /\ n >= 0 /\ (taken[p] => n >= 1)
  /\ Len(net[p]) = Cap => Delay - net[p][1].age <= n

\* Nothing is on its way to `p', and something arrives within n ticks: the
\* other peer has a frame or a PONG to send, or a PING is on its way to it, or
\* in the codec of `p', or due, or going to be.  A PING that is due waits for
\* the frame in the codec, and then for room.
FrameIn(p, n) ==
  LET q == Other(p)
  IN  \/ (pending[q] # None \/ owed_pong[q] # None) /\ Delay <= n
      \/ \E i \in 1 .. Len(net[p]) : net[p][i].ping # None /\ 2 * Delay - net[p][i].age <= n
      \/ pending[p] # None /\ pending[p].ping /\ RoomIn(p, n - 2 * Delay)
      \/ pending[p] = None /\ ping_sleep[p] = 0 /\ RoomIn(p, n - 2 * Delay)
      \/ pending[p] # None /\ ping_sleep[p] = 0 /\ RoomIn(p, n - 3 * Delay)
      \/ ping_sleep[p] > 0 /\ ping_sleep[p] - 1 + 4 * Delay <= n

\* The next frame for `p' arrives before its timeout.
InTime(p) ==
  LET q == Other(p)
      n == inbound_frame_sleep[p]
  IN  /\ net[q] # <<>> => Delay - net[q][1].age <= n
      /\ net[q] = <<>> /\ taken[q] => n = Timeout[p]
      /\ net[q] = <<>> /\ ~taken[q] => FrameIn(p, n)

Inv ==
  /\ TypeInv
  /\ \A p \in Peers : peer[p] = "running" /\ peer[Other(p)] = "running" => InTime(p)
  /\ LiveIsNotTakenForDead

-----------------------------------------------------------------------------
(* Constants, types and the transport.                                     *)

\* There are two peers.
LEMMA OtherPeer ==
  ASSUME NEW p \in Peers
  PROVE  /\ Other(p) \in Peers /\ Other(p) # p /\ Other(Other(p)) = p
         /\ \A q \in Peers : q = p \/ q = Other(p)
<1>1. \A q \in Peers : \E r \in Peers : r # q
  BY ZenonT(20) DEF Peers
<1>2. \A q \in Peers : Other(q) \in Peers /\ Other(q) # q
  BY <1>1, ZenonT(20) DEF Other
<1> QED
  BY <1>2 DEF Peers

\* The constants that time is measured in.
LEMMA Times ==
  ASSUME NEW p \in Peers
  PROVE  /\ Interval[p] \in Nat /\ Interval[p] >= 1 /\ Timeout[p] \in Nat
         /\ Delay \in Nat /\ Delay >= 1 /\ Cap \in Nat /\ Cap >= 1
         /\ Interval[p] + 4 * Delay <= Timeout[p] + 1
BY PingsAssumption, TimingAssumption DEF validate

\* None is neither a stamp nor a frame of the codec.
LEMMA NotNone ==
  /\ \A s \in Stamps : s # None
  /\ \A h \in [ping : BOOLEAN, pong : Stamps \cup {None}] : h # None
BY PingsAssumption DEF Stamps

\* What tick does to a stamp and to an age.
LEMMA Aged ==
  /\ \A s \in Stamps \cup {None} : aged(s) \in Stamps \cup {None} /\ (aged(s) = None <=> s = None)
  /\ \A n \in 0 .. Delay : /\ older(n, Delay) \in 0 .. Delay
                           /\ n < Delay => older(n, Delay) = n + 1
  /\ \A m, n \in 0 .. Delay : m <= n => older(m, Delay) <= older(n, Delay)
  /\ \A n \in Nat : shorter(n) \in Nat /\ shorter(n) <= n /\ (n > 0 => shorter(n) = n - 1)
<1>0. Delay \in Nat /\ MaxAge \in Nat
  BY PingsAssumption
<1>1. ASSUME NEW s \in Stamps \cup {None}
      PROVE  aged(s) \in Stamps \cup {None} /\ (aged(s) = None <=> s = None)
  <2>1. CASE s = None
    BY <2>1, ZenonT(20) DEF aged
  <2>2. CASE s \in Stamps
    <3>1. s # None
      BY <2>2, NotNone, ZenonT(20)
    <3>2. aged(s) = [s EXCEPT !.age = older(s.age, MaxAge)]
      BY <3>1 DEF aged
    <3>3. older(s.age, MaxAge) \in Nat
      BY <1>0, <2>2 DEF older, Stamps
    <3>4. aged(s) \in Stamps
      BY <2>2, <3>2, <3>3 DEF Stamps
    <3> QED
      BY <3>1, <3>4, NotNone, ZenonT(20)
  <2> QED
    BY <2>1, <2>2
<1>2. \A n \in 0 .. Delay : older(n, Delay) \in 0 .. Delay /\ (n < Delay => older(n, Delay) = n + 1)
  BY <1>0 DEF older
<1>3. \A m, n \in 0 .. Delay : m <= n => older(m, Delay) <= older(n, Delay)
  BY <1>0 DEF older
<1>4. \A n \in Nat : shorter(n) \in Nat /\ shorter(n) <= n /\ (n > 0 => shorter(n) = n - 1)
  BY DEF shorter
<1> QED
  BY <1>1, <1>2, <1>3, <1>4, ZenonT(20)

\* The fields of a frame on its way.
LEMMA FrameFields ==
  ASSUME NEW x \in Frames
  PROVE  /\ x.ping \in Stamps \cup {None} /\ x.pong \in Stamps \cup {None}
         /\ x.age \in 0 .. Delay /\ x.age \in Nat /\ x.age <= Delay
<1>1. Delay \in Nat
  BY PingsAssumption
<1>2. /\ x.ping \in Stamps \cup {None} /\ x.pong \in Stamps \cup {None} /\ x.age \in 0 .. Delay
  BY DEF Frames
<1> QED
  BY <1>1, <1>2

\* A frame joins the others at the back.
LEMMA JoinOrdered ==
  ASSUME NEW s \in Seq(Frames), NEW x \in Frames, x.age = 0,
         \A i, j \in 1 .. Len(s) : i <= j => s[j].age <= s[i].age
  PROVE  LET t == Append(s, x)
         IN  /\ t \in Seq(Frames) /\ Len(t) = Len(s) + 1 /\ t[Len(s) + 1] = x /\ t # <<>>
             /\ \A i \in 1 .. Len(s) : t[i] = s[i]
             /\ \A i, j \in 1 .. Len(t) : i <= j => t[j].age <= t[i].age
<1> DEFINE t == Append(s, x)
<1>1. /\ t \in Seq(Frames) /\ Len(t) = Len(s) + 1 /\ t[Len(s) + 1] = x /\ t # <<>>
      /\ \A i \in 1 .. Len(s) : t[i] = s[i]
  OBVIOUS
<1>2. \A i \in 1 .. Len(s) : s[i].age \in Nat
  <2>1. \A i \in 1 .. Len(s) : s[i] \in Frames
    OBVIOUS
  <2> QED
    BY <2>1, FrameFields
<1> HIDE DEF t
<1>3. \A i, j \in 1 .. Len(t) : i <= j => t[j].age <= t[i].age
  <2> SUFFICES ASSUME NEW i \in 1 .. Len(t), NEW j \in 1 .. Len(t), i <= j
               PROVE  t[j].age <= t[i].age
    OBVIOUS
  <2>1. CASE j \in 1 .. Len(s)
    <3>1. i \in 1 .. Len(s)
      BY <2>1
    <3> QED
      BY <1>1, <2>1, <3>1, ZenonT(20)
  <2>2. CASE j = Len(s) + 1
    <3>1. t[j].age = 0
      BY <1>1, <2>2, ZenonT(20)
    <3>2. i \in 1 .. Len(s) \/ i = j
      BY <1>1, <2>2
    <3>3. i \in 1 .. Len(s) => t[i].age \in Nat
      BY <1>1, <1>2, ZenonT(20)
    <3> QED
      BY <3>1, <3>2, <3>3
  <2> QED
    BY <1>1, <2>1, <2>2
<1> QED
  BY <1>1, <1>3 DEF t

\* The first frame leaves.
LEMMA LeaveOrdered ==
  ASSUME NEW s \in Seq(Frames), s # <<>>,
         \A i, j \in 1 .. Len(s) : i <= j => s[j].age <= s[i].age
  PROVE  LET t == Tail(s)
         IN  /\ t \in Seq(Frames) /\ Len(t) = Len(s) - 1 /\ Head(s) = s[1] /\ s[1] \in Frames
             /\ \A i \in 1 .. Len(t) : t[i] = s[i + 1]
             /\ \A i, j \in 1 .. Len(t) : i <= j => t[j].age <= t[i].age
<1> DEFINE t == Tail(s)
<1>1. /\ t \in Seq(Frames) /\ Len(t) = Len(s) - 1 /\ Head(s) = s[1] /\ s[1] \in Frames
      /\ \A i \in 1 .. Len(t) : t[i] = s[i + 1]
  OBVIOUS
<1>2. \A i \in 1 .. Len(t) : i + 1 \in 1 .. Len(s)
  BY <1>1
<1> HIDE DEF t
<1>3. \A i, j \in 1 .. Len(t) : i <= j => t[j].age <= t[i].age
  BY <1>1, <1>2
<1> QED
  BY <1>1, <1>3 DEF t

\* A frame that is one tick older.
olderFrame(x) == [ping |-> aged(x.ping), pong |-> aged(x.pong), age |-> older(x.age, Delay)]

\* Every frame gets older.
LEMMA AgeOrdered ==
  ASSUME NEW s \in Seq(Frames),
         \A i, j \in 1 .. Len(s) : i <= j => s[j].age <= s[i].age
  PROVE  LET t == [i \in DOMAIN s |-> olderFrame(s[i])]
         IN  /\ t \in Seq(Frames) /\ Len(t) = Len(s)
             /\ \A i \in 1 .. Len(s) : /\ t[i].age = older(s[i].age, Delay)
                                       /\ t[i].ping = None <=> s[i].ping = None
             /\ \A i, j \in 1 .. Len(t) : i <= j => t[j].age <= t[i].age
<1> DEFINE t == [i \in DOMAIN s |-> olderFrame(s[i])]
<1>1. \A x \in Frames : /\ x.ping \in Stamps \cup {None} /\ x.pong \in Stamps \cup {None}
                        /\ x.age \in 0 .. Delay
  BY FrameFields, ZenonT(20)
<1>2. \A x \in Frames : /\ olderFrame(x) \in Frames /\ olderFrame(x).age = older(x.age, Delay)
                        /\ olderFrame(x).ping = None <=> x.ping = None
  <2> TAKE x \in Frames
  <2>1. /\ aged(x.ping) \in Stamps \cup {None} /\ aged(x.pong) \in Stamps \cup {None}
        /\ older(x.age, Delay) \in 0 .. Delay /\ (aged(x.ping) = None <=> x.ping = None)
    BY <1>1, Aged, ZenonT(20)
  <2> QED
    BY <2>1 DEF olderFrame, Frames
<1>3. \A i \in 1 .. Len(s) : s[i] \in Frames
  OBVIOUS
<1>4. DOMAIN t = 1 .. Len(s) /\ \A i \in 1 .. Len(s) : t[i] = olderFrame(s[i])
  OBVIOUS
<1>5. t \in Seq(Frames) /\ Len(t) = Len(s)
  <2>1. t = [i \in 1 .. Len(s) |-> olderFrame(s[i])]
    OBVIOUS
  <2>2. t \in [1 .. Len(s) -> Frames] /\ Len(s) \in Nat
    BY <1>2, <1>3, <2>1
  <2> HIDE DEF t
  <2> QED
    BY <2>2
<1> HIDE DEF t
<1>6. \A i \in 1 .. Len(s) : /\ t[i].age = older(s[i].age, Delay)
                             /\ t[i].ping = None <=> s[i].ping = None
  BY <1>2, <1>3, <1>4, ZenonT(20)
<1>7. \A i, j \in 1 .. Len(t) : i <= j => t[j].age <= t[i].age
  <2> SUFFICES ASSUME NEW i \in 1 .. Len(t), NEW j \in 1 .. Len(t), i <= j
               PROVE  t[j].age <= t[i].age
    OBVIOUS
  <2>1. i \in 1 .. Len(s) /\ j \in 1 .. Len(s)
    BY <1>5
  <2>2. s[i].age \in 0 .. Delay /\ s[j].age \in 0 .. Delay /\ s[j].age <= s[i].age
    BY <1>1, <1>3, <2>1, ZenonT(20)
  <2> QED
    BY <1>6, <2>1, <2>2, Aged, ZenonT(20)
<1> QED
  BY <1>5, <1>6, <1>7, ZenonT(20) DEF t

-----------------------------------------------------------------------------
(* What the actions do to the types, and to the transport.                 *)

\* A frame of `p' that the codec writes.
Written(p) ==
  [ping |-> IF pending[p].ping THEN Stamp(p) ELSE None, pong |-> pending[p].pong, age |-> 0]

\* The codec hands a frame to the transport, and stamps the PING in it with
\* the time.
LEMMA WriteEffect ==
  ASSUME TypeInv, NEW p \in Peers, write(p)
  PROVE  /\ pending[p] # None /\ ~taken[p] /\ Len(net[p]) < Cap
         /\ Written(p) \in Frames /\ Written(p).age = 0
         /\ pending[p].ping => Written(p).ping # None
         /\ net' \in [Peers -> Seq(Frames)] /\ net'[p] = Append(net[p], Written(p))
         /\ \A q \in Peers : q # p => net'[q] = net[q]
         /\ taken' \in [Peers -> BOOLEAN] /\ taken'[p]
         /\ \A q \in Peers : q # p => taken'[q] = taken[q]
         /\ pending' \in [Peers -> Held] /\ pending'[p] = None
         /\ \A q \in Peers : q # p => pending'[q] = pending[q]
         /\ UNCHANGED <<now, peer, ping_sleep, unpinged_bytes, owed_pong, inbound_frame_sleep>>
         /\ Ordered(p)'
<1>1. /\ pending[p] # None /\ has_room(p)
      /\ net' = [net EXCEPT ![p] = Append(net[p], Written(p))]
      /\ taken' = [taken EXCEPT ![p] = TRUE] /\ pending' = [pending EXCEPT ![p] = None]
      /\ UNCHANGED <<now, peer, ping_sleep, unpinged_bytes, owed_pong, inbound_frame_sleep>>
  BY ZenonT(20) DEF write, Written, scheduleVars
<1>2. ~taken[p] /\ Len(net[p]) < Cap
  BY <1>1, ZenonT(20) DEF has_room
<1>3. pending[p] \in [ping : BOOLEAN, pong : Stamps \cup {None}]
  BY <1>1, ZenonT(20) DEF TypeInv, Held
<1>4. Stamp(p) \in Stamps
  BY PingsAssumption DEF Stamp, micros, Stamps, TypeInv
<1>5. 0 \in 0 .. Delay
  BY PingsAssumption
<1>6. /\ Written(p) \in Frames /\ Written(p).age = 0
      /\ Written(p).ping = IF pending[p].ping THEN Stamp(p) ELSE None
  BY <1>3, <1>4, <1>5 DEF Written, Frames
<1>7. pending[p].ping => Written(p).ping # None
  BY <1>4, <1>6, NotNone, ZenonT(20)
<1>8. net \in [Peers -> Seq(Frames)] /\ net[p] \in Seq(Frames) /\ Ordered(p)
  BY ZenonT(20) DEF TypeInv
<1> DEFINE s == net[p]
           t == Append(s, Written(p))
<1>9. /\ t \in Seq(Frames) /\ Len(t) = Len(s) + 1
      /\ \A i, j \in 1 .. Len(t) : i <= j => t[j].age <= t[i].age
  BY <1>6, <1>8, JoinOrdered, ZenonT(20) DEF Ordered
<1> HIDE DEF t
<1>10. net' = [net EXCEPT ![p] = t]
  BY <1>1 DEF t
<1>11. /\ net' \in [Peers -> Seq(Frames)] /\ net'[p] = t
       /\ \A q \in Peers : q # p => net'[q] = net[q]
  BY <1>8, <1>9, <1>10
<1>12. Ordered(p)'
  <2>1. Len(t) <= Cap
    BY <1>2, <1>8, <1>9, PingsAssumption
  <2> QED
    BY <1>9, <1>11, <2>1 DEF Ordered
<1>13. /\ taken' \in [Peers -> BOOLEAN] /\ taken'[p]
       /\ \A q \in Peers : q # p => taken'[q] = taken[q]
  BY <1>1 DEF TypeInv
<1>14. /\ pending' \in [Peers -> Held] /\ pending'[p] = None
       /\ \A q \in Peers : q # p => pending'[q] = pending[q]
  BY <1>1 DEF TypeInv, Held
<1> QED
  BY <1>1, <1>2, <1>6, <1>7, <1>11, <1>12, <1>13, <1>14, ZenonT(20) DEF t

\* A frame arrives: it starts the timeout again, and a PING in it is owed a
\* PONG.
LEMMA ReceiveEffect ==
  ASSUME TypeInv, NEW p \in Peers, receive(p)
  PROVE  /\ peer[p] = "running" /\ net[Other(p)] # <<>> /\ Len(net[Other(p)]) >= 1
         /\ net' \in [Peers -> Seq(Frames)] /\ net'[p] = net[p]
         /\ Len(net'[Other(p)]) = Len(net[Other(p)]) - 1
         /\ \A i \in 1 .. Len(net'[Other(p)]) : net'[Other(p)][i] = net[Other(p)][i + 1]
         /\ inbound_frame_sleep' \in [Peers -> Nat] /\ inbound_frame_sleep'[p] = Timeout[p]
         /\ inbound_frame_sleep'[Other(p)] = inbound_frame_sleep[Other(p)]
         /\ owed_pong' \in [Peers -> Stamps \cup {None}]
         /\ owed_pong[p] # None \/ net[Other(p)][1].ping # None => owed_pong'[p] # None
         /\ owed_pong'[Other(p)] = owed_pong[Other(p)]
         /\ UNCHANGED <<now, peer, ping_sleep, unpinged_bytes, pending, taken>>
         /\ Ordered(Other(p))'
<1> DEFINE q == Other(p)
           s == net[q]
           t == Tail(s)
<1>0. q \in Peers /\ q # p
  BY OtherPeer, ZenonT(20)
<1>1. /\ peer[p] = "running" /\ s # <<>>
      /\ net' = [net EXCEPT ![q] = t]
      /\ inbound_frame_sleep' = [inbound_frame_sleep EXCEPT ![p] = Timeout[p]]
      /\ owed_pong' = [owed_pong EXCEPT ![p] = received_ping(p, Head(s))]
      /\ UNCHANGED <<now, peer, ping_sleep, unpinged_bytes, pending, taken>>
  BY ZenonT(20) DEF receive, restarted, scheduleVars
<1> HIDE DEF q
<1>2. net \in [Peers -> Seq(Frames)] /\ s \in Seq(Frames) /\ Ordered(q)
  BY <1>0, ZenonT(20) DEF TypeInv
<1>3. /\ t \in Seq(Frames) /\ Len(t) = Len(s) - 1 /\ Head(s) = s[1] /\ s[1] \in Frames
      /\ \A i \in 1 .. Len(t) : t[i] = s[i + 1]
      /\ \A i, j \in 1 .. Len(t) : i <= j => t[j].age <= t[i].age
  BY <1>1, <1>2, LeaveOrdered, ZenonT(20) DEF Ordered
<1>4. Len(s) >= 1 /\ Len(s) \in Nat
  BY <1>1, <1>2
<1> HIDE DEF t
<1>5. net' \in [Peers -> Seq(Frames)] /\ net'[p] = net[p] /\ net'[q] = t
  BY <1>0, <1>1, <1>2, <1>3
<1>6. Ordered(q)'
  <2>1. Len(t) <= Cap
    BY <1>2, <1>3, <1>4, PingsAssumption DEF Ordered
  <2> QED
    BY <1>3, <1>5, <2>1, ZenonT(20) DEF Ordered
<1>7. /\ inbound_frame_sleep' \in [Peers -> Nat] /\ inbound_frame_sleep'[p] = Timeout[p]
      /\ inbound_frame_sleep'[q] = inbound_frame_sleep[q]
  BY <1>0, <1>1, Times DEF TypeInv
<1>8. s[1].ping \in Stamps \cup {None}
  BY <1>3, FrameFields, ZenonT(20)
<1>9. /\ owed_pong' \in [Peers -> Stamps \cup {None}]
      /\ owed_pong[p] # None \/ s[1].ping # None => owed_pong'[p] # None
      /\ owed_pong'[q] = owed_pong[q]
  BY <1>0, <1>1, <1>3, <1>8 DEF TypeInv, received_ping
<1> QED
  BY <1>1, <1>3, <1>4, <1>5, <1>6, <1>7, <1>9, ZenonT(20) DEF q

\* poll_progress puts a frame together: a PING that is due goes with it, and
\* its timer starts again.
LEMMA ComposeEffect ==
  ASSUME TypeInv, NEW p \in Peers, NEW update, compose(p, update)
  PROVE  /\ pending[p] = None
         /\ pending' \in [Peers -> Held] /\ pending'[p] # None
         /\ pending'[p].ping <=> due(p)
         /\ \A q \in Peers : q # p => pending'[q] = pending[q]
         /\ ping_sleep' \in [Peers -> Nat]
         /\ ping_sleep'[p] = IF due(p) THEN Interval[p] ELSE ping_sleep[p]
         /\ \A q \in Peers : q # p => ping_sleep'[q] = ping_sleep[q]
         /\ owed_pong' \in [Peers -> Stamps \cup {None}]
         /\ \A q \in Peers : q # p => owed_pong'[q] = owed_pong[q]
         /\ UNCHANGED <<now, peer, net, taken, inbound_frame_sleep>>
<1> DEFINE frame == [ping |-> due(p), pong |-> owed_pong[p]]
<1>1. /\ pending[p] = None /\ pending' = [pending EXCEPT ![p] = frame]
      /\ ping_sleep' = IF due(p) THEN [ping_sleep EXCEPT ![p] = Interval[p]] ELSE ping_sleep
      /\ owed_pong' = [owed_pong EXCEPT ![p] = None]
      /\ UNCHANGED <<now, peer, net, taken, inbound_frame_sleep>>
  BY ZenonT(20) DEF compose, take_owed
<1>2. due(p) \in BOOLEAN
  BY ZenonT(20) DEF due
<1>3. owed_pong[p] \in Stamps \cup {None}
  BY DEF TypeInv
<1>4. /\ frame \in [ping : BOOLEAN, pong : Stamps \cup {None}] /\ frame.ping = due(p)
  BY <1>2, <1>3
<1> HIDE DEF frame
<1>5. frame # None /\ frame \in Held
  BY <1>4, NotNone, ZenonT(20) DEF Held
<1>6. /\ pending' \in [Peers -> Held] /\ pending'[p] = frame
      /\ \A q \in Peers : q # p => pending'[q] = pending[q]
  BY <1>1, <1>5 DEF TypeInv
<1>7. /\ ping_sleep' \in [Peers -> Nat]
      /\ ping_sleep'[p] = IF due(p) THEN Interval[p] ELSE ping_sleep[p]
      /\ \A q \in Peers : q # p => ping_sleep'[q] = ping_sleep[q]
  <2>1. CASE due(p)
    BY <1>1, <2>1, Times DEF TypeInv
  <2>2. CASE ~due(p)
    BY <1>1, <2>2 DEF TypeInv
  <2> QED
    BY <2>1, <2>2
<1>8. /\ owed_pong' \in [Peers -> Stamps \cup {None}]
      /\ \A q \in Peers : q # p => owed_pong'[q] = owed_pong[q]
  BY <1>1 DEF TypeInv
<1> QED
  BY <1>1, <1>4, <1>5, <1>6, <1>7, <1>8, ZenonT(20)

\* A connection ends, by a crash or by the timeout.
LEMMA OverEffect ==
  ASSUME TypeInv, NEW p \in Peers, NEW why \in {"crashed", "timed_out"}, over(p, why)
  PROVE  /\ peer[p] = "running" /\ peer' \in [Peers -> {"running", "crashed", "timed_out"}]
         /\ peer'[p] = why /\ \A q \in Peers : q # p => peer'[q] = peer[q]
         /\ TypeInv'
<1>1. /\ peer[p] = "running" /\ peer' = [peer EXCEPT ![p] = why]
      /\ ping_sleep' = [ping_sleep EXCEPT ![p] = 0]
      /\ owed_pong' = [owed_pong EXCEPT ![p] = None]
      /\ pending' = [pending EXCEPT ![p] = None]
      /\ inbound_frame_sleep' = [inbound_frame_sleep EXCEPT ![p] = 0]
      /\ UNCHANGED <<now, net, taken>>
  BY ZenonT(20) DEF over
<1>2. /\ peer' \in [Peers -> {"running", "crashed", "timed_out"}]
      /\ peer'[p] = why /\ \A q \in Peers : q # p => peer'[q] = peer[q]
  BY <1>1 DEF TypeInv
<1>3. /\ ping_sleep' \in [Peers -> Nat] /\ inbound_frame_sleep' \in [Peers -> Nat]
      /\ \A q \in Peers : ping_sleep'[q] <= Interval[q] /\ inbound_frame_sleep'[q] <= Timeout[q]
  BY <1>1, Times DEF TypeInv
<1>4. owed_pong' \in [Peers -> Stamps \cup {None}] /\ pending' \in [Peers -> Held]
  BY <1>1 DEF TypeInv, Held
<1>5. \A q \in Peers : Ordered(q)'
  BY <1>1, ZenonT(20) DEF TypeInv, Ordered
<1>6. /\ now' \in Nat /\ net' \in [Peers -> Seq(Frames)] /\ taken' \in [Peers -> BOOLEAN]
  BY <1>1 DEF TypeInv
<1> QED
  BY <1>1, <1>2, <1>3, <1>4, <1>5, <1>6, ZenonT(20) DEF TypeInv

\* Time passes: timers run down, and stamps and frames get older.
LEMMA TickEffect ==
  ASSUME TypeInv, tick
  PROVE  /\ \A p \in Peers : ~urgent(p)
         /\ peer' = peer
         /\ ping_sleep' \in [Peers -> Nat] /\ inbound_frame_sleep' \in [Peers -> Nat]
         /\ \A p \in Peers : /\ ping_sleep'[p] = shorter(ping_sleep[p])
                             /\ inbound_frame_sleep'[p] = shorter(inbound_frame_sleep[p])
         /\ owed_pong' \in [Peers -> Stamps \cup {None}]
         /\ pending' \in [Peers -> Held]
         /\ \A p \in Peers : /\ pending'[p] = None <=> pending[p] = None
                             /\ pending[p] # None => pending'[p].ping = pending[p].ping
         /\ net' \in [Peers -> Seq(Frames)]
         /\ \A p \in Peers : Len(net'[p]) = Len(net[p]) /\ (net'[p] = <<>> <=> net[p] = <<>>)
         /\ \A p \in Peers : \A i \in 1 .. Len(net[p]) :
              /\ net'[p][i].age = older(net[p][i].age, Delay)
              /\ net'[p][i].ping = None <=> net[p][i].ping = None
         /\ \A p \in Peers : Ordered(p)'
         /\ taken' \in [Peers -> BOOLEAN] /\ \A p \in Peers : ~taken'[p]
         /\ now' \in Nat
<1>1. /\ \A p \in Peers : ~urgent(p)
      /\ peer' = peer
      /\ ping_sleep' = [p \in Peers |-> shorter(ping_sleep[p])]
      /\ inbound_frame_sleep' = [p \in Peers |-> shorter(inbound_frame_sleep[p])]
      /\ owed_pong' = [p \in Peers |-> aged(owed_pong[p])]
      /\ pending' = [p \in Peers |-> IF pending[p] = None THEN None
                                     ELSE [pending[p] EXCEPT !.pong = aged(pending[p].pong)]]
      /\ net' = [p \in Peers |-> [i \in DOMAIN net[p] |-> olderFrame(net[p][i])]]
      /\ taken' = [p \in Peers |-> FALSE]
  BY ZenonT(20) DEF tick, olderFrame
<1>2. /\ ping_sleep' \in [Peers -> Nat] /\ inbound_frame_sleep' \in [Peers -> Nat]
      /\ \A p \in Peers : /\ ping_sleep'[p] = shorter(ping_sleep[p])
                          /\ inbound_frame_sleep'[p] = shorter(inbound_frame_sleep[p])
  BY <1>1, Aged DEF TypeInv
<1>3. owed_pong' \in [Peers -> Stamps \cup {None}]
  BY <1>1, Aged DEF TypeInv
<1>4. ASSUME NEW p \in Peers
      PROVE  /\ pending'[p] \in Held
             /\ pending'[p] = None <=> pending[p] = None
             /\ pending[p] # None => pending'[p].ping = pending[p].ping
  <2>1. CASE pending[p] = None
    BY <1>1, <2>1, ZenonT(20) DEF Held
  <2>2. CASE pending[p] # None
    <3>1. pending[p] \in [ping : BOOLEAN, pong : Stamps \cup {None}]
      BY <2>2, ZenonT(20) DEF TypeInv, Held
    <3>2. aged(pending[p].pong) \in Stamps \cup {None}
      BY <3>1, Aged
    <3>3. pending'[p] = [pending[p] EXCEPT !.pong = aged(pending[p].pong)]
      BY <1>1, <2>2
    <3>4. /\ pending'[p] \in [ping : BOOLEAN, pong : Stamps \cup {None}]
          /\ pending'[p].ping = pending[p].ping
      BY <3>1, <3>2, <3>3
    <3> QED
      BY <2>2, <3>4, NotNone, ZenonT(20) DEF Held
  <2> QED
    BY <2>1, <2>2
<1>5. pending' \in [Peers -> Held]
  BY <1>1, <1>4
<1>6. ASSUME NEW p \in Peers
      PROVE  /\ net'[p] \in Seq(Frames) /\ Len(net'[p]) = Len(net[p])
             /\ \A i \in 1 .. Len(net[p]) : /\ net'[p][i].age = older(net[p][i].age, Delay)
                                            /\ net'[p][i].ping = None <=> net[p][i].ping = None
             /\ \A i, j \in 1 .. Len(net'[p]) : i <= j => net'[p][j].age <= net'[p][i].age
  <2>1. net[p] \in Seq(Frames) /\ Ordered(p)
    BY DEF TypeInv
  <2> DEFINE s == net[p]
             t == [i \in DOMAIN s |-> olderFrame(s[i])]
  <2>2. net'[p] = t
    BY <1>1
  <2>3. s \in Seq(Frames) /\ \A i, j \in 1 .. Len(s) : i <= j => s[j].age <= s[i].age
    BY <2>1, ZenonT(20) DEF Ordered
  <2> HIDE DEF s
  <2>4. /\ t \in Seq(Frames) /\ Len(t) = Len(s)
        /\ \A i \in 1 .. Len(s) : /\ t[i].age = older(s[i].age, Delay)
                                  /\ t[i].ping = None <=> s[i].ping = None
        /\ \A i, j \in 1 .. Len(t) : i <= j => t[j].age <= t[i].age
    BY <2>3, AgeOrdered, ZenonT(20)
  <2> HIDE DEF t
  <2> QED
    BY <2>2, <2>4, ZenonT(20) DEF s
<1>7. net' \in [Peers -> Seq(Frames)]
  BY <1>1, <1>6
<1>8. ASSUME NEW p \in Peers
      PROVE  Ordered(p)' /\ (net'[p] = <<>> <=> net[p] = <<>>)
  <2>1. Ordered(p) /\ net[p] \in Seq(Frames)
    BY DEF TypeInv
  <2>2. Ordered(p)'
    BY <1>6, <2>1 DEF Ordered
  <2>3. net'[p] = <<>> <=> net[p] = <<>>
    BY <1>6, <2>1
  <2> QED
    BY <2>2, <2>3
<1>9. taken' \in [Peers -> BOOLEAN] /\ \A p \in Peers : ~taken'[p]
  BY <1>1
<1>10. now' \in Nat
  BY PingsAssumption DEF tick, TypeInv
<1> QED
  BY <1>1, <1>2, <1>3, <1>4, <1>5, <1>6, <1>7, <1>8, <1>9, <1>10, ZenonT(20)

\* The types and the order of the frames are kept.
LEMMA TypeStep ==
  ASSUME TypeInv, [Next]_vars
  PROVE  TypeInv'
<1>1. CASE UNCHANGED vars
  BY <1>1, ZenonT(20) DEF vars, scheduleVars, TypeInv, Ordered
<1>2. ASSUME NEW p \in Peers, NEW update, compose(p, update)
      PROVE  TypeInv'
  <2>1. /\ pending' \in [Peers -> Held] /\ ping_sleep' \in [Peers -> Nat]
        /\ ping_sleep'[p] = IF due(p) THEN Interval[p] ELSE ping_sleep[p]
        /\ \A q \in Peers : q # p => ping_sleep'[q] = ping_sleep[q]
        /\ owed_pong' \in [Peers -> Stamps \cup {None}]
        /\ UNCHANGED <<now, peer, net, taken, inbound_frame_sleep>>
    BY <1>2, ComposeEffect, ZenonT(20)
  <2>2. \A q \in Peers : ping_sleep'[q] <= Interval[q]
    <3>1. \A q \in Peers : Interval[q] \in Nat /\ ping_sleep[q] <= Interval[q]
      BY Times, ZenonT(20) DEF TypeInv
    <3>2. Interval[p] <= Interval[p]
      BY <3>1
    <3> QED
      BY <2>1, <3>1, <3>2, ZenonT(20)
  <2> QED
    BY <2>1, <2>2, ZenonT(20) DEF TypeInv, Ordered
<1>3. ASSUME NEW p \in Peers, write(p)
      PROVE  TypeInv'
  <2>1. /\ net' \in [Peers -> Seq(Frames)] /\ Ordered(p)'
        /\ \A q \in Peers : q # p => net'[q] = net[q]
        /\ taken' \in [Peers -> BOOLEAN] /\ pending' \in [Peers -> Held]
        /\ UNCHANGED <<now, peer, ping_sleep, owed_pong, inbound_frame_sleep>>
    BY <1>3, WriteEffect, ZenonT(20)
  <2>2. \A q \in Peers : Ordered(q)'
    BY <2>1, ZenonT(20) DEF TypeInv, Ordered
  <2> QED
    BY <2>1, <2>2, ZenonT(20) DEF TypeInv
<1>4. ASSUME NEW p \in Peers, receive(p)
      PROVE  TypeInv'
  <2>1. /\ net' \in [Peers -> Seq(Frames)] /\ Ordered(Other(p))' /\ net'[p] = net[p]
        /\ inbound_frame_sleep' \in [Peers -> Nat] /\ inbound_frame_sleep'[p] = Timeout[p]
        /\ inbound_frame_sleep'[Other(p)] = inbound_frame_sleep[Other(p)]
        /\ owed_pong' \in [Peers -> Stamps \cup {None}]
        /\ UNCHANGED <<now, peer, ping_sleep, pending, taken>>
    BY <1>4, ReceiveEffect, ZenonT(20)
  <2>2. \A q \in Peers : q = p \/ q = Other(p)
    BY OtherPeer, ZenonT(20)
  <2>3. \A q \in Peers : Ordered(q)'
    BY <2>1, <2>2, ZenonT(20) DEF TypeInv, Ordered
  <2>4. \A q \in Peers : inbound_frame_sleep'[q] <= Timeout[q]
    <3>1. \A q \in Peers : Timeout[q] \in Nat /\ inbound_frame_sleep[q] <= Timeout[q]
      BY Times, ZenonT(20) DEF TypeInv
    <3>2. Timeout[p] <= Timeout[p]
      BY <3>1
    <3> QED
      BY <2>1, <2>2, <3>1, <3>2, ZenonT(20)
  <2> QED
    BY <2>1, <2>3, <2>4, ZenonT(20) DEF TypeInv
<1>5. ASSUME NEW p \in Peers, time_out(p) \/ crash(p)
      PROVE  TypeInv'
  BY <1>5, OverEffect, ZenonT(20) DEF time_out, crash
<1>6. ASSUME tick
      PROVE  TypeInv'
  <2>1. \A p \in Peers : ping_sleep'[p] <= Interval[p] /\ inbound_frame_sleep'[p] <= Timeout[p]
    <3> TAKE p \in Peers
    <3>1. /\ ping_sleep[p] \in Nat /\ ping_sleep[p] <= Interval[p]
          /\ inbound_frame_sleep[p] \in Nat /\ inbound_frame_sleep[p] <= Timeout[p]
      BY DEF TypeInv
    <3>2. /\ ping_sleep'[p] \in Nat /\ ping_sleep'[p] <= ping_sleep[p]
          /\ inbound_frame_sleep'[p] \in Nat /\ inbound_frame_sleep'[p] <= inbound_frame_sleep[p]
      BY <1>6, <3>1, TickEffect, Aged, ZenonT(20)
    <3> QED
      BY <3>1, <3>2, Times
  <2> QED
    BY <1>6, <2>1, TickEffect, ZenonT(20) DEF TypeInv
<1> QED
  BY <1>1, <1>2, <1>3, <1>4, <1>5, <1>6, ZenonT(20) DEF Next

-----------------------------------------------------------------------------
(* The next frame arrives in time.                                         *)

\* What InTime(p) is about, with its types.
LEMMA Measures ==
  ASSUME TypeInv, NEW p \in Peers
  PROVE  /\ Interval[p] \in Nat /\ Interval[p] >= 1 /\ Timeout[p] \in Nat
         /\ Delay \in Nat /\ Delay >= 1 /\ Cap \in Nat /\ Cap >= 1
         /\ Interval[p] + 4 * Delay <= Timeout[p] + 1
         /\ ping_sleep[p] \in Nat /\ ping_sleep[p] <= Interval[p]
         /\ inbound_frame_sleep[p] \in Nat
         /\ Len(net[p]) \in Nat /\ Len(net[p]) <= Cap
         /\ \A i \in 1 .. Len(net[p]) : /\ net[p][i].age \in Nat /\ net[p][i].age <= Delay
                                        /\ net[p][i].age <= net[p][1].age
         /\ net[p] = <<>> <=> Len(net[p]) = 0
         /\ taken[p] \in BOOLEAN
<1>1. net[p] \in Seq(Frames) /\ Ordered(p)
  BY DEF TypeInv
<1>2. \A i \in 1 .. Len(net[p]) : net[p][i].age \in Nat /\ net[p][i].age <= Delay
  <2>1. \A i \in 1 .. Len(net[p]) : net[p][i] \in Frames
    BY <1>1
  <2> QED
    BY <2>1, FrameFields, ZenonT(20)
<1>3. Len(net[p]) \in Nat /\ (net[p] = <<>> <=> Len(net[p]) = 0)
  BY <1>1
<1>4. \A i \in 1 .. Len(net[p]) : 1 \in 1 .. Len(net[p]) /\ 1 <= i
  BY <1>3
<1>5. /\ Len(net[p]) <= Cap
      /\ \A i \in 1 .. Len(net[p]) : net[p][i].age <= net[p][1].age
  BY <1>1, <1>4, ZenonT(20) DEF Ordered
<1>6. /\ ping_sleep[p] \in Nat /\ ping_sleep[p] <= Interval[p]
      /\ inbound_frame_sleep[p] \in Nat /\ taken[p] \in BOOLEAN
  BY DEF TypeInv
<1> QED
  BY <1>2, <1>3, <1>5, <1>6, Times, ZenonT(20)

\* There is room within a delay.
LEMMA RoomWithinDelay ==
  ASSUME TypeInv, NEW p \in Peers, NEW n \in Int, n >= Delay
  PROVE  RoomIn(p, n)
<1>1. /\ Delay \in Nat /\ Delay >= 1 /\ Cap \in Nat /\ Cap >= 1 /\ Len(net[p]) \in Nat
      /\ \A i \in 1 .. Len(net[p]) : net[p][i].age \in Nat
  BY Measures, ZenonT(20)
<1>2. Len(net[p]) = Cap => net[p][1].age \in Nat
  BY <1>1
<1> QED
  BY <1>1, <1>2 DEF RoomIn

\* Whatever a peer that just received a frame waits for comes in time.
LEMMA AfterFrame ==
  ASSUME TypeInv, NEW p \in Peers, NEW n \in Int, n + 1 >= Interval[p] + 4 * Delay
  PROVE  FrameIn(p, n)
<1>1. /\ Interval[p] \in Nat /\ Interval[p] >= 1 /\ Delay \in Nat /\ Delay >= 1
      /\ ping_sleep[p] \in Nat /\ ping_sleep[p] <= Interval[p]
  BY Measures, ZenonT(20)
<1>2. n - 2 * Delay \in Int /\ n - 2 * Delay >= Delay /\ n - 3 * Delay \in Int /\ n - 3 * Delay >= Delay
  BY <1>1
<1>3. RoomIn(p, n - 2 * Delay) /\ RoomIn(p, n - 3 * Delay)
  BY <1>2, RoomWithinDelay, ZenonT(20)
<1>4. ping_sleep[p] = 0 \/ (ping_sleep[p] > 0 /\ ping_sleep[p] - 1 + 4 * Delay <= n)
  BY <1>1
<1> QED
  BY <1>3, <1>4, ZenonT(20) DEF FrameIn

\* It takes a delay at least.
LEMMA NotAtOnce ==
  ASSUME TypeInv, NEW p \in Peers, NEW n \in Int, FrameIn(p, n)
  PROVE  n >= Delay
<1>1. /\ Delay \in Nat /\ ping_sleep[p] \in Nat
      /\ \A i \in 1 .. Len(net[p]) : net[p][i].age \in Nat /\ net[p][i].age <= Delay
  BY Measures, ZenonT(20)
<1>2. ASSUME NEW i \in 1 .. Len(net[p]), 2 * Delay - net[p][i].age <= n
      PROVE  n >= Delay
  <2>1. net[p][i].age \in Nat /\ net[p][i].age <= Delay
    BY <1>1, ZenonT(20)
  <2> QED
    BY <1>1, <1>2, <2>1
<1>3. RoomIn(p, n - 2 * Delay) \/ RoomIn(p, n - 3 * Delay) => n >= Delay
  BY <1>1 DEF RoomIn
<1>4. ping_sleep[p] > 0 /\ ping_sleep[p] - 1 + 4 * Delay <= n => n >= Delay
  BY <1>1
<1>5. Delay <= n => n >= Delay
  BY <1>1
<1> QED
  BY <1>2, <1>3, <1>4, <1>5, ZenonT(20) DEF FrameIn

\* InTime(p), for the value of the timeout that it is about.
LEMMA InTimeSays ==
  ASSUME NEW p \in Peers, InTime(p), NEW m, m = inbound_frame_sleep[p]
  PROVE  /\ net[Other(p)] # <<>> => Delay - net[Other(p)][1].age <= m
         /\ net[Other(p)] = <<>> /\ taken[Other(p)] => m = Timeout[p]
         /\ net[Other(p)] = <<>> /\ ~taken[Other(p)] => FrameIn(p, m)
BY ZenonT(20) DEF InTime

\* The same, after a step.
LEMMA InTimeAfter ==
  ASSUME NEW p \in Peers, NEW m, m = inbound_frame_sleep'[p],
         net'[Other(p)] # <<>> => Delay - net'[Other(p)][1].age <= m,
         net'[Other(p)] = <<>> /\ taken'[Other(p)] => m = Timeout[p],
         net'[Other(p)] = <<>> /\ ~taken'[Other(p)] => FrameIn(p, m)'
  PROVE  InTime(p)'
BY ZenonT(20) DEF InTime, FrameIn, RoomIn

\* compose puts off no frame: a PING that is due goes into the codec.
LEMMA ComposeFrameIn ==
  ASSUME TypeInv, NEW p \in Peers, NEW r \in Peers, NEW update, compose(r, update),
         NEW m \in Int, FrameIn(p, m)
  PROVE  FrameIn(p, m)'
<1>1. /\ pending[r] = None /\ pending'[r] # None /\ (pending'[r].ping <=> due(r))
      /\ \A q \in Peers : q # r => pending'[q] = pending[q]
      /\ ping_sleep'[r] = IF due(r) THEN Interval[r] ELSE ping_sleep[r]
      /\ \A q \in Peers : q # r => ping_sleep'[q] = ping_sleep[q]
      /\ \A q \in Peers : q # r => owed_pong'[q] = owed_pong[q]
      /\ net' = net /\ taken' = taken
  BY ComposeEffect, ZenonT(20)
<1>2. \A n : RoomIn(p, n)' <=> RoomIn(p, n)
  BY <1>1, ZenonT(20) DEF RoomIn
<1>3. /\ Other(p) \in Peers /\ Other(p) # p /\ (r = p \/ r = Other(p))
  BY OtherPeer, ZenonT(20)
<1>4. CASE r = Other(p)
  <2>1. pending'[Other(p)] # None /\ pending'[p] = pending[p] /\ ping_sleep'[p] = ping_sleep[p]
    BY <1>1, <1>3, <1>4, ZenonT(20)
  <2> QED
    BY <1>1, <1>2, <2>1, ZenonT(20) DEF FrameIn
<1>5. CASE r = p
  <2>1. /\ pending'[Other(p)] = pending[Other(p)] /\ owed_pong'[Other(p)] = owed_pong[Other(p)]
        /\ pending[p] = None /\ pending'[p] # None /\ (pending'[p].ping <=> due(p))
        /\ ~due(p) => ping_sleep'[p] = ping_sleep[p]
    BY <1>1, <1>3, <1>5, ZenonT(20)
  <2>2. due(p) /\ RoomIn(p, m - 2 * Delay) => FrameIn(p, m)'
    BY <1>2, <2>1, ZenonT(20) DEF FrameIn
  <2>3. ping_sleep[p] = 0 => due(p)
    BY ZenonT(20) DEF due
  <2>4. ping_sleep[p] > 0 /\ ping_sleep[p] - 1 + 4 * Delay <= m => RoomIn(p, m - 2 * Delay)
    <3>1. ping_sleep[p] \in Nat /\ Delay \in Nat
      BY Measures, ZenonT(20)
    <3>2. ASSUME ping_sleep[p] > 0, ping_sleep[p] - 1 + 4 * Delay <= m
          PROVE  m - 2 * Delay \in Int /\ m - 2 * Delay >= Delay
      BY <3>1, <3>2
    <3> QED
      BY <3>2, RoomWithinDelay, ZenonT(20)
  <2> QED
    BY <1>1, <2>1, <2>2, <2>3, <2>4, ZenonT(20) DEF FrameIn
<1> QED
  BY <1>3, <1>4, <1>5, ZenonT(20)

\* Neither does write: a PING is on its way, or nothing is ahead of it.
LEMMA WriteFrameIn ==
  ASSUME TypeInv, NEW p \in Peers, write(p), NEW m \in Int, FrameIn(p, m)
  PROVE  FrameIn(p, m)'
<1>1. /\ pending[p] # None /\ Written(p).age = 0 /\ (pending[p].ping => Written(p).ping # None)
      /\ net'[p] = Append(net[p], Written(p)) /\ pending'[p] = None /\ taken'[p]
      /\ \A q \in Peers : q # p => pending'[q] = pending[q]
      /\ ping_sleep' = ping_sleep /\ owed_pong' = owed_pong
      /\ net[p] \in Seq(Frames) /\ Written(p) \in Frames
  BY WriteEffect, ZenonT(20) DEF TypeInv
<1>2. /\ Len(net'[p]) = Len(net[p]) + 1 /\ Len(net[p]) \in Nat
      /\ \A i \in 1 .. Len(net[p]) : i \in 1 .. Len(net'[p]) /\ net'[p][i] = net[p][i]
      /\ Len(net'[p]) \in 1 .. Len(net'[p]) /\ net'[p][Len(net'[p])] = Written(p)
  BY <1>1
<1>3. /\ Other(p) \in Peers /\ Other(p) # p
  BY OtherPeer, ZenonT(20)
<1>4. /\ pending'[Other(p)] = pending[Other(p)] /\ owed_pong'[Other(p)] = owed_pong[Other(p)]
      /\ ping_sleep'[p] = ping_sleep[p]
  BY <1>1, <1>3, ZenonT(20)
<1>5. Delay \in Nat /\ Delay >= 1 /\ Cap \in Nat /\ Cap >= 1
  BY Measures, ZenonT(20)
<1>6. CASE pending[p].ping /\ RoomIn(p, m - 2 * Delay)
  <2>1. 2 * Delay - Written(p).age <= m
    BY <1>1, <1>5, <1>6 DEF RoomIn
  <2>2. net'[p][Len(net'[p])].ping # None /\ 2 * Delay - net'[p][Len(net'[p])].age <= m
    BY <1>1, <1>2, <1>6, <2>1, ZenonT(20)
  <2> QED
    BY <1>2, <2>2, ZenonT(20) DEF FrameIn
<1>7. CASE ping_sleep[p] = 0 /\ RoomIn(p, m - 3 * Delay)
  <2>1. m - 2 * Delay >= Delay
    BY <1>5, <1>7 DEF RoomIn
  <2>2. Len(net'[p]) = Cap => net'[p][1].age \in Nat
    <3>1. net'[p] \in Seq(Frames) /\ (Len(net'[p]) = Cap => 1 \in 1 .. Len(net'[p]))
      BY <1>1, <1>5
    <3>2. Len(net'[p]) = Cap => net'[p][1] \in Frames
      BY <3>1
    <3> QED
      BY <3>2, FrameFields, ZenonT(20)
  <2>3. RoomIn(p, m - 2 * Delay)'
    BY <1>5, <2>1, <2>2 DEF RoomIn
  <2> QED
    BY <1>1, <1>4, <1>7, <2>3, ZenonT(20) DEF FrameIn
<1>8. ASSUME NEW i \in 1 .. Len(net[p]), net[p][i].ping # None, 2 * Delay - net[p][i].age <= m
      PROVE  FrameIn(p, m)'
  BY <1>2, <1>8, ZenonT(20) DEF FrameIn
<1>9. CASE \/ (pending[Other(p)] # None \/ owed_pong[Other(p)] # None) /\ Delay <= m
           \/ ping_sleep[p] > 0 /\ ping_sleep[p] - 1 + 4 * Delay <= m
  BY <1>4, <1>9, ZenonT(20) DEF FrameIn
<1> QED
  BY <1>1, <1>6, <1>7, <1>8, <1>9, ZenonT(20) DEF FrameIn

\* Nor receive: what the other peer receives is answered, and leaves room.
LEMMA ReceiveFrameIn ==
  ASSUME TypeInv, NEW p \in Peers, NEW r \in Peers, receive(r), NEW m \in Int, FrameIn(p, m)
  PROVE  FrameIn(p, m)'
<1>1. /\ Other(p) \in Peers /\ Other(p) # p /\ Other(Other(p)) = p /\ (r = p \/ r = Other(p))
  BY OtherPeer, ZenonT(20)
<1>2. pending' = pending /\ ping_sleep' = ping_sleep /\ taken' = taken
  BY ReceiveEffect, ZenonT(20)
<1>3. CASE r = p
  <2>1. net'[p] = net[p] /\ owed_pong'[Other(p)] = owed_pong[Other(p)]
    BY <1>3, ReceiveEffect, ZenonT(20)
  <2>2. \A n : RoomIn(p, n)' <=> RoomIn(p, n)
    BY <1>2, <2>1, ZenonT(20) DEF RoomIn
  <2> QED
    BY <1>2, <2>1, <2>2, ZenonT(20) DEF FrameIn
<1>4. CASE r = Other(p)
  <2>1. /\ Len(net[p]) >= 1 /\ Len(net'[p]) = Len(net[p]) - 1
        /\ \A i \in 1 .. Len(net'[p]) : net'[p][i] = net[p][i + 1]
        /\ owed_pong[Other(p)] # None \/ net[p][1].ping # None => owed_pong'[Other(p)] # None
    <3>1. /\ Len(net[Other(r)]) >= 1 /\ Len(net'[Other(r)]) = Len(net[Other(r)]) - 1
          /\ \A i \in 1 .. Len(net'[Other(r)]) : net'[Other(r)][i] = net[Other(r)][i + 1]
          /\ owed_pong[r] # None \/ net[Other(r)][1].ping # None => owed_pong'[r] # None
      BY ReceiveEffect, ZenonT(20)
    <3>2. Other(r) = p
      BY <1>1, <1>4, ZenonT(20)
    <3> QED
      BY <1>4, <3>1, <3>2
  <2>2. /\ Delay \in Nat /\ Delay >= 1 /\ Cap \in Nat /\ Len(net[p]) \in Nat /\ Len(net[p]) <= Cap
        /\ \A i \in 1 .. Len(net[p]) : net[p][i].age \in Nat /\ net[p][i].age <= Delay
    BY Measures, ZenonT(20)
  <2>3. ASSUME NEW n, RoomIn(p, n)
        PROVE  RoomIn(p, n)'
    <3>1. Len(net'[p]) # Cap
      BY <2>1, <2>2
    <3> QED
      BY <1>2, <2>3, <3>1, ZenonT(20) DEF RoomIn
  <2>4. ASSUME NEW i \in 1 .. Len(net[p]), net[p][i].ping # None, 2 * Delay - net[p][i].age <= m
        PROVE  FrameIn(p, m)'
    <3>1. CASE i = 1
      <4>1. net[p][i].age \in Nat /\ net[p][i].age <= Delay
        BY <2>2, ZenonT(20)
      <4>2. Delay <= m
        BY <2>2, <2>4, <4>1
      <4> QED
        BY <2>1, <2>4, <3>1, <4>2, ZenonT(20) DEF FrameIn
    <3>2. CASE i # 1
      <4>1. i - 1 \in 1 .. Len(net'[p]) /\ (i - 1) + 1 = i
        BY <2>1, <2>2, <3>2
      <4>2. net'[p][i - 1] = net[p][i]
        BY <2>1, <4>1
      <4> QED
        BY <2>4, <4>1, <4>2, ZenonT(20) DEF FrameIn
    <3> QED
      BY <3>1, <3>2, ZenonT(20)
  <2> QED
    BY <1>2, <2>1, <2>3, <2>4, ZenonT(20) DEF FrameIn
<1> QED
  BY <1>1, <1>3, <1>4, ZenonT(20)

\* What no peer puts off, when time passes.
LEMMA Waiting ==
  ASSUME TypeInv, tick, NEW p \in Peers, peer[p] = "running"
  PROVE  /\ pending[p] = None => ping_sleep[p] > 0 /\ owed_pong[p] = None
         /\ pending[p] # None => taken[p] \/ Len(net[p]) = Cap
         /\ net[Other(p)] # <<>> => net[Other(p)][1].age < Delay
         /\ inbound_frame_sleep[p] > 0
<1>1. ~urgent(p)
  BY TickEffect, ZenonT(20)
<1>2. /\ Other(p) \in Peers
  BY OtherPeer, ZenonT(20)
<1>3. /\ ping_sleep[p] \in Nat /\ inbound_frame_sleep[p] \in Nat
      /\ Len(net[p]) \in Nat /\ Len(net[p]) <= Cap /\ Cap \in Nat
  BY Measures, ZenonT(20)
<1>4. /\ pending[p] = None => ping_sleep[p] # 0 /\ owed_pong[p] = None
      /\ pending[p] # None => taken[p] \/ ~(Len(net[p]) < Cap)
      /\ ~arrives(Other(p)) /\ inbound_frame_sleep[p] # 0
  BY <1>1, ZenonT(20) DEF urgent, due, has_room
<1>5. net[Other(p)] # <<>> => net[Other(p)][1].age < Delay
  <2>1. net[Other(p)] \in Seq(Frames) /\ Delay \in Nat
    BY <1>2, Measures DEF TypeInv
  <2>2. ASSUME net[Other(p)] # <<>>
        PROVE  net[Other(p)][1].age < Delay
    <3>1. 1 \in 1 .. Len(net[Other(p)]) /\ Head(net[Other(p)]) = net[Other(p)][1]
      BY <2>1, <2>2
    <3>2. net[Other(p)][1].age \in Nat /\ net[Other(p)][1].age <= Delay
      BY <1>2, <3>1, Measures, ZenonT(20)
    <3>3. net[Other(p)][1].age # Delay
      BY <1>4, <2>2, <3>1, ZenonT(20) DEF arrives
    <3> QED
      BY <2>1, <3>2, <3>3
  <2> QED
    BY <2>2
<1> QED
  BY <1>3, <1>4, <1>5

\* What is waited for is a tick nearer.
LEMMA RoomAfterTick ==
  ASSUME TypeInv, tick, NEW p \in Peers, peer[Other(p)] = "running",
         NEW n \in Int
  PROVE  /\ n >= Delay => RoomIn(p, n - 1)'
         /\ RoomIn(p, n) /\ (taken[p] \/ Len(net[p]) = Cap) => RoomIn(p, n - 1)'
<1>1. /\ Delay \in Nat /\ Delay >= 1 /\ Cap \in Nat /\ Cap >= 1
      /\ Len(net[p]) \in Nat
      /\ \A i \in 1 .. Len(net[p]) : net[p][i].age \in Nat /\ net[p][i].age <= Delay
      /\ net[p] = <<>> <=> Len(net[p]) = 0
  BY Measures, ZenonT(20)
<1>2. Other(p) \in Peers /\ Other(Other(p)) = p
  BY OtherPeer, ZenonT(20)
<1>3. net[p] # <<>> => net[p][1].age < Delay
  BY <1>2, Waiting, ZenonT(20)
<1>4. /\ ~taken'[p] /\ Len(net'[p]) = Len(net[p])
      /\ \A i \in 1 .. Len(net[p]) : net'[p][i].age = older(net[p][i].age, Delay)
  BY TickEffect, ZenonT(20)
<1>5. Len(net[p]) = Cap => /\ 1 \in 1 .. Len(net[p]) /\ net[p] # <<>>
  BY <1>1
<1>6. Len(net[p]) = Cap => /\ net[p][1].age \in Nat /\ net[p][1].age < Delay
                           /\ net'[p][1].age = net[p][1].age + 1
  <2>1. Len(net[p]) = Cap => /\ net[p][1].age \in Nat /\ net[p][1].age < Delay
                             /\ net'[p][1].age = older(net[p][1].age, Delay)
    BY <1>1, <1>3, <1>4, <1>5, ZenonT(20)
  <2> QED
    BY <2>1 DEF older
<1> QED
  BY <1>1, <1>4, <1>6 DEF RoomIn

\* The next PING is a tick nearer: it is due no later than its interval.
LEMMA DueAfterTick ==
  ASSUME TypeInv, tick, NEW p \in Peers, peer[Other(p)] = "running",
         NEW m \in Int, m >= 4 * Delay, ping_sleep[p] - 1 + 4 * Delay <= m
  PROVE  FrameIn(p, m - 1)'
<1>1. Delay \in Nat /\ Delay >= 1 /\ ping_sleep[p] \in Nat
  BY Measures, ZenonT(20)
<1>2. ping_sleep'[p] = IF ping_sleep[p] > 0 THEN ping_sleep[p] - 1 ELSE 0
  BY TickEffect, ZenonT(20) DEF shorter
<1>3. CASE ping_sleep'[p] > 0
  <2>1. ping_sleep'[p] > 0 /\ ping_sleep'[p] - 1 + 4 * Delay <= m - 1
    BY <1>1, <1>2, <1>3
  <2> QED
    BY <2>1, ZenonT(20) DEF FrameIn
<1>4. CASE ping_sleep'[p] = 0
  <2>1. /\ m - 2 * Delay \in Int /\ m - 2 * Delay >= Delay /\ m - 3 * Delay \in Int
        /\ m - 3 * Delay >= Delay
        /\ m - 2 * Delay - 1 = m - 1 - 2 * Delay /\ m - 3 * Delay - 1 = m - 1 - 3 * Delay
    BY <1>1
  <2>2. RoomIn(p, m - 2 * Delay - 1)' /\ RoomIn(p, m - 3 * Delay - 1)'
    BY <2>1, RoomAfterTick, ZenonT(20)
  <2>3. RoomIn(p, m - 1 - 2 * Delay)' /\ RoomIn(p, m - 1 - 3 * Delay)'
    BY <2>1, <2>2, ZenonT(20) DEF RoomIn
  <2> QED
    BY <1>4, <2>3, ZenonT(20) DEF FrameIn
<1> QED
  BY <1>1, <1>2, <1>3, <1>4

\* A frame that nothing is in the way of is a tick nearer.
LEMMA TickFrameIn ==
  ASSUME TypeInv, tick, NEW p \in Peers, peer[p] = "running", peer[Other(p)] = "running",
         net[Other(p)] = <<>>, ~taken[Other(p)], NEW m \in Int, FrameIn(p, m)
  PROVE  FrameIn(p, m - 1)'
<1>1. /\ Delay \in Nat /\ Delay >= 1 /\ Cap \in Nat /\ Cap >= 1 /\ ping_sleep[p] \in Nat
      /\ Len(net[p]) \in Nat /\ (net[p] = <<>> <=> Len(net[p]) = 0)
      /\ \A i \in 1 .. Len(net[p]) : /\ net[p][i].age \in Nat
                                     /\ net[p][i].age <= net[p][1].age
  BY Measures, ZenonT(20)
<1>2. /\ Other(p) \in Peers /\ Other(Other(p)) = p
  BY OtherPeer, ZenonT(20)
<1>3. Len(net[Other(p)]) = 0
  BY <1>2, Measures, ZenonT(20)
<1>4. pending[Other(p)] = None /\ owed_pong[Other(p)] = None
  <2>1. Len(net[Other(p)]) # Cap
    BY <1>1, <1>3
  <2> QED
    BY <1>2, <2>1, Waiting, ZenonT(20)
<1>5. /\ pending[p] = None => ping_sleep[p] > 0
      /\ pending[p] # None => taken[p] \/ Len(net[p]) = Cap
      /\ net[p] # <<>> => net[p][1].age < Delay
  BY <1>2, Waiting, ZenonT(20)
<1>6. /\ ping_sleep'[p] = shorter(ping_sleep[p])
      /\ pending'[p] = None <=> pending[p] = None
      /\ pending[p] # None => pending'[p].ping = pending[p].ping
      /\ Len(net'[p]) = Len(net[p])
      /\ \A i \in 1 .. Len(net[p]) : /\ net'[p][i].age = older(net[p][i].age, Delay)
                                     /\ net'[p][i].ping = None <=> net[p][i].ping = None
  BY TickEffect, ZenonT(20)
<1>7. ASSUME NEW i \in 1 .. Len(net[p]), net[p][i].ping # None, 2 * Delay - net[p][i].age <= m
      PROVE  FrameIn(p, m - 1)'
  <2>1. net[p] # <<>>
    BY <1>1
  <2>2. /\ net[p][i].age \in Nat /\ net[p][i].age <= net[p][1].age /\ net[p][1].age < Delay
        /\ net'[p][i].age = older(net[p][i].age, Delay) /\ net'[p][i].ping # None
    BY <1>1, <1>5, <1>6, <1>7, <2>1, ZenonT(20)
  <2>3. net[p][1].age \in Nat
    <3>1. 1 \in 1 .. Len(net[p])
      BY <1>1
    <3> QED
      BY <1>1, <3>1, ZenonT(20)
  <2>4. 2 * Delay - net'[p][i].age <= m - 1
    BY <1>1, <1>7, <2>2, <2>3 DEF older
  <2> QED
    BY <1>6, <2>2, <2>4, ZenonT(20) DEF FrameIn
<1>8. ASSUME pending[p] # None, pending[p].ping, RoomIn(p, m - 2 * Delay)
      PROVE  FrameIn(p, m - 1)'
  <2>1. m - 2 * Delay \in Int /\ m - 2 * Delay - 1 = m - 1 - 2 * Delay
    BY <1>1
  <2>2. RoomIn(p, m - 2 * Delay - 1)'
    BY <1>5, <1>8, <2>1, RoomAfterTick, ZenonT(20)
  <2>3. RoomIn(p, m - 1 - 2 * Delay)'
    BY <2>1, <2>2, ZenonT(20) DEF RoomIn
  <2> QED
    BY <1>6, <1>8, <2>3, ZenonT(20) DEF FrameIn
<1>9. ASSUME pending[p] # None, ping_sleep[p] = 0, RoomIn(p, m - 3 * Delay)
      PROVE  FrameIn(p, m - 1)'
  <2>1. m - 3 * Delay \in Int /\ m - 3 * Delay - 1 = m - 1 - 3 * Delay
    BY <1>1
  <2>2. RoomIn(p, m - 3 * Delay - 1)'
    BY <1>5, <1>9, <2>1, RoomAfterTick, ZenonT(20)
  <2>3. RoomIn(p, m - 1 - 3 * Delay)'
    BY <2>1, <2>2, ZenonT(20) DEF RoomIn
  <2>4. ping_sleep'[p] = 0
    BY <1>6, <1>9 DEF shorter
  <2> QED
    BY <1>6, <1>9, <2>3, <2>4, ZenonT(20) DEF FrameIn
<1>10. ASSUME ping_sleep[p] > 0, ping_sleep[p] - 1 + 4 * Delay <= m
       PROVE  FrameIn(p, m - 1)'
  <2>1. m >= 4 * Delay
    BY <1>1, <1>10
  <2> QED
    BY <1>10, <2>1, DueAfterTick, ZenonT(20)
<1>11. ping_sleep[p] > 0 => ping_sleep[p] # 0
  BY <1>1
<1> QED
  BY <1>4, <1>5, <1>7, <1>8, <1>9, <1>10, <1>11, ZenonT(20) DEF FrameIn

-----------------------------------------------------------------------------
(* The invariant and the theorem.                                          *)

\* Steps of two peers that run keep the next frame in time.
LEMMA InTimeStep ==
  ASSUME TypeInv, [Next]_vars, NEW p \in Peers, InTime(p),
         peer[p] = "running", peer[Other(p)] = "running",
         peer'[p] = "running", peer'[Other(p)] = "running"
  PROVE  InTime(p)'
<1> DEFINE q == Other(p)
           n == inbound_frame_sleep[p]
<1>1. /\ q \in Peers /\ q # p /\ Other(q) = p /\ \A r \in Peers : r = p \/ r = q
  BY OtherPeer, ZenonT(20)
<1>2. /\ Interval[p] \in Nat /\ Timeout[p] \in Nat /\ Interval[p] >= 1 /\ Delay \in Nat /\ Delay >= 1
      /\ Interval[p] + 4 * Delay <= Timeout[p] + 1 /\ n \in Nat /\ n \in Int
      /\ ping_sleep[p] \in Nat /\ ping_sleep[p] <= Interval[p]
      /\ net[q] \in Seq(Frames) /\ Len(net[q]) \in Nat
      /\ net[q] = <<>> <=> Len(net[q]) = 0
      /\ \A i \in 1 .. Len(net[q]) : net[q][i].age \in Nat /\ net[q][i].age <= Delay
  <2>1. n \in Nat => n \in Int
    OBVIOUS
  <2> QED
    BY <1>1, <2>1, Measures, ZenonT(20) DEF TypeInv
<1>3. /\ net[q] # <<>> => Delay - net[q][1].age <= n
      /\ net[q] = <<>> /\ taken[q] => n = Timeout[p]
      /\ net[q] = <<>> /\ ~taken[q] => FrameIn(p, n)
  BY InTimeSays, ZenonT(20)
<1>4. CASE UNCHANGED vars
  BY <1>4, ZenonT(20) DEF vars, scheduleVars, InTime, FrameIn, RoomIn
<1>5. ASSUME NEW r \in Peers, NEW update, compose(r, update)
      PROVE  InTime(p)'
  <2>1. net' = net /\ taken' = taken /\ inbound_frame_sleep' = inbound_frame_sleep
    BY <1>5, ComposeEffect, ZenonT(20)
  <2>2. PICK m \in Int : m = inbound_frame_sleep'[p]
    BY <1>2, <2>1, ZenonT(20)
  <2>3. FrameIn(p, m) => FrameIn(p, m)'
    BY <1>5, ComposeFrameIn, ZenonT(20)
  <2> QED
    BY <1>3, <2>1, <2>2, <2>3, InTimeAfter, ZenonT(20)
<1>6. ASSUME write(p)
      PROVE  InTime(p)'
  <2>1. net'[q] = net[q] /\ taken'[q] = taken[q] /\ inbound_frame_sleep' = inbound_frame_sleep
    BY <1>1, <1>6, WriteEffect, ZenonT(20)
  <2>2. PICK m \in Int : m = inbound_frame_sleep'[p]
    BY <1>2, <2>1, ZenonT(20)
  <2>3. FrameIn(p, m) => FrameIn(p, m)'
    BY <1>6, WriteFrameIn, ZenonT(20)
  <2> QED
    BY <1>3, <2>1, <2>2, <2>3, InTimeAfter, ZenonT(20)
<1>7. ASSUME write(q)
      PROVE  InTime(p)'
  <2>1. /\ net'[q] = Append(net[q], Written(q)) /\ Written(q).age = 0 /\ Written(q) \in Frames
        /\ ~taken[q] /\ inbound_frame_sleep' = inbound_frame_sleep
    BY <1>1, <1>7, WriteEffect, ZenonT(20)
  <2>2. PICK m \in Int : m = inbound_frame_sleep'[p]
    BY <1>2, <2>1, ZenonT(20)
  <2>3. net'[q] # <<>> /\ net'[q][1] = IF net[q] = <<>> THEN Written(q) ELSE net[q][1]
    BY <1>2, <2>1
  <2>4. Delay - net'[q][1].age <= m
    <3>1. CASE net[q] = <<>>
      <4>1. FrameIn(p, m)
        BY <1>3, <2>1, <2>2, <3>1, ZenonT(20)
      <4>2. m >= Delay
        BY <4>1, NotAtOnce, ZenonT(20)
      <4> QED
        BY <1>2, <2>1, <2>3, <3>1, <4>2
    <3>2. CASE net[q] # <<>>
      BY <1>3, <2>1, <2>2, <2>3, <3>2, ZenonT(20)
    <3> QED
      BY <3>1, <3>2, ZenonT(20)
  <2> QED
    BY <2>2, <2>3, <2>4, InTimeAfter, ZenonT(20)
<1>8. ASSUME receive(q)
      PROVE  InTime(p)'
  <2>1. net'[q] = net[q] /\ taken' = taken /\ inbound_frame_sleep'[p] = inbound_frame_sleep[p]
    BY <1>1, <1>8, ReceiveEffect, ZenonT(20)
  <2>2. PICK m \in Int : m = inbound_frame_sleep'[p]
    BY <1>2, <2>1, ZenonT(20)
  <2>3. FrameIn(p, m) => FrameIn(p, m)'
    BY <1>1, <1>8, ReceiveFrameIn, ZenonT(20)
  <2> QED
    BY <1>3, <2>1, <2>2, <2>3, InTimeAfter, ZenonT(20)
<1>9. ASSUME receive(p)
      PROVE  InTime(p)'
  <2>1. /\ Len(net[q]) >= 1 /\ Len(net'[q]) = Len(net[q]) - 1 /\ net'[q] \in Seq(Frames)
        /\ \A i \in 1 .. Len(net'[q]) : net'[q][i] = net[q][i + 1]
        /\ inbound_frame_sleep'[p] = Timeout[p]
    BY <1>1, <1>9, ReceiveEffect, ZenonT(20)
  <2>2. PICK m \in Int : m = inbound_frame_sleep'[p]
    BY <1>2, <2>1
  <2>3. m + 1 >= Interval[p] + 4 * Delay
    BY <1>2, <2>1, <2>2
  <2>4. FrameIn(p, m)
    BY <2>3, AfterFrame, ZenonT(20)
  <2>5. FrameIn(p, m)'
    BY <1>9, <2>4, ReceiveFrameIn, ZenonT(20)
  <2>6. net'[q] # <<>> => Delay - net'[q][1].age <= m
    <3>1. ASSUME net'[q] # <<>>
          PROVE  Delay - net'[q][1].age <= m
      <4>1. 1 \in 1 .. Len(net'[q]) /\ 2 \in 1 .. Len(net[q])
        BY <1>2, <2>1, <3>1
      <4>2. net'[q][1] = net[q][2]
        BY <2>1, <4>1
      <4>3. net'[q][1].age \in Nat
        BY <1>2, <4>1, <4>2, ZenonT(20)
      <4> QED
        BY <1>2, <2>3, <4>3
    <3> QED
      BY <3>1
  <2> QED
    BY <2>1, <2>2, <2>5, <2>6, InTimeAfter, ZenonT(20)
<1>10. ASSUME tick
       PROVE  InTime(p)'
  <2>1. n > 0 /\ (net[q] # <<>> => net[q][1].age < Delay)
    BY <1>10, Waiting, ZenonT(20)
  <2>2. /\ inbound_frame_sleep'[p] = shorter(n) /\ ~taken'[q]
        /\ net'[q] = <<>> <=> net[q] = <<>>
        /\ \A i \in 1 .. Len(net[q]) : net'[q][i].age = older(net[q][i].age, Delay)
    BY <1>1, <1>10, TickEffect, ZenonT(20)
  <2>3. PICK m \in Int : m = n
    BY <1>2, ZenonT(20)
  <2>4. PICK k \in Int : k = m - 1
    OBVIOUS
  <2>5. k = inbound_frame_sleep'[p]
    BY <2>1, <2>2, <2>3, <2>4 DEF shorter
  <2>6. net[q] # <<>> => Delay - net'[q][1].age <= k
    <3>1. ASSUME net[q] # <<>>
          PROVE  Delay - net'[q][1].age <= k
      <4>1. 1 \in 1 .. Len(net[q])
        BY <1>2, <3>1
      <4>2. /\ net[q][1].age \in Nat /\ net[q][1].age < Delay /\ Delay - net[q][1].age <= m
            /\ net'[q][1].age = older(net[q][1].age, Delay)
        BY <1>2, <1>3, <2>1, <2>2, <2>3, <3>1, <4>1, ZenonT(20)
      <4> QED
        BY <1>2, <2>4, <4>2 DEF older
    <3> QED
      BY <3>1
  <2>7. net[q] = <<>> => FrameIn(p, k)'
    <3>1. CASE net[q] = <<>> /\ taken[q]
      <4>1. m >= 4 * Delay /\ ping_sleep[p] - 1 + 4 * Delay <= m
        BY <1>2, <1>3, <2>3, <3>1
      <4>2. FrameIn(p, m - 1)'
        BY <1>10, <4>1, DueAfterTick, ZenonT(20)
      <4> QED
        BY <2>4, <4>2, ZenonT(20)
    <3>2. CASE net[q] = <<>> /\ ~taken[q]
      <4>1. FrameIn(p, m)
        BY <1>3, <2>3, <3>2, ZenonT(20)
      <4>2. FrameIn(p, m - 1)'
        BY <1>10, <3>2, <4>1, TickFrameIn, ZenonT(20)
      <4> QED
        BY <2>4, <4>2, ZenonT(20)
    <3> QED
      BY <3>1, <3>2, ZenonT(20)
  <2> QED
    BY <2>2, <2>5, <2>6, <2>7, InTimeAfter, ZenonT(20)
<1>11. ASSUME NEW r \in Peers, time_out(r) \/ crash(r)
       PROVE  FALSE
  <2>1. peer'[r] # "running"
    BY <1>11, OverEffect, ZenonT(20) DEF time_out, crash
  <2> QED
    BY <1>1, <2>1, ZenonT(20)
<1> QED
  BY <1>1, <1>4, <1>5, <1>6, <1>7, <1>8, <1>9, <1>10, <1>11, ZenonT(20) DEF Next

\* poll_next of the codec reports a timeout only of a peer that is gone.
LEMMA TimeoutIsRight ==
  ASSUME Inv, NEW p \in Peers, time_out(p)
  PROVE  peer[Other(p)] = "crashed"
<1> DEFINE q == Other(p)
<1>1. TypeInv /\ LiveIsNotTakenForDead
  BY ZenonT(20) DEF Inv
<1>2. /\ q \in Peers /\ Other(q) = p
  BY OtherPeer, ZenonT(20)
<1>3. peer[p] = "running" /\ inbound_frame_sleep[p] = 0 /\ ~arrives(q)
  BY ZenonT(20) DEF time_out, over
<1>4. peer[q] # "timed_out"
  <2>1. peer[p] # "crashed"
    BY <1>3
  <2> QED
    BY <1>1, <1>2, <2>1, ZenonT(20) DEF LiveIsNotTakenForDead
<1>5. peer[q] # "running"
  <2> SUFFICES ASSUME peer[q] = "running"
               PROVE  FALSE
    OBVIOUS
  <2>1. InTime(p)
    BY <1>3, ZenonT(20) DEF Inv
  <2>2. PICK m \in Int : m = inbound_frame_sleep[p]
    BY <1>3
  <2>3. /\ net[q] # <<>> => Delay - net[q][1].age <= m
        /\ net[q] = <<>> /\ taken[q] => m = Timeout[p]
        /\ net[q] = <<>> /\ ~taken[q] => FrameIn(p, m)
    BY <2>1, <2>2, InTimeSays, ZenonT(20)
  <2>4. /\ Delay \in Nat /\ Delay >= 1 /\ Timeout[p] \in Nat /\ Interval[p] \in Nat /\ Interval[p] >= 1
        /\ Interval[p] + 4 * Delay <= Timeout[p] + 1
        /\ \A i \in 1 .. Len(net[q]) : net[q][i].age \in Nat /\ net[q][i].age <= Delay
        /\ net[q] \in Seq(Frames)
    BY <1>1, <1>2, Measures, ZenonT(20) DEF TypeInv
  <2>5. CASE net[q] # <<>>
    <3>1. 1 \in 1 .. Len(net[q]) /\ Head(net[q]) = net[q][1]
      BY <2>4, <2>5
    <3>2. net[q][1].age \in Nat /\ net[q][1].age <= Delay
      BY <2>4, <3>1, ZenonT(20)
    <3>3. net[q][1].age = Delay
      BY <1>3, <2>2, <2>3, <2>4, <2>5, <3>2
    <3> QED
      BY <1>3, <2>5, <3>1, <3>3, ZenonT(20) DEF arrives
  <2>6. CASE net[q] = <<>> /\ taken[q]
    BY <1>3, <2>2, <2>3, <2>4, <2>6
  <2>7. CASE net[q] = <<>> /\ ~taken[q]
    <3>1. m >= Delay
      BY <1>1, <2>3, <2>7, NotAtOnce, ZenonT(20)
    <3> QED
      BY <1>3, <2>2, <2>4, <3>1
  <2> QED
    BY <2>5, <2>6, <2>7, ZenonT(20)
<1>6. peer[q] \in {"running", "crashed", "timed_out"}
  BY <1>1, <1>2 DEF TypeInv
<1> QED
  BY <1>4, <1>5, <1>6

\* The invariant holds when both connections are made.
LEMMA InvInit == Init => Inv
<1> SUFFICES ASSUME Init
             PROVE  Inv
  OBVIOUS
<1>1. TypeInv
  <2>1. /\ <<>> \in Seq(Frames) /\ Len(<<>>) = 0 /\ \A i \in 1 .. 0 : FALSE
    OBVIOUS
  <2>2. \A p \in Peers : net[p] = <<>>
    BY DEF Init
  <2>3. \A p \in Peers : Ordered(p)
    <3>1. 0 <= Cap
      BY PingsAssumption
    <3> QED
      BY <2>1, <2>2, <3>1, ZenonT(20) DEF Ordered
  <2>4. Interval \in [Peers -> Nat] /\ Timeout \in [Peers -> Nat]
    BY PingsAssumption
  <2>5. /\ now \in Nat /\ peer \in [Peers -> {"running", "crashed", "timed_out"}]
        /\ ping_sleep \in [Peers -> Nat] /\ inbound_frame_sleep \in [Peers -> Nat]
        /\ \A p \in Peers : ping_sleep[p] <= Interval[p] /\ inbound_frame_sleep[p] <= Timeout[p]
    BY <2>4 DEF Init
  <2>6. /\ owed_pong \in [Peers -> Stamps \cup {None}] /\ pending \in [Peers -> Held]
        /\ net \in [Peers -> Seq(Frames)] /\ taken \in [Peers -> BOOLEAN]
    BY <2>1 DEF Init, Held
  <2> QED
    BY <2>3, <2>5, <2>6, ZenonT(20) DEF TypeInv
<1>2. ASSUME NEW p \in Peers
      PROVE  InTime(p)
  <2>1. PICK m \in Int : m = Timeout[p]
    BY Times
  <2>2. m + 1 >= Interval[p] + 4 * Delay
    BY <2>1, Times
  <2>3. FrameIn(p, m)
    BY <1>1, <2>2, AfterFrame, ZenonT(20)
  <2>4. net[Other(p)] = <<>> /\ ~taken[Other(p)] /\ inbound_frame_sleep[p] = m
    BY <2>1, OtherPeer DEF Init
  <2> QED
    BY <2>3, <2>4, ZenonT(20) DEF InTime
<1>3. LiveIsNotTakenForDead
  BY DEF Init, LiveIsNotTakenForDead
<1> QED
  BY <1>1, <1>2, <1>3, ZenonT(20) DEF Inv

\* Every step keeps it.
LEMMA InvStep == Inv /\ [Next]_vars => Inv'
<1> SUFFICES ASSUME Inv, [Next]_vars
             PROVE  Inv'
  OBVIOUS
<1>1. TypeInv /\ LiveIsNotTakenForDead
  BY ZenonT(20) DEF Inv
<1>2. TypeInv'
  BY <1>1, TypeStep, ZenonT(20)
<1>3. ASSUME NEW r \in Peers, time_out(r) \/ crash(r)
      PROVE  /\ peer[r] = "running" /\ peer'[r] # "running"
             /\ \A s \in Peers : s # r => peer'[s] = peer[s]
             /\ peer'[r] = "timed_out" => peer[Other(r)] = "crashed"
  <2>1. CASE time_out(r)
    BY <1>1, <2>1, OverEffect, TimeoutIsRight, ZenonT(20) DEF time_out
  <2>2. CASE crash(r)
    <3>1. /\ peer[r] = "running" /\ peer'[r] = "crashed"
          /\ \A s \in Peers : s # r => peer'[s] = peer[s]
      BY <1>1, <2>2, OverEffect, ZenonT(20) DEF crash
    <3>2. "crashed" # "running" /\ "crashed" # "timed_out"
      OBVIOUS
    <3> QED
      BY <3>1, <3>2, ZenonT(20)
  <2> QED
    BY <1>3, <2>1, <2>2, ZenonT(20)
<1>4. \/ peer' = peer
      \/ \E r \in Peers : time_out(r) \/ crash(r)
  <2>1. ASSUME NEW r \in Peers, NEW update, compose(r, update)
        PROVE  peer' = peer
    BY <2>1, ZenonT(20) DEF compose
  <2>2. ASSUME NEW r \in Peers, write(r) \/ receive(r)
        PROVE  peer' = peer
    BY <2>2, ZenonT(20) DEF write, receive
  <2>3. UNCHANGED vars \/ tick => peer' = peer
    BY ZenonT(20) DEF vars, tick
  <2> QED
    BY <2>1, <2>2, <2>3, ZenonT(20) DEF Next
<1>5. \A p \in Peers : Other(p) \in Peers /\ Other(p) # p /\ Other(Other(p)) = p
                       /\ \A q \in Peers : q = p \/ q = Other(p)
  BY OtherPeer, ZenonT(20)
<1>6. \A p \in Peers : peer'[p] = "running" => peer[p] = "running"
  BY <1>3, <1>4, ZenonT(20)
<1>7. ASSUME NEW p \in Peers, peer'[p] = "running", peer'[Other(p)] = "running"
      PROVE  InTime(p)'
  <2>1. peer[p] = "running" /\ peer[Other(p)] = "running"
    BY <1>5, <1>6, <1>7, ZenonT(20)
  <2>2. InTime(p)
    BY <2>1, ZenonT(20) DEF Inv
  <2> QED
    BY <1>1, <1>7, <2>1, <2>2, InTimeStep, ZenonT(20)
<1>8. LiveIsNotTakenForDead'
  <2> SUFFICES ASSUME NEW p \in Peers, peer'[p] = "timed_out"
               PROVE  peer'[Other(p)] = "crashed"
    BY ZenonT(20) DEF LiveIsNotTakenForDead
  <2>1. CASE peer' = peer
    BY <1>1, <2>1, ZenonT(20) DEF LiveIsNotTakenForDead
  <2>2. CASE \E r \in Peers : time_out(r) \/ crash(r)
    <3>1. PICK r \in Peers : time_out(r) \/ crash(r)
      BY <2>2, ZenonT(20)
    <3>2. /\ peer[r] = "running" /\ \A s \in Peers : s # r => peer'[s] = peer[s]
          /\ peer'[r] = "timed_out" => peer[Other(r)] = "crashed"
      BY <1>3, <3>1, ZenonT(20)
    <3>3. CASE r = p
      BY <1>5, <3>2, <3>3, ZenonT(20)
    <3>4. CASE r = Other(p)
      <4>1. peer[p] = "timed_out"
        BY <1>5, <3>2, <3>4, ZenonT(20)
      <4>2. peer[r] = "crashed"
        BY <1>1, <3>4, <4>1, ZenonT(20) DEF LiveIsNotTakenForDead
      <4> QED
        BY <3>2, <4>2
    <3> QED
      BY <1>5, <3>3, <3>4, ZenonT(20)
  <2> QED
    BY <1>4, <2>1, <2>2, ZenonT(20)
<1> QED
  BY <1>2, <1>7, <1>8, ZenonT(20) DEF Inv

\* A peer that runs is not taken for dead (config.rs), for every interval and
\* timeout that leave room for four delays: a PING is due and answered before
\* the timeout, with or without data to send.
THEOREM LiveIsKept == Spec => []LiveIsNotTakenForDead
<1>1. Inv => LiveIsNotTakenForDead
  BY ZenonT(20) DEF Inv
<1> QED
  BY InvInit, InvStep, <1>1, PTL DEF Spec

-----------------------------------------------------------------------------
(* The clock wraps.                                                        *)

\* A number is a multiple of n and a rest, and there is only one such rest.
LEMMA Rest ==
  ASSUME NEW n \in Nat \ {0}, NEW a \in Int
  PROVE  a = (n * (a \div n)) + (a % n) /\ a \div n \in Int /\ a % n \in 0 .. n - 1
OBVIOUS

\* It is the only one.
LEMMA OneRest ==
  ASSUME NEW n \in Nat \ {0}, NEW k \in Int, NEW m \in Int,
         NEW r \in 0 .. n - 1, NEW s \in 0 .. n - 1, n * k + r = n * m + s
  PROVE  r = s
OBVIOUS

\* A clock that wraps before a sum shows the same as one that wraps after it
\* (wrapping_add and wrapping_sub of clock.rs).
LEMMA WrapsOnce ==
  ASSUME NEW n \in Nat \ {0}, NEW a \in Int, NEW b \in Int
  PROVE  ((a % n) + b) % n = (a + b) % n
<1> DEFINE k == a \div n
           r == a % n
           l == (a + b) \div n
           s == (a + b) % n
           m == (r + b) \div n
           t == (r + b) % n
<1>1. a = (n * k) + r /\ k \in Int /\ r \in 0 .. n - 1
  BY Rest
<1>2. a + b = (n * l) + s /\ l \in Int /\ s \in 0 .. n - 1
  BY Rest
<1>3. r \in Int
  BY <1>1
<1> HIDE DEF k, r
<1>4. r + b = (n * m) + t /\ m \in Int /\ t \in 0 .. n - 1
  BY <1>3, Rest
<1> HIDE DEF l, s, m, t
<1>5. n * l + s = n * (k + m) + t /\ k + m \in Int
  BY <1>1, <1>2, <1>4
<1>6. s = t
  BY <1>2, <1>4, <1>5, OneRest, ZenonT(20)
<1> QED
  BY <1>6, ZenonT(20) DEF r, s, t

\* At the time k, a clock that started at e shows that the stamp t is g old.
Shows(k, e, t, g, n) == (((k + e) % n) - t) % n = g % n

\* The time since a stamp grows by one with every tick, on a clock that wraps.
LEMMA TickElapsed ==
  ASSUME NEW n \in Nat \ {0}, NEW k \in Int, NEW e \in Int, NEW t \in Int, NEW g \in Int,
         Shows(k, e, t, g, n)
  PROVE  Shows((k + 1) % n, e, t, g + 1, n)
<1> DEFINE c == k + e
           d == k + 1 + e
           u == 0 - t
<1>0. /\ c \in Int /\ d \in Int /\ u \in Int /\ k + 1 \in Int /\ 1 \in Int
      /\ c + u \in Int /\ c + u + 1 = d + u
  OBVIOUS
<1>a. \A x \in Int : x - t = x + u
  OBVIOUS
<1>1. ((c % n) + u) % n = (c + u) % n
  BY <1>0, WrapsOnce, ZenonT(20)
<1>2. (((k + 1) % n) + e) % n = d % n
  BY <1>0, WrapsOnce, ZenonT(20)
<1>3. ((d % n) + u) % n = (d + u) % n
  BY <1>0, WrapsOnce, ZenonT(20)
<1>4. ((g % n) + 1) % n = (g + 1) % n
  BY <1>0, WrapsOnce, ZenonT(20)
<1>5. (((c + u) % n) + 1) % n = (c + u + 1) % n
  BY <1>0, WrapsOnce, ZenonT(20)
<1>6. (c % n) - t = (c % n) + u /\ (d % n) - t = (d % n) + u
  <2>1. c % n \in Int /\ d % n \in Int
    BY <1>0, Rest
  <2> QED
    BY <1>a, <2>1, ZenonT(20)
<1> HIDE DEF u
<1>7. (c + u) % n = g % n
  BY <1>1, <1>6, ZenonT(20) DEF Shows
<1>8. (d + u) % n = (g + 1) % n
  BY <1>0, <1>4, <1>5, <1>7, ZenonT(20)
<1> QED
  BY <1>2, <1>3, <1>6, <1>8, ZenonT(20) DEF Shows

-----------------------------------------------------------------------------
(* What the steps do to the stamps.                                        *)

\* The stamps in what a peer holds and sends.
LEMMA AnswerType ==
  ASSUME TypeInv, NEW p \in Peers
  PROVE  /\ Answer(p) \in Stamps \cup {None} /\ owed_pong[p] \in Stamps \cup {None}
         /\ Answer(p) # None => pending[p] # None /\ Answer(p) = pending[p].pong
         /\ pending[p] # None => Answer(p) = pending[p].pong
         /\ Len(net[p]) \in Nat
         /\ \A i \in 1 .. Len(net[p]) :
              /\ net[p][i] \in Frames /\ net[p][i].age \in Nat /\ net[p][i].age <= Delay
              /\ net[p][i].ping \in Stamps \cup {None} /\ net[p][i].pong \in Stamps \cup {None}
<1>1. pending[p] # None => pending[p] \in [ping : BOOLEAN, pong : Stamps \cup {None}]
  BY ZenonT(20) DEF TypeInv, Held
<1>2. pending[p] # None => pending[p].pong \in Stamps \cup {None}
  BY <1>1
<1>3. owed_pong[p] \in Stamps \cup {None} /\ net[p] \in Seq(Frames)
  BY DEF TypeInv
<1>4. Len(net[p]) \in Nat /\ \A i \in 1 .. Len(net[p]) : net[p][i] \in Frames
  BY <1>3
<1>5. None \in Stamps \cup {None}
  OBVIOUS
<1> QED
  BY <1>2, <1>3, <1>4, <1>5, FrameFields, ZenonT(20) DEF Answer

\* The codec writes a frame: its PING has the time of the first byte, its PONG
\* is the one that the frame was put together with.
LEMMA WriteStamps ==
  ASSUME TypeInv, NEW p \in Peers, write(p)
  PROVE  /\ Len(net'[p]) = Len(net[p]) + 1
         /\ \A i \in 1 .. Len(net[p]) : net'[p][i] = net[p][i]
         /\ net'[p][Len(net[p]) + 1].ping \in {None, Stamp(p)}
         /\ net'[p][Len(net[p]) + 1].pong = Answer(p)
         /\ net'[p][Len(net[p]) + 1].age = 0
         /\ Answer(p)' = None /\ \A q \in Peers : q # p => Answer(q)' = Answer(q)
<1>1. /\ pending[p] # None /\ pending'[p] = None
      /\ \A q \in Peers : q # p => pending'[q] = pending[q]
      /\ net'[p] = Append(net[p], Written(p)) /\ Written(p) \in Frames
  BY WriteEffect, ZenonT(20)
<1>2. net[p] \in Seq(Frames)
  BY DEF TypeInv
<1>3. /\ Len(net'[p]) = Len(net[p]) + 1 /\ net'[p][Len(net[p]) + 1] = Written(p)
      /\ \A i \in 1 .. Len(net[p]) : net'[p][i] = net[p][i]
  BY <1>1, <1>2
<1>4. Written(p).ping \in {None, Stamp(p)} /\ Written(p).pong = pending[p].pong /\ Written(p).age = 0
  BY DEF Written
<1> QED
  BY <1>1, <1>3, <1>4, ZenonT(20) DEF Answer

\* received_ping replaces the PONG that is owed.
LEMMA ReceiveStamps ==
  ASSUME TypeInv, NEW p \in Peers, receive(p)
  PROVE  /\ owed_pong'[p] = IF net[Other(p)][1].ping = None THEN owed_pong[p]
                            ELSE net[Other(p)][1].ping
         /\ \A q \in Peers : Answer(q)' = Answer(q)
<1>1. /\ net[Other(p)] # <<>> /\ owed_pong' = [owed_pong EXCEPT ![p] = received_ping(p, Head(net[Other(p)]))]
      /\ pending' = pending
  BY ZenonT(20) DEF receive
<1>2. net[Other(p)] \in Seq(Frames)
  BY OtherPeer DEF TypeInv
<1>3. Head(net[Other(p)]) = net[Other(p)][1]
  BY <1>1, <1>2
<1>4. owed_pong'[p] = received_ping(p, net[Other(p)][1])
  BY <1>1, <1>3 DEF TypeInv
<1> QED
  BY <1>1, <1>4, ZenonT(20) DEF received_ping, Answer

\* take_owed: the frame takes the PONG that is owed.
LEMMA ComposeStamps ==
  ASSUME TypeInv, NEW p \in Peers, NEW update, compose(p, update)
  PROVE  /\ Answer(p) = None /\ Answer(p)' = owed_pong[p] /\ owed_pong'[p] = None
         /\ \A q \in Peers : q # p => Answer(q)' = Answer(q)
<1>1. /\ pending[p] = None
      /\ pending' = [pending EXCEPT ![p] = [ping |-> due(p), pong |-> owed_pong[p]]]
      /\ owed_pong' = [owed_pong EXCEPT ![p] = None]
  BY ZenonT(20) DEF compose, take_owed
<1>2. /\ pending'[p] = [ping |-> due(p), pong |-> owed_pong[p]] /\ owed_pong'[p] = None
      /\ \A q \in Peers : q # p => pending'[q] = pending[q]
  BY <1>1 DEF TypeInv
<1>3. pending'[p] # None /\ pending'[p].pong = owed_pong[p]
  BY <1>2, ComposeEffect
<1>4. pending[p] = None
  BY <1>1
<1> QED
  BY <1>2, <1>3, <1>4, ZenonT(20) DEF Answer

\* A connection that is over answers no more.
LEMMA OverStamps ==
  ASSUME TypeInv, NEW p \in Peers, NEW why, over(p, why)
  PROVE  /\ Answer(p)' = None /\ owed_pong'[p] = None
         /\ \A q \in Peers : q # p => Answer(q)' = Answer(q) /\ owed_pong'[q] = owed_pong[q]
                                      /\ pending'[q] = pending[q]
         /\ UNCHANGED <<now, net, taken>>
<1>1. /\ owed_pong' = [owed_pong EXCEPT ![p] = None] /\ pending' = [pending EXCEPT ![p] = None]
      /\ UNCHANGED <<now, net, taken>>
  BY ZenonT(20) DEF over
<1>2. /\ owed_pong'[p] = None /\ pending'[p] = None
      /\ \A q \in Peers : q # p => owed_pong'[q] = owed_pong[q] /\ pending'[q] = pending[q]
  BY <1>1 DEF TypeInv
<1>3. UNCHANGED <<now, net, taken>>
  BY <1>1
<1> QED
  BY <1>2, <1>3, ZenonT(20) DEF Answer

\* Time passes, and every stamp gets older.
LEMMA TickStamps ==
  ASSUME TypeInv, tick
  PROVE  /\ now' = (now + 1) % ClockRange
         /\ \A p \in Peers : /\ owed_pong'[p] = aged(owed_pong[p])
                             /\ Answer(p)' = aged(Answer(p))
                             /\ \A i \in 1 .. Len(net[p]) :
                                  /\ net'[p][i].ping = aged(net[p][i].ping)
                                  /\ net'[p][i].pong = aged(net[p][i].pong)
<1>1. /\ now' = (now + 1) % ClockRange
      /\ owed_pong' = [p \in Peers |-> aged(owed_pong[p])]
      /\ pending' = [p \in Peers |-> IF pending[p] = None THEN None
                                     ELSE [pending[p] EXCEPT !.pong = aged(pending[p].pong)]]
      /\ net' = [p \in Peers |-> [i \in DOMAIN net[p] |-> olderFrame(net[p][i])]]
  BY ZenonT(20) DEF tick, olderFrame
<1>2. ASSUME NEW p \in Peers
      PROVE  Answer(p)' = aged(Answer(p))
  <2>1. CASE pending[p] = None
    BY <1>1, <2>1, ZenonT(20) DEF Answer, aged
  <2>2. CASE pending[p] # None
    <3>1. pending[p] \in [ping : BOOLEAN, pong : Stamps \cup {None}] /\ pending'[p] # None
      BY <2>2, TickEffect, ZenonT(20) DEF TypeInv, Held
    <3>2. pending'[p] = [pending[p] EXCEPT !.pong = aged(pending[p].pong)]
      BY <1>1, <2>2
    <3>3. pending'[p].pong = aged(pending[p].pong)
      BY <3>1, <3>2
    <3> QED
      BY <2>2, <3>1, <3>3, ZenonT(20) DEF Answer
  <2> QED
    BY <2>1, <2>2
<1>3. ASSUME NEW p \in Peers, NEW i \in 1 .. Len(net[p])
      PROVE  net'[p][i].ping = aged(net[p][i].ping) /\ net'[p][i].pong = aged(net[p][i].pong)
  <2>1. net[p] \in Seq(Frames)
    BY DEF TypeInv
  <2>2. i \in DOMAIN net[p]
    BY <2>1
  <2>3. net'[p][i] = olderFrame(net[p][i])
    BY <1>1, <2>2, ZenonT(20)
  <2> QED
    BY <2>3 DEF olderFrame
<1>4. \A p \in Peers : owed_pong'[p] = aged(owed_pong[p])
  BY <1>1
<1> QED
  BY <1>1, <1>2, <1>3, <1>4, ZenonT(20)

-----------------------------------------------------------------------------
(* A stamp of `q' is in a PING on its way from it, or in the answer to one. *)

Of(q, s) ==
  /\ s # None
  /\ \/ \E i \in 1 .. Len(net[q]) : s = net[q][i].ping
     \/ s = owed_pong[Other(q)]
     \/ s = Answer(Other(q))
     \/ \E i \in 1 .. Len(net[Other(q)]) : s = net[Other(q)][i].pong

\* The clock of `q' shows the age of the stamp; and a stamp is made only when
\* the transport takes a frame.
Right(q, s) ==
  /\ s.age < MaxAge => (micros(q) - s.t) % ClockRange = s.age % ClockRange
  /\ s.age = 0 => taken[q]

TimeInv == \A q \in Peers : \A s \in Stamps : Of(q, s) => Right(q, s)

\* The steps of a peer, that take no time.
Steps(p) ==
  \/ \E update : compose(p, update)
  \/ write(p)
  \/ receive(p)
  \/ \E why \in {"crashed", "timed_out"} : over(p, why)

\* Stamps are made by writing a PING, and otherwise only passed on.
LEMMA Origin ==
  ASSUME TypeInv, NEW q \in Peers, NEW p \in Peers, NEW s, Of(q, s)',
         Steps(p)
  PROVE  Of(q, s) \/ (s = Stamp(q) /\ taken'[q])
<1>1. Other(q) \in Peers /\ Other(q) # q /\ Other(Other(q)) = q /\ (p = q \/ p = Other(q))
  BY OtherPeer, ZenonT(20)
<1>2. ASSUME NEW update, compose(p, update)
      PROVE  Of(q, s)
  <2>1. /\ net' = net /\ \A r \in Peers : r # p => owed_pong'[r] = owed_pong[r]
    BY <1>2, ComposeEffect, ZenonT(20)
  <2>2. /\ Answer(p)' = owed_pong[p] /\ owed_pong'[p] = None
        /\ \A r \in Peers : r # p => Answer(r)' = Answer(r)
    BY <1>2, ComposeStamps, ZenonT(20)
  <2>3. CASE p = q
    BY <1>1, <2>1, <2>2, <2>3, ZenonT(20) DEF Of
  <2>4. CASE p = Other(q)
    BY <1>1, <2>1, <2>2, <2>4, ZenonT(20) DEF Of
  <2> QED
    BY <1>1, <2>3, <2>4, ZenonT(20)
<1>3. ASSUME write(p)
      PROVE  Of(q, s) \/ (s = Stamp(q) /\ taken'[q])
  <2>1. /\ \A r \in Peers : r # p => net'[r] = net[r]
        /\ owed_pong' = owed_pong /\ taken'[p]
    BY <1>3, WriteEffect, ZenonT(20)
  <2>2. /\ Len(net'[p]) = Len(net[p]) + 1
        /\ \A i \in 1 .. Len(net[p]) : net'[p][i] = net[p][i]
        /\ net'[p][Len(net[p]) + 1].ping \in {None, Stamp(p)}
        /\ net'[p][Len(net[p]) + 1].pong = Answer(p)
        /\ Answer(p)' = None /\ \A r \in Peers : r # p => Answer(r)' = Answer(r)
    BY <1>3, WriteStamps, ZenonT(20)
  <2>3. \A i \in 1 .. Len(net'[p]) : i \in 1 .. Len(net[p]) \/ i = Len(net[p]) + 1
    BY <2>2, AnswerType
  <2>4. CASE p = q
    BY <1>1, <2>1, <2>2, <2>3, <2>4, ZenonT(20) DEF Of
  <2>5. CASE p = Other(q)
    BY <1>1, <2>1, <2>2, <2>3, <2>5, ZenonT(20) DEF Of
  <2> QED
    BY <1>1, <2>4, <2>5, ZenonT(20)
<1>4. ASSUME receive(p)
      PROVE  Of(q, s)
  <2>1. /\ net'[p] = net[p] /\ Len(net'[Other(p)]) = Len(net[Other(p)]) - 1
        /\ Len(net[Other(p)]) >= 1
        /\ \A i \in 1 .. Len(net'[Other(p)]) : net'[Other(p)][i] = net[Other(p)][i + 1]
        /\ owed_pong'[Other(p)] = owed_pong[Other(p)]
    BY <1>4, ReceiveEffect, ZenonT(20)
  <2>2. /\ owed_pong'[p] = IF net[Other(p)][1].ping = None THEN owed_pong[p]
                           ELSE net[Other(p)][1].ping
        /\ \A r \in Peers : Answer(r)' = Answer(r)
    BY <1>4, ReceiveStamps, ZenonT(20)
  <2>3. /\ 1 \in 1 .. Len(net[Other(p)])
        /\ \A i \in 1 .. Len(net'[Other(p)]) : i + 1 \in 1 .. Len(net[Other(p)])
    <3>1. Len(net[Other(p)]) \in Nat
      BY OtherPeer, AnswerType, ZenonT(20)
    <3> QED
      BY <2>1, <3>1
  <2>4. CASE p = q
    BY <1>1, <2>1, <2>2, <2>3, <2>4, ZenonT(20) DEF Of
  <2>5. CASE p = Other(q)
    <3>1. Other(p) = q
      BY <1>1, <2>5, ZenonT(20)
    <3>2. CASE \E i \in 1 .. Len(net'[q]) : s = net'[q][i].ping
      BY <2>1, <2>3, <3>1, <3>2, ZenonT(20) DEF Of
    <3>3. CASE s = owed_pong'[p]
      BY <2>2, <2>3, <2>5, <3>1, <3>3, ZenonT(20) DEF Of
    <3>4. CASE s = Answer(p)'
      BY <2>2, <2>5, <3>4, ZenonT(20) DEF Of
    <3>5. CASE \E i \in 1 .. Len(net'[p]) : s = net'[p][i].pong
      BY <2>1, <2>5, <3>5, ZenonT(20) DEF Of
    <3> QED
      BY <2>5, <3>2, <3>3, <3>4, <3>5, ZenonT(20) DEF Of
  <2> QED
    BY <1>1, <2>4, <2>5, ZenonT(20)
<1>5. ASSUME NEW why \in {"crashed", "timed_out"}, over(p, why)
      PROVE  Of(q, s)
  <2>1. /\ Answer(p)' = None /\ owed_pong'[p] = None /\ net' = net
        /\ \A r \in Peers : r # p => Answer(r)' = Answer(r) /\ owed_pong'[r] = owed_pong[r]
    BY <1>5, OverStamps, ZenonT(20)
  <2>2. CASE p = q
    BY <1>1, <2>1, <2>2, ZenonT(20) DEF Of
  <2>3. CASE p = Other(q)
    BY <1>1, <2>1, <2>3, ZenonT(20) DEF Of
  <2> QED
    BY <1>1, <2>2, <2>3, ZenonT(20)
<1> QED
  BY <1>2, <1>3, <1>4, <1>5, ZenonT(20) DEF Steps

\* A tick makes them older.
LEMMA OriginTick ==
  ASSUME TypeInv, tick, NEW q \in Peers, NEW s, Of(q, s)'
  PROVE  \E r \in Stamps : Of(q, r) /\ s = aged(r)
<1>0. s # None
  BY ZenonT(20) DEF Of
<1>1. Other(q) \in Peers
  BY OtherPeer, ZenonT(20)
<1>2. aged(None) = None
  BY ZenonT(20) DEF aged
<1>3. \A r : Of(q, r) => r \in Stamps
  <2>1. PICK p \in Peers : p = Other(q)
    BY <1>1, ZenonT(20)
  <2>2. /\ owed_pong[p] \in Stamps \cup {None} /\ Answer(p) \in Stamps \cup {None}
        /\ \A i \in 1 .. Len(net[q]) : net[q][i].ping \in Stamps \cup {None}
        /\ \A i \in 1 .. Len(net[p]) : net[p][i].pong \in Stamps \cup {None}
    BY AnswerType, ZenonT(20)
  <2>3. \A r : Of(q, r) => r # None /\ r \in Stamps \cup {None}
    BY <2>1, <2>2, ZenonT(20) DEF Of
  <2> QED
    BY <2>3, ZenonT(20)
<1>4. \A p \in Peers : Len(net'[p]) = Len(net[p])
  BY TickEffect, ZenonT(20)
<1>5. \A p \in Peers : /\ owed_pong'[p] = aged(owed_pong[p])
                       /\ Answer(p)' = aged(Answer(p))
                       /\ \A i \in 1 .. Len(net[p]) :
                            /\ net'[p][i].ping = aged(net[p][i].ping)
                            /\ net'[p][i].pong = aged(net[p][i].pong)
  BY TickStamps, ZenonT(20)
<1>6. \E r : Of(q, r) /\ s = aged(r)
  <2>1. CASE \E i \in 1 .. Len(net'[q]) : s = net'[q][i].ping
    <3>1. PICK i \in 1 .. Len(net[q]) : s = aged(net[q][i].ping)
      BY <1>4, <1>5, <2>1, ZenonT(20)
    <3>2. net[q][i].ping # None
      BY <1>0, <1>2, <3>1, ZenonT(20)
    <3> QED
      BY <3>1, <3>2, ZenonT(20) DEF Of
  <2>2. CASE s = owed_pong'[Other(q)]
    BY <1>1, <1>2, <1>5, <2>2, ZenonT(20) DEF Of
  <2>3. CASE s = Answer(Other(q))'
    BY <1>1, <1>2, <1>5, <2>3, ZenonT(20) DEF Of
  <2>4. CASE \E i \in 1 .. Len(net'[Other(q)]) : s = net'[Other(q)][i].pong
    <3>1. PICK i \in 1 .. Len(net[Other(q)]) : s = aged(net[Other(q)][i].pong)
      BY <1>1, <1>4, <1>5, <2>4, ZenonT(20)
    <3>2. net[Other(q)][i].pong # None
      BY <1>0, <1>2, <3>1, ZenonT(20)
    <3> QED
      BY <3>1, <3>2, ZenonT(20) DEF Of
  <2> QED
    BY <2>1, <2>2, <2>3, <2>4, ZenonT(20) DEF Of
<1> QED
  BY <1>3, <1>6, ZenonT(20)

\* A stamp that gets older keeps its time.
LEMMA AgedStamp ==
  ASSUME NEW r \in Stamps
  PROVE  /\ aged(r) \in Stamps /\ aged(r) # None /\ aged(r).t = r.t
         /\ r.age \in Nat /\ aged(r).age \in Nat /\ aged(r).age # 0
         /\ r.age < MaxAge => aged(r).age = r.age + 1
         /\ aged(r).age < MaxAge => r.age < MaxAge
         /\ aged(r).age <= r.age + 1
<1>1. MaxAge \in Nat /\ MaxAge # 0 /\ r # None /\ r.age \in Nat /\ r.t \in Nat
  BY PingsAssumption, NotNone DEF Stamps
<1>2. aged(r) = [r EXCEPT !.age = older(r.age, MaxAge)]
  BY <1>1 DEF aged
<1>3. /\ aged(r).age = older(r.age, MaxAge) /\ aged(r).t = r.t
  BY <1>2 DEF Stamps
<1>4. /\ older(r.age, MaxAge) \in Nat /\ older(r.age, MaxAge) # 0
      /\ r.age < MaxAge => older(r.age, MaxAge) = r.age + 1
      /\ older(r.age, MaxAge) < MaxAge => r.age < MaxAge
      /\ older(r.age, MaxAge) <= r.age + 1
  BY <1>1 DEF older
<1>5. aged(r) \in Stamps
  BY <1>1, <1>2, <1>4 DEF Stamps
<1> QED
  BY <1>1, <1>3, <1>4, <1>5, NotNone, ZenonT(20)

\* A step is a tick, or a step of a peer.
LEMMA StepCases ==
  ASSUME [Next]_vars
  PROVE  UNCHANGED vars \/ tick \/ \E p \in Peers : Steps(p)
<1>1. ASSUME NEW p \in Peers, time_out(p) \/ crash(p)
      PROVE  \E why \in {"crashed", "timed_out"} : over(p, why)
  BY <1>1, ZenonT(20) DEF time_out, crash
<1> QED
  BY <1>1, ZenonT(20) DEF Next, Steps

\* Only a tick moves the clock, and lets the transport take a frame again.
LEMMA StepsTime ==
  ASSUME TypeInv, NEW p \in Peers, Steps(p)
  PROVE  now' = now /\ \A q \in Peers : taken[q] => taken'[q]
<1>1. ASSUME write(p)
      PROVE  now' = now /\ \A q \in Peers : taken[q] => taken'[q]
  BY <1>1, WriteEffect, ZenonT(20)
<1>2. ASSUME receive(p)
      PROVE  now' = now /\ \A q \in Peers : taken[q] => taken'[q]
  BY <1>2, ReceiveEffect, ZenonT(20)
<1>3. ASSUME NEW update, compose(p, update)
      PROVE  now' = now /\ \A q \in Peers : taken[q] => taken'[q]
  BY <1>3, ComposeEffect, ZenonT(20)
<1>4. ASSUME NEW why, over(p, why)
      PROVE  now' = now /\ \A q \in Peers : taken[q] => taken'[q]
  BY <1>4, OverStamps, ZenonT(20)
<1> QED
  BY <1>1, <1>2, <1>3, <1>4, ZenonT(20) DEF Steps

\* Every step keeps the stamps right.
LEMMA TimeStep ==
  ASSUME TypeInv, TimeInv, [Next]_vars
  PROVE  TimeInv'
<1> SUFFICES ASSUME NEW q \in Peers, NEW s \in Stamps, Of(q, s)'
             PROVE  Right(q, s)'
  BY ZenonT(20) DEF TimeInv
<1>1. /\ s.age \in Nat /\ s.t \in Nat /\ s # None
  BY NotNone DEF Stamps
<1>2. /\ now \in Nat /\ Epoch[q] \in Nat /\ ClockRange \in Nat \ {0} /\ MaxAge \in Nat
  BY PingsAssumption DEF TypeInv
<1>3. CASE UNCHANGED vars
  <2>1. now' = now /\ net' = net /\ owed_pong' = owed_pong /\ pending' = pending /\ taken' = taken
    BY <1>3, ZenonT(20) DEF vars
  <2>2. Of(q, s) /\ micros(q)' = micros(q)
    BY <2>1, ZenonT(20) DEF Of, micros, Answer
  <2>3. Right(q, s)
    BY <2>2, ZenonT(20) DEF TimeInv
  <2> QED
    BY <2>1, <2>2, <2>3, ZenonT(20) DEF Right
<1>4. ASSUME NEW p \in Peers, Steps(p)
      PROVE  Right(q, s)'
  <2>1. now' = now /\ (taken[q] => taken'[q])
    BY <1>4, StepsTime, ZenonT(20)
  <2>2. micros(q)' = micros(q)
    BY <2>1, ZenonT(20) DEF micros
  <2>3. Of(q, s) \/ (s = Stamp(q) /\ taken'[q])
    BY <1>4, Origin, ZenonT(20)
  <2>4. CASE Of(q, s)
    <3>1. Right(q, s)
      BY <2>4, ZenonT(20) DEF TimeInv
    <3> QED
      BY <2>1, <2>2, <3>1, ZenonT(20) DEF Right
  <2>5. CASE s = Stamp(q) /\ taken'[q]
    <3>1. s.t = micros(q) /\ s.age = 0
      BY <2>5 DEF Stamp
    <3>2. micros(q) \in Int
      BY <1>2 DEF micros
    <3>3. micros(q) - micros(q) = 0
      BY <3>2
    <3> QED
      BY <2>2, <2>5, <3>1, <3>3, ZenonT(20) DEF Right
  <2> QED
    BY <2>3, <2>4, <2>5, ZenonT(20)
<1>5. ASSUME tick
      PROVE  Right(q, s)'
  <2>1. PICK r \in Stamps : Of(q, r) /\ s = aged(r)
    BY <1>5, OriginTick, ZenonT(20)
  <2>2. /\ s.t = r.t /\ r.age \in Nat /\ s.age # 0
        /\ r.age < MaxAge => s.age = r.age + 1
        /\ s.age < MaxAge => r.age < MaxAge
    BY <2>1, AgedStamp, ZenonT(20)
  <2>3. r.age < MaxAge => (micros(q) - r.t) % ClockRange = r.age % ClockRange
    BY <2>1, ZenonT(20) DEF TimeInv, Right
  <2>4. now' = (now + 1) % ClockRange
    BY <1>5, TickStamps, ZenonT(20)
  <2>5. ASSUME s.age < MaxAge
        PROVE  (micros(q)' - s.t) % ClockRange = s.age % ClockRange
    <3>1. /\ now \in Int /\ Epoch[q] \in Int /\ r.t \in Int /\ r.age \in Int
      BY <1>1, <1>2, <2>2
    <3>2. Shows(now, Epoch[q], r.t, r.age, ClockRange)
      BY <2>2, <2>3, <2>5, ZenonT(20) DEF micros, Shows
    <3>3. Shows(now', Epoch[q], r.t, r.age + 1, ClockRange)
      BY <1>2, <2>4, <3>1, <3>2, TickElapsed, ZenonT(20)
    <3> QED
      BY <2>2, <2>5, <3>3, ZenonT(20) DEF micros, Shows
  <2> QED
    BY <2>2, <2>5, ZenonT(20) DEF Right
<1> QED
  BY <1>3, <1>4, <1>5, StepCases, ZenonT(20)

-----------------------------------------------------------------------------
(* How old the stamps may be that `p' answers: a delay on the way to it, a *)
(* delay until the codec is free, one more until there is room, and one on *)
(* the way back.                                                           *)

YoungPing(p) ==
  peer[p] = "running" =>
    \A i \in 1 .. Len(net[Other(p)]) :
      net[Other(p)][i].ping # None => net[Other(p)][i].ping.age = net[Other(p)][i].age

YoungHeld(p) ==
  peer[p] = "running" /\ peer[Other(p)] = "running" =>
    /\ owed_pong[p] # None =>
         /\ owed_pong[p].age <= 2 * Delay
         /\ pending[p] # None => RoomIn(p, 2 * Delay - owed_pong[p].age)
    /\ Answer(p) # None => RoomIn(p, 3 * Delay - Answer(p).age)

YoungPong(p) ==
  peer[Other(p)] = "running" =>
    \A i \in 1 .. Len(net[p]) :
      net[p][i].pong # None => net[p][i].pong.age <= 3 * Delay + net[p][i].age

Young(p) == YoungPing(p) /\ YoungHeld(p) /\ YoungPong(p)

\* Four delays are less than the range of the clock.
LEMMA SampleTimes ==
  /\ Delay \in Nat /\ Delay >= 1 /\ MaxAge \in Nat /\ ClockRange \in Nat \ {0}
  /\ 4 * Delay < MaxAge /\ 4 * Delay < ClockRange
BY PingsAssumption, TimingAssumption

\* The ages are numbers.
LEMMA AgeType ==
  ASSUME NEW s \in Stamps \cup {None}, s # None
  PROVE  s \in Stamps /\ s.age \in Nat
BY DEF Stamps

\* Room stays when nothing is written, and the transport is not filled.
LEMMA RoomKept ==
  ASSUME NEW p \in Peers, NEW n, RoomIn(p, n), taken'[p] = taken[p],
         net'[p] = net[p] \/ (Len(net'[p]) # Cap)
  PROVE  RoomIn(p, n)'
<1>1. CASE net'[p] = net[p]
  BY <1>1, ZenonT(20) DEF RoomIn
<1>2. CASE Len(net'[p]) # Cap
  BY <1>2, ZenonT(20) DEF RoomIn
<1> QED
  BY <1>1, <1>2

\* compose takes the PONG that is owed when the codec is free.
LEMMA YoungCompose ==
  ASSUME TypeInv, NEW p \in Peers, NEW r \in Peers, NEW update, compose(r, update), Young(p)
  PROVE  Young(p)'
<1> DEFINE q == Other(p)
<1>1. q \in Peers /\ q # p /\ (r = p \/ r = q)
  BY OtherPeer, ZenonT(20)
<1>2. /\ peer' = peer /\ net' = net /\ taken' = taken /\ pending[r] = None
      /\ \A x \in Peers : x # r => owed_pong'[x] = owed_pong[x] /\ pending'[x] = pending[x]
  BY ComposeEffect, ZenonT(20)
<1>3. /\ Answer(r)' = owed_pong[r] /\ owed_pong'[r] = None
      /\ \A x \in Peers : x # r => Answer(x)' = Answer(x)
  BY ComposeStamps, ZenonT(20)
<1>4. \A n : RoomIn(p, n)' <=> RoomIn(p, n)
  BY <1>2, ZenonT(20) DEF RoomIn
<1> HIDE DEF q
<1>5. ASSUME r = p
      PROVE  YoungHeld(p)'
  <2>1. ASSUME peer[p] = "running", peer[q] = "running", owed_pong[p] # None
        PROVE  RoomIn(p, 3 * Delay - owed_pong[p].age)
    <3>1. owed_pong[p].age <= 2 * Delay
      BY <2>1, ZenonT(20) DEF Young, YoungHeld, q
    <3>2. owed_pong[p].age \in Nat
      BY <2>1, AnswerType, AgeType, ZenonT(20)
    <3>3. 3 * Delay - owed_pong[p].age \in Int /\ 3 * Delay - owed_pong[p].age >= Delay
      BY <3>1, <3>2, SampleTimes
    <3> QED
      BY <3>3, RoomWithinDelay, ZenonT(20)
  <2> QED
    BY <1>2, <1>3, <1>4, <1>5, <2>1, ZenonT(20) DEF YoungHeld, q
<1>6. ASSUME r = q
      PROVE  YoungHeld(p)'
  BY <1>1, <1>2, <1>3, <1>4, <1>6, ZenonT(20) DEF Young, YoungHeld, q
<1>7. YoungPing(p)' /\ YoungPong(p)'
  BY <1>2, ZenonT(20) DEF Young, YoungPing, YoungPong
<1> QED
  BY <1>1, <1>5, <1>6, <1>7, ZenonT(20) DEF Young

\* write finds room no later than Young says.
LEMMA YoungWrite ==
  ASSUME TypeInv, NEW p \in Peers, NEW r \in Peers, write(r), Young(p)
  PROVE  Young(p)'
<1> DEFINE q == Other(p)
           k == Len(net[r]) + 1
<1>1. q \in Peers /\ q # p /\ (r = p \/ r = q)
  BY OtherPeer, ZenonT(20)
<1>2. /\ peer' = peer /\ owed_pong' = owed_pong /\ pending'[r] = None
      /\ \A x \in Peers : x # r => /\ net'[x] = net[x] /\ taken'[x] = taken[x]
                                   /\ pending'[x] = pending[x]
  BY WriteEffect, ZenonT(20)
<1>3. /\ Len(net'[r]) = k
      /\ \A i \in 1 .. Len(net[r]) : net'[r][i] = net[r][i]
      /\ net'[r][k].ping \in {None, Stamp(r)} /\ net'[r][k].pong = Answer(r)
      /\ net'[r][k].age = 0
      /\ Answer(r)' = None /\ \A x \in Peers : x # r => Answer(x)' = Answer(x)
  BY WriteStamps, ZenonT(20)
<1>4. Len(net[r]) \in Nat /\ peer[r] = "running" /\ Stamp(r).age = 0
  BY AnswerType DEF write, Stamp
<1>5. \A i \in 1 .. Len(net'[r]) : i \in 1 .. Len(net[r]) \/ i = k
  BY <1>3, <1>4
<1> HIDE DEF q, k
<1>6. CASE r = p
  <2>1. ASSUME peer[q] = "running", Answer(p) # None
        PROVE  Answer(p).age <= 3 * Delay + 0
    <3>1. RoomIn(p, 3 * Delay - Answer(p).age)
      BY <1>4, <1>6, <2>1, ZenonT(20) DEF Young, YoungHeld, q
    <3>2. 3 * Delay - Answer(p).age >= 0
      BY <3>1, ZenonT(20) DEF RoomIn
    <3>3. Answer(p).age \in Nat
      BY <2>1, AnswerType, AgeType, ZenonT(20)
    <3> QED
      BY <3>2, <3>3, SampleTimes
  <2>2. ASSUME peer[q] = "running", NEW i \in 1 .. Len(net'[p]), net'[p][i].pong # None
        PROVE  net'[p][i].pong.age <= 3 * Delay + net'[p][i].age
    <3>1. CASE i \in 1 .. Len(net[p])
      BY <1>3, <1>6, <2>2, <3>1, ZenonT(20) DEF Young, YoungPong, q
    <3>2. CASE i = k
      BY <1>3, <1>6, <2>1, <2>2, <3>2, ZenonT(20)
    <3> QED
      BY <1>5, <1>6, <3>1, <3>2, ZenonT(20)
  <2>3. YoungPong(p)'
    BY <1>2, <2>2, ZenonT(20) DEF YoungPong, q
  <2>4. YoungPing(p)'
    BY <1>1, <1>2, <1>6, ZenonT(20) DEF Young, YoungPing, q
  <2>5. YoungHeld(p)'
    BY <1>2, <1>3, <1>6, ZenonT(20) DEF Young, YoungHeld, q
  <2> QED
    BY <2>3, <2>4, <2>5, ZenonT(20) DEF Young
<1>7. CASE r = q
  <2>1. ASSUME peer[p] = "running", NEW i \in 1 .. Len(net'[q]), net'[q][i].ping # None
        PROVE  net'[q][i].ping.age = net'[q][i].age
    <3>1. CASE i \in 1 .. Len(net[q])
      BY <1>3, <1>7, <2>1, <3>1, ZenonT(20) DEF Young, YoungPing, q
    <3>2. CASE i = k
      BY <1>3, <1>4, <1>7, <2>1, <3>2, ZenonT(20)
    <3> QED
      BY <1>5, <1>7, <3>1, <3>2, ZenonT(20)
  <2>2. \A n : RoomIn(p, n)' <=> RoomIn(p, n)
    BY <1>1, <1>2, <1>7, ZenonT(20) DEF RoomIn
  <2>3. YoungPing(p)'
    BY <1>2, <2>1, ZenonT(20) DEF YoungPing, q
  <2>4. YoungPong(p)'
    BY <1>1, <1>2, <1>7, ZenonT(20) DEF Young, YoungPong, q
  <2>5. YoungHeld(p)'
    BY <1>1, <1>2, <1>3, <1>7, <2>2, ZenonT(20) DEF Young, YoungHeld, q
  <2> QED
    BY <2>3, <2>4, <2>5, ZenonT(20) DEF Young
<1> QED
  BY <1>1, <1>6, <1>7

\* A PING that is received is answered instead of the one before it.
LEMMA YoungReceive ==
  ASSUME TypeInv, NEW p \in Peers, NEW r \in Peers, receive(r), Young(p)
  PROVE  Young(p)'
<1> DEFINE q == Other(p)
           o == Other(r)
<1>1. q \in Peers /\ q # p /\ Other(q) = p /\ (r = p \/ r = q)
  BY OtherPeer, ZenonT(20)
<1>2. /\ peer' = peer /\ pending' = pending /\ taken' = taken
      /\ net'[r] = net[r] /\ Len(net[o]) >= 1 /\ Len(net'[o]) = Len(net[o]) - 1
      /\ \A i \in 1 .. Len(net'[o]) : net'[o][i] = net[o][i + 1]
      /\ owed_pong'[o] = owed_pong[o]
  BY ReceiveEffect, ZenonT(20)
<1>3. /\ owed_pong'[r] = IF net[o][1].ping = None THEN owed_pong[r] ELSE net[o][1].ping
      /\ \A x \in Peers : Answer(x)' = Answer(x)
  BY ReceiveStamps, ZenonT(20)
<1>4. /\ o \in Peers /\ Len(net[o]) \in Nat /\ Len(net[o]) <= Cap /\ Cap \in Nat
      /\ \A i \in 1 .. Len(net[o]) : net[o][i].age \in Nat /\ net[o][i].age <= Delay
  BY OtherPeer, Measures, ZenonT(20)
<1>5. /\ 1 \in 1 .. Len(net[o]) /\ Len(net'[o]) # Cap
      /\ \A i \in 1 .. Len(net'[o]) : i + 1 \in 1 .. Len(net[o])
  BY <1>2, <1>4
<1>6. \A n : RoomIn(p, n) => RoomIn(p, n)'
  <2>1. net'[p] = net[p] \/ Len(net'[p]) # Cap
    BY <1>1, <1>2, <1>5, ZenonT(20)
  <2> QED
    BY <1>2, <2>1, RoomKept, ZenonT(20)
<1> HIDE DEF q, o
<1>7. CASE r = p
  <2>0. o = q
    BY <1>7 DEF o, q
  <2>1. YoungPing(p)'
    BY <1>2, <1>5, <2>0, ZenonT(20) DEF Young, YoungPing, q
  <2>2. YoungPong(p)'
    BY <1>2, <1>7, ZenonT(20) DEF Young, YoungPong
  <2>3. ASSUME net[o][1].ping = None
        PROVE  YoungHeld(p)'
    BY <1>2, <1>3, <1>6, <1>7, <2>3, ZenonT(20) DEF Young, YoungHeld
  <2>4. ASSUME net[o][1].ping # None
        PROVE  YoungHeld(p)'
    <3>1. owed_pong'[p] = net[o][1].ping
      BY <1>3, <1>7, <2>4, ZenonT(20)
    <3>2. peer[p] = "running" => net[o][1].ping.age = net[o][1].age
      BY <1>5, <2>0, <2>4, ZenonT(20) DEF Young, YoungPing, q
    <3>3. net[o][1].age \in Nat /\ net[o][1].age <= Delay
      BY <1>4, <1>5, ZenonT(20)
    <3>4. PICK m \in Int : m = 2 * Delay - net[o][1].age
      BY <3>3, SampleTimes
    <3>5. net[o][1].age <= 2 * Delay /\ m >= Delay
      BY <3>3, <3>4, SampleTimes
    <3>6. RoomIn(p, m)'
      BY <1>6, <3>5, RoomWithinDelay, ZenonT(20)
    <3>7. peer'[p] = "running" => /\ owed_pong'[p].age <= 2 * Delay
                                  /\ RoomIn(p, 2 * Delay - owed_pong[p].age)'
      BY <1>2, <3>1, <3>2, <3>4, <3>5, <3>6, ZenonT(20)
    <3> QED
      BY <1>2, <1>3, <1>6, <3>7, ZenonT(20) DEF Young, YoungHeld
  <2>5. YoungHeld(p)'
    BY <2>3, <2>4, ZenonT(20)
  <2> QED
    BY <2>1, <2>2, <2>5, ZenonT(20) DEF Young
<1>8. CASE r = q
  <2>0. o = p
    BY <1>1, <1>8 DEF o
  <2>1. YoungPing(p)'
    BY <1>2, <1>8, ZenonT(20) DEF Young, YoungPing, q
  <2>2. YoungPong(p)'
    BY <1>2, <1>5, <2>0, ZenonT(20) DEF Young, YoungPong
  <2>3. YoungHeld(p)'
    BY <1>2, <1>3, <1>6, <2>0, ZenonT(20) DEF Young, YoungHeld
  <2> QED
    BY <2>1, <2>2, <2>3, ZenonT(20) DEF Young
<1> QED
  BY <1>1, <1>7, <1>8

\* A peer that is gone has nothing to answer.
LEMMA YoungOver ==
  ASSUME TypeInv, NEW p \in Peers, NEW r \in Peers,
         NEW why \in {"crashed", "timed_out"}, over(r, why), Young(p)
  PROVE  Young(p)'
<1> DEFINE q == Other(p)
<1>1. q \in Peers /\ q # p /\ (r = p \/ r = q)
  BY OtherPeer, ZenonT(20)
<1>2. peer'[r] # "running" /\ \A x \in Peers : x # r => peer'[x] = peer[x]
  BY OverEffect
<1>3. net' = net
  BY OverStamps, ZenonT(20)
<1> HIDE DEF q
<1>4. YoungHeld(p)'
  BY <1>1, <1>2, ZenonT(20) DEF YoungHeld, q
<1>5. YoungPing(p)'
  BY <1>1, <1>2, <1>3, ZenonT(20) DEF Young, YoungPing, q
<1>6. YoungPong(p)'
  BY <1>1, <1>2, <1>3, ZenonT(20) DEF Young, YoungPong, q
<1> QED
  BY <1>4, <1>5, <1>6, ZenonT(20) DEF Young

\* The frames on their way to a peer that runs are a tick older, and not late.
LEMMA FramesAfterTick ==
  ASSUME TypeInv, tick, NEW p \in Peers, peer[Other(p)] = "running", NEW i \in 1 .. Len(net[p])
  PROVE  net[p][i].age \in Nat /\ net[p][i].age < Delay /\ net'[p][i].age = net[p][i].age + 1
<1>1. Other(p) \in Peers /\ Other(Other(p)) = p
  BY OtherPeer, ZenonT(20)
<1>2. /\ Len(net[p]) \in Nat /\ net[p][i].age \in Nat /\ net[p][i].age <= net[p][1].age
      /\ net[p] = <<>> <=> Len(net[p]) = 0
  BY Measures, ZenonT(20)
<1>3. net[p] # <<>> => net[p][1].age < Delay
  BY <1>1, Waiting, ZenonT(20)
<1>4. 1 \in 1 .. Len(net[p]) /\ net[p] # <<>>
  BY <1>2
<1>5. net[p][1].age \in Nat
  BY <1>4, Measures, ZenonT(20)
<1>6. net'[p][i].age = older(net[p][i].age, Delay)
  BY TickEffect, ZenonT(20)
<1>7. net[p][i].age < Delay
  BY <1>2, <1>3, <1>4, <1>5, SampleTimes
<1> QED
  BY <1>2, <1>6, <1>7 DEF older

\* What waits in a peer that runs waits for room, and that is a tick nearer.
LEMMA HeldAfterTick ==
  ASSUME TypeInv, tick, NEW p \in Peers, peer[p] = "running", peer[Other(p)] = "running",
         pending[p] # None, NEW s \in Stamps, NEW n \in Int, n <= 3 * Delay, RoomIn(p, n - s.age)
  PROVE  aged(s).age <= n /\ aged(s).age = s.age + 1 /\ RoomIn(p, n - (s.age + 1))'
<1>1. taken[p] \/ Len(net[p]) = Cap
  BY Waiting, ZenonT(20)
<1>2. s.age \in Nat /\ (s.age < MaxAge => aged(s).age = s.age + 1)
  BY AgedStamp, ZenonT(20)
<1>3. n - s.age >= 0
  BY ZenonT(20) DEF RoomIn
<1>4. PICK m \in Int : m = n - s.age
  BY <1>2
<1>5. RoomIn(p, m - 1)'
  BY <1>1, <1>4, RoomAfterTick, ZenonT(20)
<1>6. n - (s.age + 1) = m - 1 /\ s.age < MaxAge
  BY <1>2, <1>3, <1>4, SampleTimes
<1>7. RoomIn(p, n - (s.age + 1))'
  BY <1>5, <1>6, ZenonT(20)
<1>8. m - 1 >= 0
  BY <1>5, ZenonT(20) DEF RoomIn
<1> QED
  BY <1>2, <1>4, <1>6, <1>7, <1>8

\* Time passes: every bound of Young is kept.
LEMMA YoungTick ==
  ASSUME TypeInv, NEW p \in Peers, tick, Young(p)
  PROVE  Young(p)'
<1> DEFINE q == Other(p)
<1>1. q \in Peers /\ Other(q) = p
  BY OtherPeer, ZenonT(20)
<1>2. /\ peer' = peer /\ \A x \in Peers : Len(net'[x]) = Len(net[x])
      /\ \A x \in Peers : pending'[x] = None <=> pending[x] = None
  BY TickEffect, ZenonT(20)
<1>3. \A x \in Peers : /\ owed_pong'[x] = aged(owed_pong[x]) /\ Answer(x)' = aged(Answer(x))
                       /\ \A i \in 1 .. Len(net[x]) : /\ net'[x][i].ping = aged(net[x][i].ping)
                                                      /\ net'[x][i].pong = aged(net[x][i].pong)
  BY TickStamps, ZenonT(20)
<1>4. aged(None) = None
  BY ZenonT(20) DEF aged
<1> HIDE DEF q
<1>5. YoungPing(p)'
  <2> SUFFICES ASSUME peer[p] = "running", NEW i \in 1 .. Len(net[q]), net'[q][i].ping # None
               PROVE  net'[q][i].ping.age = net'[q][i].age
    BY <1>1, <1>2, ZenonT(20) DEF YoungPing, q
  <2>1. net'[q][i].ping = aged(net[q][i].ping) /\ net[q][i].ping # None
    BY <1>1, <1>3, <1>4, ZenonT(20)
  <2>2. net[q][i].ping \in Stamps
    BY <1>1, <2>1, AnswerType, AgeType, ZenonT(20)
  <2>3. net[q][i].age \in Nat /\ net[q][i].age < Delay /\ net'[q][i].age = net[q][i].age + 1
    BY <1>1, FramesAfterTick, ZenonT(20)
  <2>4. net[q][i].ping.age = net[q][i].age
    BY <2>1, ZenonT(20) DEF Young, YoungPing, q
  <2>5. net[q][i].ping.age < MaxAge
    BY <2>3, <2>4, SampleTimes
  <2>6. aged(net[q][i].ping).age = net[q][i].ping.age + 1
    BY <2>2, <2>5, AgedStamp, ZenonT(20)
  <2> QED
    BY <2>1, <2>3, <2>4, <2>6, ZenonT(20)
<1>6. YoungPong(p)'
  <2> SUFFICES ASSUME peer[q] = "running", NEW i \in 1 .. Len(net[p]), net'[p][i].pong # None
               PROVE  net'[p][i].pong.age <= 3 * Delay + net'[p][i].age
    BY <1>2, ZenonT(20) DEF YoungPong, q
  <2>1. net'[p][i].pong = aged(net[p][i].pong) /\ net[p][i].pong # None
    BY <1>3, <1>4, ZenonT(20)
  <2>2. net[p][i].pong \in Stamps
    BY <2>1, AnswerType, AgeType, ZenonT(20)
  <2>3. net[p][i].age \in Nat /\ net'[p][i].age = net[p][i].age + 1
    BY FramesAfterTick, ZenonT(20) DEF q
  <2>4. net[p][i].pong.age <= 3 * Delay + net[p][i].age
    BY <2>1, ZenonT(20) DEF Young, YoungPong, q
  <2>5. /\ aged(net[p][i].pong).age <= net[p][i].pong.age + 1
        /\ aged(net[p][i].pong).age \in Nat /\ net[p][i].pong.age \in Nat
    BY <2>2, AgedStamp, ZenonT(20)
  <2>6. \A x, y, z, d \in Nat : x <= y + 1 /\ y <= 3 * d + z => x <= 3 * d + (z + 1)
    OBVIOUS
  <2>7. aged(net[p][i].pong).age <= 3 * Delay + (net[p][i].age + 1)
    BY <2>3, <2>4, <2>5, <2>6, SampleTimes, ZenonT(20)
  <2> QED
    BY <2>1, <2>3, <2>7, ZenonT(20)
<1>7. YoungHeld(p)'
  <2> SUFFICES ASSUME peer[p] = "running", peer[q] = "running"
               PROVE  /\ owed_pong'[p] # None =>
                           /\ owed_pong'[p].age <= 2 * Delay
                           /\ pending'[p] # None => RoomIn(p, 2 * Delay - owed_pong[p].age)'
                      /\ Answer(p)' # None => RoomIn(p, 3 * Delay - Answer(p).age)'
    BY <1>2, ZenonT(20) DEF YoungHeld, q
  <2>0. 2 * Delay \in Int /\ 3 * Delay \in Int /\ 2 * Delay <= 3 * Delay /\ 3 * Delay <= 3 * Delay
    BY SampleTimes
  <2>1. ASSUME owed_pong'[p] # None
        PROVE  /\ owed_pong'[p].age <= 2 * Delay
               /\ RoomIn(p, 2 * Delay - owed_pong[p].age)'
    <3>1. owed_pong[p] # None /\ owed_pong'[p] = aged(owed_pong[p])
      BY <1>3, <1>4, <2>1, ZenonT(20)
    <3>2. pending[p] # None
      BY <3>1, Waiting, ZenonT(20)
    <3>3. PICK s \in Stamps : s = owed_pong[p]
      BY <3>1, AnswerType, AgeType, ZenonT(20)
    <3>4. RoomIn(p, 2 * Delay - s.age)
      BY <3>1, <3>2, <3>3, ZenonT(20) DEF Young, YoungHeld, q
    <3>5. /\ aged(s).age <= 2 * Delay /\ aged(s).age = s.age + 1
          /\ RoomIn(p, 2 * Delay - (s.age + 1))'
      BY <2>0, <3>2, <3>4, HeldAfterTick, ZenonT(20) DEF q
    <3> QED
      BY <3>1, <3>3, <3>5, ZenonT(20)
  <2>2. ASSUME Answer(p)' # None
        PROVE  RoomIn(p, 3 * Delay - Answer(p).age)'
    <3>1. Answer(p) # None /\ Answer(p)' = aged(Answer(p))
      BY <1>3, <1>4, <2>2, ZenonT(20)
    <3>2. pending[p] # None
      BY <3>1, AnswerType, ZenonT(20)
    <3>3. PICK s \in Stamps : s = Answer(p)
      BY <3>1, AnswerType, AgeType, ZenonT(20)
    <3>4. RoomIn(p, 3 * Delay - s.age)
      BY <3>1, <3>3, ZenonT(20) DEF Young, YoungHeld, q
    <3>5. aged(s).age = s.age + 1 /\ RoomIn(p, 3 * Delay - (s.age + 1))'
      BY <2>0, <3>2, <3>4, HeldAfterTick, ZenonT(20) DEF q
    <3> QED
      BY <3>1, <3>3, <3>5, ZenonT(20)
  <2> QED
    BY <2>1, <2>2, ZenonT(20)
<1> QED
  BY <1>5, <1>6, <1>7, ZenonT(20) DEF Young

\* Every step keeps the answers young.
LEMMA YoungStep ==
  ASSUME TypeInv, [Next]_vars, NEW p \in Peers, Young(p)
  PROVE  Young(p)'
<1>1. CASE UNCHANGED vars
  <2>1. /\ peer' = peer /\ net' = net /\ owed_pong' = owed_pong /\ pending' = pending
        /\ taken' = taken
    BY <1>1, ZenonT(20) DEF vars
  <2>2. Answer(p)' = Answer(p) /\ \A n : RoomIn(p, n)' <=> RoomIn(p, n)
    BY <2>1, ZenonT(20) DEF Answer, RoomIn
  <2> QED
    BY <2>1, <2>2, ZenonT(20) DEF Young, YoungPing, YoungHeld, YoungPong
<1>2. ASSUME NEW r \in Peers, Steps(r)
      PROVE  Young(p)'
  BY <1>2, YoungCompose, YoungWrite, YoungReceive, YoungOver, ZenonT(20) DEF Steps
<1> QED
  BY <1>1, <1>2, YoungTick, StepCases, ZenonT(20)

-----------------------------------------------------------------------------
(* The stamps of `q' are passed on in order.  Each is older than the ones  *)
(* behind it: PINGs on their way, the PONG that is owed, the one in the    *)
(* codec, PONGs on their way.                                              *)

Before(s, t) == s # None /\ t # None => s.age < t.age

PingLine(a) == \A i, j \in 1 .. Len(a) : i < j => Before(a[j].ping, a[i].ping)
PongLine(b) == \A i, j \in 1 .. Len(b) : i < j => Before(b[j].pong, b[i].pong)

Line(a, o, h, b) ==
  /\ PingLine(a)
  /\ \A i \in 1 .. Len(a) : /\ Before(a[i].ping, o) /\ Before(a[i].ping, h)
                            /\ \A j \in 1 .. Len(b) : Before(a[i].ping, b[j].pong)
  /\ Before(o, h)
  /\ \A j \in 1 .. Len(b) : Before(o, b[j].pong) /\ Before(h, b[j].pong)

Order(q, p) ==
  /\ peer[q] = "running" => PongLine(net[p])
  /\ peer[q] = "running" /\ peer[p] = "running" =>
       Line(net[q], owed_pong[p], Answer(p), net[p])

\* Nothing comes before or after nothing; and a new stamp is the youngest.
LEMMA BeforeFacts ==
  /\ \A s : Before(None, s) /\ Before(s, None)
  /\ \A s, t : t \in Stamps \cup {None} /\ s.age = 0 /\ (t # None => t.age # 0) => Before(s, t)
<1>1. ASSUME NEW s, NEW t, t \in Stamps \cup {None}, s.age = 0, t # None => t.age # 0
      PROVE  Before(s, t)
  <2>1. t # None => t.age \in Nat
    BY <1>1, AgeType, ZenonT(20)
  <2>2. t # None => 0 < t.age
    BY <1>1, <2>1
  <2> QED
    BY <1>1, <2>2, ZenonT(20) DEF Before
<1> QED
  BY <1>1, ZenonT(20) DEF Before

\* take_owed: the PONG that is owed is the next one in the codec.
LEMMA LineCompose ==
  ASSUME NEW a, NEW o, NEW h, NEW b, Line(a, o, h, b)
  PROVE  Line(a, None, o, b)
BY BeforeFacts, ZenonT(20) DEF Line

\* A frame is written behind the others, and its PING is younger than all.
LEMMA LineAsk ==
  ASSUME NEW a, NEW o, NEW h, NEW b, Line(a, o, h, b), NEW c,
         Len(a) \in Nat, Len(c) = Len(a) + 1, \A i \in 1 .. Len(a) : c[i] = a[i],
         NEW u, u = c[Len(a) + 1].ping,
         \A i \in 1 .. Len(a) : Before(u, a[i].ping),
         Before(u, o), Before(u, h), \A j \in 1 .. Len(b) : Before(u, b[j].pong)
  PROVE  Line(c, o, h, b)
<1> DEFINE k == Len(a) + 1
<1>1. /\ \A i \in 1 .. Len(c) : i \in 1 .. Len(a) \/ i = k
      /\ \A i, j \in 1 .. Len(c) : i < j => i \in 1 .. Len(a)
  BY ONLY Len(a) \in Nat, Len(c) = Len(a) + 1
<1>2. c[k].ping = u
  BY ZenonT(20)
<1> HIDE DEF k
<1>3. PingLine(c)
  BY <1>1, <1>2, ZenonT(20) DEF Line, PingLine
<1> QED
  BY <1>1, <1>2, <1>3, ZenonT(20) DEF Line

\* The PONG in the codec is written behind the others.
LEMMA PongsAnswer ==
  ASSUME NEW h, NEW b, PongLine(b), \A j \in 1 .. Len(b) : Before(h, b[j].pong), NEW c,
         Len(b) \in Nat, Len(c) = Len(b) + 1, \A i \in 1 .. Len(b) : c[i] = b[i],
         c[Len(b) + 1].pong = h
  PROVE  PongLine(c)
<1> DEFINE k == Len(b) + 1
<1>1. /\ \A i \in 1 .. Len(c) : i \in 1 .. Len(b) \/ i = k
      /\ \A i, j \in 1 .. Len(c) : i < j => i \in 1 .. Len(b)
  BY ONLY Len(b) \in Nat, Len(c) = Len(b) + 1
<1>2. c[k].pong = h
  BY ZenonT(20)
<1> HIDE DEF k
<1> QED
  BY <1>1, <1>2, ZenonT(20) DEF PongLine

\* What is behind the PONG in the codec stays behind it.
LEMMA LineAnswer ==
  ASSUME NEW a, NEW o, NEW h, NEW b, Line(a, o, h, b), NEW c,
         Len(b) \in Nat, Len(c) = Len(b) + 1, \A i \in 1 .. Len(b) : c[i] = b[i],
         c[Len(b) + 1].pong = h
  PROVE  Line(a, o, None, c)
<1> DEFINE k == Len(b) + 1
<1>1. \A i \in 1 .. Len(c) : i \in 1 .. Len(b) \/ i = k
  BY ONLY Len(b) \in Nat, Len(c) = Len(b) + 1
<1>2. c[k].pong = h
  BY ZenonT(20)
<1> HIDE DEF k
<1> QED
  BY <1>1, <1>2, BeforeFacts, ZenonT(20) DEF Line

\* The indices of a sequence and of its tail.
LEMMA TailIndices ==
  ASSUME NEW n \in Nat, NEW m, n >= 1, m = n - 1
  PROVE  /\ 1 \in 1 .. n /\ \A i \in 1 .. m : i + 1 \in 1 .. n /\ 1 < i + 1
         /\ \A i, j \in 1 .. m : i < j => i + 1 < j + 1
OBVIOUS

\* received_ping: the PING that is owed a PONG is older than the ones behind it.
LEMMA LineReceive ==
  ASSUME NEW a, NEW o, NEW h, NEW b, Line(a, o, h, b), NEW c,
         Len(a) \in Nat, Len(a) >= 1, Len(c) = Len(a) - 1,
         \A i \in 1 .. Len(c) : c[i] = a[i + 1],
         NEW u, u = IF a[1].ping = None THEN o ELSE a[1].ping
  PROVE  Line(c, u, h, b)
<1>1. /\ 1 \in 1 .. Len(a) /\ \A i \in 1 .. Len(c) : i + 1 \in 1 .. Len(a) /\ 1 < i + 1
      /\ \A i, j \in 1 .. Len(c) : i < j => i + 1 < j + 1
  BY TailIndices, ZenonT(20)
<1>2. PingLine(c)
  BY <1>1, ZenonT(20) DEF Line, PingLine
<1>3. CASE a[1].ping = None
  <2>1. u = o
    BY <1>3, ZenonT(20)
  <2> QED
    BY <1>1, <1>2, <2>1, ZenonT(20) DEF Line
<1>4. CASE a[1].ping # None
  <2>1. u = a[1].ping
    BY <1>4, ZenonT(20)
  <2> QED
    BY <1>1, <1>2, <2>1, ZenonT(20) DEF Line, PingLine
<1> QED
  BY <1>3, <1>4

\* A PONG arrives, and the others are as they were.
LEMMA LineReturn ==
  ASSUME NEW a, NEW o, NEW h, NEW b, NEW c,
         Len(b) \in Nat, Len(b) >= 1, Len(c) = Len(b) - 1,
         \A i \in 1 .. Len(c) : c[i] = b[i + 1]
  PROVE  /\ PongLine(b) => PongLine(c)
         /\ Line(a, o, h, b) => Line(a, o, h, c)
<1>1. /\ \A i \in 1 .. Len(c) : i + 1 \in 1 .. Len(b)
      /\ \A i, j \in 1 .. Len(c) : i < j => i + 1 < j + 1
  BY TailIndices, ZenonT(20)
<1> QED
  BY <1>1, ZenonT(20) DEF Line, PongLine

\* Time passes for both; an age that is not at its bound grows.
LEMMA BeforeTick ==
  ASSUME NEW s \in Stamps \cup {None}, NEW t \in Stamps \cup {None}, Before(s, t),
         t # None => t.age < MaxAge
  PROVE  Before(aged(s), aged(t))
<1> SUFFICES ASSUME s # None, t # None
             PROVE  Before(aged(s), aged(t))
  BY BeforeFacts, ZenonT(20) DEF aged
<1>1. s.age < t.age /\ s \in Stamps /\ t \in Stamps
  BY ZenonT(20) DEF Before
<1>2. s.age \in Nat /\ t.age \in Nat /\ MaxAge \in Nat
  BY <1>1, AgeType, PingsAssumption, ZenonT(20)
<1>3. s.age < MaxAge
  BY <1>1, <1>2
<1>4. aged(s).age = s.age + 1 /\ aged(t).age = t.age + 1
  BY <1>1, <1>3, AgedStamp, ZenonT(20)
<1>5. aged(s).age < aged(t).age
  BY <1>1, <1>2, <1>4
<1> QED
  BY <1>5, ZenonT(20) DEF Before

\* A stamp, or none, whose age still grows.
Grows(s) == s \in Stamps \cup {None} /\ (s # None => s.age < MaxAge)

\* Time passes for the PONGs.
LEMMA PongsTick ==
  ASSUME NEW b, NEW d, PongLine(b), \A i \in 1 .. Len(b) : Grows(b[i].pong),
         Len(d) = Len(b), \A i \in 1 .. Len(b) : d[i].pong = aged(b[i].pong)
  PROVE  PongLine(d)
<1>1. \A s, t : Grows(s) /\ Grows(t) /\ Before(s, t) => Before(aged(s), aged(t))
  BY BeforeTick, ZenonT(20) DEF Grows
<1> QED
  BY <1>1, ZenonT(20) DEF PongLine

\* Time passes for all of them.
LEMMA LineTick ==
  ASSUME NEW a, NEW b, NEW c, NEW d, NEW o, NEW h, Line(a, o, h, b), Grows(o), Grows(h),
         \A i \in 1 .. Len(a) : Grows(a[i].ping), \A i \in 1 .. Len(b) : Grows(b[i].pong),
         Len(c) = Len(a), \A i \in 1 .. Len(a) : c[i].ping = aged(a[i].ping),
         Len(d) = Len(b), \A i \in 1 .. Len(b) : d[i].pong = aged(b[i].pong)
  PROVE  Line(c, aged(o), aged(h), d)
<1>1. \A s, t : Grows(s) /\ Grows(t) /\ Before(s, t) => Before(aged(s), aged(t))
  BY BeforeTick, ZenonT(20) DEF Grows
<1>2. PingLine(c)
  BY <1>1, ZenonT(20) DEF Line, PingLine
<1> QED
  BY <1>1, <1>2, ZenonT(20) DEF Line

\* Of two peers, each is the other one of the other.
LEMMA TwoPeers ==
  ASSUME NEW q \in Peers, NEW p \in Peers, p # q
  PROVE  p = Other(q) /\ q = Other(p) /\ \A r \in Peers : r = p \/ r = q
BY OtherPeer, ZenonT(20)

\* compose moves the PONG that is owed into the frame.
LEMMA OrderCompose ==
  ASSUME TypeInv, NEW q \in Peers, NEW p \in Peers, p # q, Order(q, p),
         NEW r \in Peers, NEW update, compose(r, update)
  PROVE  Order(q, p)'
<1>1. /\ peer' = peer /\ net' = net
      /\ \A x \in Peers : x # r => owed_pong'[x] = owed_pong[x]
  BY ComposeEffect, ZenonT(20)
<1>2. /\ Answer(r)' = owed_pong[r] /\ owed_pong'[r] = None
      /\ \A x \in Peers : x # r => Answer(x)' = Answer(x)
  BY ComposeStamps, ZenonT(20)
<1> QED
  BY <1>1, <1>2, LineCompose, ZenonT(20) DEF Order

\* A connection that is over asks for nothing and answers no more.
LEMMA OrderOver ==
  ASSUME TypeInv, NEW q \in Peers, NEW p \in Peers, p # q, Order(q, p),
         NEW r \in Peers, NEW why \in {"crashed", "timed_out"}, over(r, why)
  PROVE  Order(q, p)'
<1>1. peer'[r] = why /\ why # "running" /\ \A x \in Peers : x # r => peer'[x] = peer[x]
  BY OverEffect
<1>2. /\ net' = net /\ \A x \in Peers : x # r => Answer(x)' = Answer(x) /\ owed_pong'[x] = owed_pong[x]
  BY OverStamps, ZenonT(20)
<1> QED
  BY <1>1, <1>2, TwoPeers, ZenonT(20) DEF Order

\* No stamp of a peer that can write now has the age of the one it writes.
LEMMA NoneIsNew ==
  ASSUME TypeInv, TimeInv, NEW q \in Peers, NEW p \in Peers, p # q, write(q), NEW s, NEW u,
         s \in Stamps \cup {None}, u \in {None, Stamp(q)},
         \/ \E i \in 1 .. Len(net[q]) : s = net[q][i].ping
         \/ s = owed_pong[p]
         \/ s = Answer(p)
         \/ \E i \in 1 .. Len(net[p]) : s = net[p][i].pong
  PROVE  Before(u, s)
<1>1. ~taken[q]
  BY WriteEffect, ZenonT(20)
<1>2. s # None => s \in Stamps /\ Of(q, s)
  <2>1. p = Other(q)
    BY TwoPeers, ZenonT(20)
  <2> QED
    BY <2>1, ZenonT(20) DEF Of
<1>3. s # None => s.age # 0
  BY <1>1, <1>2, ZenonT(20) DEF TimeInv, Right
<1>4. Stamp(q).age = 0
  BY DEF Stamp
<1> QED
  BY <1>3, <1>4, BeforeFacts, ZenonT(20)

\* write puts the youngest stamp behind all others, or the PONG of the codec
\* behind the PONGs.
LEMMA OrderWrite ==
  ASSUME TypeInv, TimeInv, NEW q \in Peers, NEW p \in Peers, p # q, Order(q, p),
         NEW r \in Peers, write(r)
  PROVE  Order(q, p)'
<1>1. /\ peer' = peer /\ owed_pong' = owed_pong /\ \A x \in Peers : x # r => net'[x] = net[x]
  BY WriteEffect, ZenonT(20)
<1>2. /\ Len(net'[r]) = Len(net[r]) + 1 /\ \A i \in 1 .. Len(net[r]) : net'[r][i] = net[r][i]
      /\ net'[r][Len(net[r]) + 1].ping \in {None, Stamp(r)}
      /\ net'[r][Len(net[r]) + 1].pong = Answer(r)
      /\ Answer(r)' = None /\ \A x \in Peers : x # r => Answer(x)' = Answer(x)
  BY WriteStamps, ZenonT(20)
<1>3. Len(net[r]) \in Nat /\ peer[r] = "running"
  BY Measures, ZenonT(20) DEF write
<1>4. CASE r = q
  <2>1. PICK u : u = net'[q][Len(net[q]) + 1].ping /\ u \in {None, Stamp(q)}
    BY <1>2, <1>4, ZenonT(20)
  <2>2. /\ \A i \in 1 .. Len(net[q]) : net[q][i].ping \in Stamps \cup {None}
        /\ \A i \in 1 .. Len(net[p]) : net[p][i].pong \in Stamps \cup {None}
        /\ owed_pong[p] \in Stamps \cup {None} /\ Answer(p) \in Stamps \cup {None}
    BY AnswerType, ZenonT(20)
  <2>3. /\ \A i \in 1 .. Len(net[q]) : Before(u, net[q][i].ping)
        /\ \A i \in 1 .. Len(net[p]) : Before(u, net[p][i].pong)
        /\ Before(u, owed_pong[p]) /\ Before(u, Answer(p))
    BY <1>4, <2>1, <2>2, NoneIsNew, ZenonT(20)
  <2>4. Line(net[q], owed_pong[p], Answer(p), net[p]) =>
          Line(net'[q], owed_pong[p], Answer(p), net[p])
    BY <1>2, <1>3, <1>4, <2>1, <2>3, LineAsk, ZenonT(20)
  <2> QED
    BY <1>1, <1>2, <1>4, <2>4, ZenonT(20) DEF Order
<1>5. CASE r = p
  <2>1. ASSUME peer[q] = "running"
        PROVE  Line(net[q], owed_pong[p], Answer(p), net[p]) /\ PongLine(net[p])
    BY <1>3, <1>5, <2>1, ZenonT(20) DEF Order
  <2>2. ASSUME peer[q] = "running"
        PROVE  Line(net[q], owed_pong[p], None, net'[p])
    BY <1>2, <1>3, <1>5, <2>1, <2>2, LineAnswer, ZenonT(20)
  <2>3. ASSUME peer[q] = "running"
        PROVE  PongLine(net'[p])
    <3>1. \A j \in 1 .. Len(net[p]) : Before(Answer(p), net[p][j].pong)
      BY <2>1, <2>3, ZenonT(20) DEF Line
    <3> QED
      BY <1>2, <1>3, <1>5, <2>1, <2>3, <3>1, PongsAnswer, ZenonT(20)
  <2> QED
    BY <1>1, <1>2, <1>5, <2>2, <2>3, ZenonT(20) DEF Order
<1> QED
  BY <1>4, <1>5, TwoPeers, ZenonT(20)

\* receive moves the first PING into what is owed, or the first PONG out.
LEMMA OrderReceive ==
  ASSUME TypeInv, NEW q \in Peers, NEW p \in Peers, p # q, Order(q, p),
         NEW r \in Peers, receive(r)
  PROVE  Order(q, p)'
<1>1. /\ p = Other(q) /\ q = Other(p) /\ (r = p \/ r = q)
      /\ Len(net[p]) \in Nat /\ Len(net[q]) \in Nat
  BY TwoPeers, Measures, ZenonT(20)
<1>2. CASE r = p
  <2>1. /\ peer[p] = "running" /\ peer' = peer /\ Len(net[q]) >= 1 /\ net'[p] = net[p]
        /\ Len(net'[q]) = Len(net[q]) - 1
        /\ \A i \in 1 .. Len(net'[q]) : net'[q][i] = net[q][i + 1]
    <3>1. receive(p)
      BY <1>2
    <3>2. /\ peer[p] = "running" /\ peer' = peer /\ Len(net[Other(p)]) >= 1 /\ net'[p] = net[p]
          /\ Len(net'[Other(p)]) = Len(net[Other(p)]) - 1
          /\ \A i \in 1 .. Len(net'[Other(p)]) : net'[Other(p)][i] = net[Other(p)][i + 1]
      BY <3>1, ReceiveEffect, ZenonT(20)
    <3> QED
      BY <1>1, <3>2
  <2>2. /\ owed_pong'[p] = (IF net[q][1].ping = None THEN owed_pong[p] ELSE net[q][1].ping)
        /\ Answer(p)' = Answer(p)
    BY <1>1, <1>2, ReceiveStamps, ZenonT(20)
  <2>3. Line(net[q], owed_pong[p], Answer(p), net[p]) =>
          Line(net'[q], owed_pong'[p], Answer(p), net[p])
    BY <1>1, <2>1, <2>2, LineReceive, ZenonT(20)
  <2>4. Line(net[q], owed_pong[p], Answer(p), net[p]) =>
          Line(net'[q], owed_pong'[p], Answer(p)', net'[p])
    BY <2>1, <2>2, <2>3, ZenonT(20)
  <2> QED
    BY <2>1, <2>4, ZenonT(20) DEF Order
<1>3. CASE r = q
  <2>1. /\ peer' = peer /\ Len(net[p]) >= 1 /\ net'[q] = net[q]
        /\ Len(net'[p]) = Len(net[p]) - 1
        /\ \A i \in 1 .. Len(net'[p]) : net'[p][i] = net[p][i + 1]
        /\ owed_pong'[p] = owed_pong[p]
    <3>1. receive(q)
      BY <1>3
    <3>2. /\ peer' = peer /\ Len(net[Other(q)]) >= 1 /\ net'[q] = net[q]
          /\ Len(net'[Other(q)]) = Len(net[Other(q)]) - 1
          /\ \A i \in 1 .. Len(net'[Other(q)]) : net'[Other(q)][i] = net[Other(q)][i + 1]
          /\ owed_pong'[Other(q)] = owed_pong[Other(q)]
      BY <3>1, ReceiveEffect, ZenonT(20)
    <3> QED
      BY <1>1, <3>2
  <2>2. Answer(p)' = Answer(p)
    BY <1>3, ReceiveStamps, ZenonT(20)
  <2>3. /\ PongLine(net[p]) => PongLine(net'[p])
        /\ Line(net[q], owed_pong[p], Answer(p), net[p]) =>
             Line(net[q], owed_pong[p], Answer(p), net'[p])
    BY <1>1, <2>1, LineReturn, ZenonT(20)
  <2> QED
    BY <2>1, <2>2, <2>3, ZenonT(20) DEF Order
<1> QED
  BY <1>1, <1>2, <1>3

\* The answers to a peer that runs are young, so their ages still grow.
LEMMA AllGrow ==
  ASSUME TypeInv, NEW q \in Peers, NEW p \in Peers, p # q, Young(p), peer[q] = "running"
  PROVE  /\ \A i \in 1 .. Len(net[p]) : Grows(net[p][i].pong)
         /\ peer[p] = "running" =>
              /\ Grows(owed_pong[p]) /\ Grows(Answer(p))
              /\ \A i \in 1 .. Len(net[q]) : Grows(net[q][i].ping)
<1>1. q = Other(p)
  BY TwoPeers, ZenonT(20)
<1>2. ASSUME NEW i \in 1 .. Len(net[p])
      PROVE  Grows(net[p][i].pong)
  <2>1. /\ net[p][i].pong \in Stamps \cup {None} /\ net[p][i].age \in Nat /\ net[p][i].age <= Delay
    BY <1>2, AnswerType, ZenonT(20)
  <2>2. net[p][i].pong # None => net[p][i].pong.age <= 3 * Delay + net[p][i].age
    BY <1>1, <1>2, ZenonT(20) DEF Young, YoungPong
  <2>3. net[p][i].pong # None => net[p][i].pong.age < MaxAge
    BY <2>1, <2>2, AgeType, SampleTimes
  <2> QED
    BY <2>1, <2>3, ZenonT(20) DEF Grows
<1>3. ASSUME peer[p] = "running"
      PROVE  Grows(owed_pong[p])
  <2>1. owed_pong[p] \in Stamps \cup {None}
    BY AnswerType, ZenonT(20)
  <2>2. owed_pong[p] # None => owed_pong[p].age <= 2 * Delay
    BY <1>1, <1>3, ZenonT(20) DEF Young, YoungHeld
  <2>3. owed_pong[p] # None => owed_pong[p].age < MaxAge
    BY <2>1, <2>2, AgeType, SampleTimes
  <2> QED
    BY <2>1, <2>3, ZenonT(20) DEF Grows
<1>4. ASSUME peer[p] = "running"
      PROVE  Grows(Answer(p))
  <2>1. Answer(p) \in Stamps \cup {None}
    BY AnswerType, ZenonT(20)
  <2>2. Answer(p) # None => 3 * Delay - Answer(p).age >= 0
    BY <1>1, <1>4, ZenonT(20) DEF Young, YoungHeld, RoomIn
  <2>3. Answer(p) # None => Answer(p).age < MaxAge
    BY <2>1, <2>2, AgeType, SampleTimes
  <2> QED
    BY <2>1, <2>3, ZenonT(20) DEF Grows
<1>5. ASSUME peer[p] = "running", NEW i \in 1 .. Len(net[q])
      PROVE  Grows(net[q][i].ping)
  <2>1. /\ net[q][i].ping \in Stamps \cup {None} /\ net[q][i].age \in Nat /\ net[q][i].age <= Delay
    BY <1>5, AnswerType, ZenonT(20)
  <2>2. net[q][i].ping # None => net[q][i].ping.age = net[q][i].age
    BY <1>1, <1>5, ZenonT(20) DEF Young, YoungPing
  <2>3. net[q][i].ping # None => net[q][i].ping.age < MaxAge
    BY <2>1, <2>2, SampleTimes
  <2> QED
    BY <2>1, <2>3, ZenonT(20) DEF Grows
<1> QED
  BY <1>2, <1>3, <1>4, <1>5

\* Time passes, and the order stays.
LEMMA OrderTick ==
  ASSUME TypeInv, NEW q \in Peers, NEW p \in Peers, p # q, Order(q, p), Young(p), tick
  PROVE  Order(q, p)'
<1>1. peer' = peer /\ \A x \in Peers : Len(net'[x]) = Len(net[x])
  BY TickEffect, ZenonT(20)
<1>2. \A x \in Peers : /\ owed_pong'[x] = aged(owed_pong[x]) /\ Answer(x)' = aged(Answer(x))
                       /\ \A i \in 1 .. Len(net[x]) :
                            /\ net'[x][i].ping = aged(net[x][i].ping)
                            /\ net'[x][i].pong = aged(net[x][i].pong)
  BY TickStamps, ZenonT(20)
<1>3. ASSUME peer[q] = "running"
      PROVE  PongLine(net'[p])
  <2>1. PongLine(net[p]) /\ \A i \in 1 .. Len(net[p]) : Grows(net[p][i].pong)
    BY <1>3, AllGrow, ZenonT(20) DEF Order
  <2> QED
    BY <1>1, <1>2, <2>1, PongsTick, ZenonT(20)
<1>4. ASSUME peer[q] = "running", peer[p] = "running"
      PROVE  Line(net'[q], owed_pong'[p], Answer(p)', net'[p])
  <2>1. /\ Line(net[q], owed_pong[p], Answer(p), net[p])
        /\ \A i \in 1 .. Len(net[p]) : Grows(net[p][i].pong)
        /\ Grows(owed_pong[p]) /\ Grows(Answer(p))
        /\ \A i \in 1 .. Len(net[q]) : Grows(net[q][i].ping)
    BY <1>4, AllGrow, ZenonT(20) DEF Order
  <2>2. /\ Len(net'[q]) = Len(net[q])
        /\ \A i \in 1 .. Len(net[q]) : net'[q][i].ping = aged(net[q][i].ping)
        /\ Len(net'[p]) = Len(net[p])
        /\ \A i \in 1 .. Len(net[p]) : net'[p][i].pong = aged(net[p][i].pong)
    BY <1>1, <1>2, ZenonT(20)
  <2>3. Line(net'[q], aged(owed_pong[p]), aged(Answer(p)), net'[p])
    BY <2>1, <2>2, LineTick, ZenonT(20)
  <2>4. owed_pong'[p] = aged(owed_pong[p]) /\ Answer(p)' = aged(Answer(p))
    BY <1>2, ZenonT(20)
  <2> QED
    BY <2>3, <2>4, ZenonT(20)
<1> QED
  BY <1>1, <1>3, <1>4, ZenonT(20) DEF Order

\* Every step keeps the stamps in order.
LEMMA OrderStep ==
  ASSUME TypeInv, TimeInv, [Next]_vars, NEW q \in Peers, NEW p \in Peers, p # q,
         Order(q, p), Young(p)
  PROVE  Order(q, p)'
<1>1. CASE UNCHANGED vars
  <2>1. peer' = peer /\ net' = net /\ owed_pong' = owed_pong /\ pending' = pending
    BY <1>1, ZenonT(20) DEF vars
  <2>2. Answer(p)' = Answer(p)
    BY <2>1, ZenonT(20) DEF Answer
  <2> QED
    BY <2>1, <2>2, ZenonT(20) DEF Order
<1>2. ASSUME NEW r \in Peers, Steps(r)
      PROVE  Order(q, p)'
  BY <1>2, OrderCompose, OrderWrite, OrderReceive, OrderOver, ZenonT(20) DEF Steps
<1> QED
  BY <1>1, <1>2, OrderTick, StepCases, ZenonT(20)

-----------------------------------------------------------------------------
(* The samples.                                                            *)

SampleInv ==
  /\ TypeInv /\ TimeInv
  /\ \A p \in Peers : Young(p)
  /\ \A q, p \in Peers : p # q => Order(q, p)

\* Nothing is stamped at first.
LEMMA SampleInit == Init => SampleInv
<1> SUFFICES ASSUME Init
             PROVE  SampleInv
  OBVIOUS
<1>1. TypeInv
  BY InvInit, ZenonT(20) DEF Inv
<1>2. \A p \in Peers : /\ owed_pong[p] = None /\ pending[p] = None /\ Answer(p) = None
                       /\ Len(net[p]) = 0
  BY DEF Init, Answer
<1>3. \A p \in Peers : \A i : i \notin 1 .. Len(net[p])
  BY <1>2
<1>4. \A p \in Peers : Other(p) \in Peers
  BY OtherPeer, ZenonT(20)
<1>5. TimeInv
  <2> SUFFICES ASSUME NEW q \in Peers, NEW s \in Stamps, Of(q, s)
               PROVE  Right(q, s)
    BY ZenonT(20) DEF TimeInv
  <2>1. PICK p \in Peers : p = Other(q)
    BY <1>4, ZenonT(20)
  <2>2. /\ owed_pong[p] = None /\ Answer(p) = None
        /\ \A i : i \notin 1 .. Len(net[q]) /\ i \notin 1 .. Len(net[p])
    BY <1>2, <1>3, ZenonT(20)
  <2> QED
    BY <2>1, <2>2, ZenonT(20) DEF Of
<1>6. \A p \in Peers : Young(p)
  BY <1>2, <1>3, <1>4, ZenonT(20) DEF Young, YoungPing, YoungHeld, YoungPong
<1>7. ASSUME NEW q \in Peers, NEW p \in Peers
      PROVE  Order(q, p)
  <2>1. PingLine(net[q]) /\ PongLine(net[p])
    BY <1>3, ZenonT(20) DEF PingLine, PongLine
  <2>2. Before(None, None)
    BY BeforeFacts, ZenonT(20)
  <2>3. Line(net[q], None, None, net[p])
    BY <1>3, <2>1, <2>2, ZenonT(20) DEF Line
  <2>4. owed_pong[p] = None /\ Answer(p) = None
    BY <1>2, ZenonT(20)
  <2> QED
    BY <2>1, <2>3, <2>4, ZenonT(20) DEF Order
<1> QED
  BY <1>1, <1>5, <1>6, <1>7, ZenonT(20) DEF SampleInv

\* Every step keeps the times, the ages and the order of the stamps.
LEMMA SampleStep == SampleInv /\ [Next]_vars => SampleInv'
<1> SUFFICES ASSUME SampleInv, [Next]_vars
             PROVE  SampleInv'
  OBVIOUS
<1>1. /\ TypeInv /\ TimeInv /\ \A p \in Peers : Young(p)
      /\ \A q, p \in Peers : p # q => Order(q, p)
  BY ZenonT(20) DEF SampleInv
<1>2. TypeInv' /\ TimeInv'
  BY <1>1, TypeStep, TimeStep, ZenonT(20)
<1>3. ASSUME NEW p \in Peers
      PROVE  Young(p)'
  BY <1>1, YoungStep, ZenonT(20)
<1>4. ASSUME NEW q \in Peers, NEW p \in Peers, p # q
      PROVE  Order(q, p)'
  BY <1>1, <1>4, OrderStep, ZenonT(20)
<1> QED
  BY <1>2, <1>3, <1>4, ZenonT(20) DEF SampleInv

\* SampleIsElapsed, for every delay, interval and timeout that the assumptions
\* allow: what round_trip makes of a PONG that arrives is the age of its PING.
THEOREM SamplesAreRight == Spec => []SampleIsElapsed
<1>1. SampleInv => SampleIsElapsed
  <2> SUFFICES ASSUME SampleInv, NEW p \in Peers, NEW i \in 1 .. Len(net[p]),
                      net[p][i].pong # None, peer[Other(p)] = "running"
               PROVE  round_trip(Other(p), net[p][i].pong.t) = net[p][i].pong.age
    BY ZenonT(20) DEF SampleIsElapsed
  <2>1. PICK q \in Peers : q = Other(p) /\ p = Other(q)
    BY OtherPeer, ZenonT(20)
  <2>2. PICK s : s = net[p][i].pong
    OBVIOUS
  <2>3. TypeInv /\ TimeInv /\ Young(p)
    BY ZenonT(20) DEF SampleInv
  <2>4. /\ s \in Stamps /\ s.age \in Nat /\ net[p][i].age \in Nat /\ net[p][i].age <= Delay
    BY <2>2, <2>3, AnswerType, AgeType, ZenonT(20)
  <2>5. s.age <= 3 * Delay + net[p][i].age
    BY <2>2, <2>3, ZenonT(20) DEF Young, YoungPong
  <2>6. s.age < MaxAge /\ s.age % ClockRange = s.age
    <3>1. s.age <= 4 * Delay
      BY <2>4, <2>5, SampleTimes
    <3>2. s.age < MaxAge /\ s.age < ClockRange
      BY <2>4, <3>1, SampleTimes
    <3>3. \A x \in Nat, y \in Nat : x < y => x % y = x
      OBVIOUS
    <3>4. ClockRange \in Nat
      BY SampleTimes
    <3> QED
      BY <2>4, <3>2, <3>3, <3>4, ZenonT(20)
  <2>7. Of(q, s)
    BY <2>1, <2>2, ZenonT(20) DEF Of
  <2>8. (micros(q) - s.t) % ClockRange = s.age
    BY <2>3, <2>4, <2>6, <2>7, ZenonT(20) DEF TimeInv, Right
  <2> QED
    BY <2>1, <2>2, <2>8, ZenonT(20) DEF round_trip, elapsed
<1> QED
  BY SampleInit, SampleStep, <1>1, PTL DEF Spec

Rising(s) == \A i, j \in 1 .. Len(s) : i < j => Before(s[i], s[j])

\* Two sequences in order, the second behind the first, are in order.
LEMMA RisingJoin ==
  ASSUME NEW V, NEW s \in Seq(V), NEW t \in Seq(V), Rising(s), Rising(t),
         \A i \in 1 .. Len(s), j \in 1 .. Len(t) : Before(s[i], t[j]),
         NEW u, u = s \o t
  PROVE  /\ Rising(u) /\ u \in Seq(V)
         /\ \A i \in 1 .. Len(u) : \/ \E k \in 1 .. Len(s) : u[i] = s[k]
                                  \/ \E k \in 1 .. Len(t) : u[i] = t[k]
<1> DEFINE m == Len(s)
           n == Len(t)
<1>1. m \in Nat /\ n \in Nat /\ Len(u) = m + n /\ u \in Seq(V)
  OBVIOUS
<1>2. /\ \A i \in 1 .. m : u[i] = s[i]
      /\ \A i \in 1 .. Len(u) : i > m => u[i] = t[i - m]
  OBVIOUS
<1> HIDE DEF m, n
<1>3. /\ \A i \in 1 .. Len(u) : i \in 1 .. m \/ (i > m /\ i - m \in 1 .. n)
      /\ \A i, j \in 1 .. Len(u) : i < j /\ i > m => j > m
  BY <1>1
<1>4. Rising(u)
  <2> SUFFICES ASSUME NEW i \in 1 .. Len(u), NEW j \in 1 .. Len(u), i < j
               PROVE  Before(u[i], u[j])
    BY ZenonT(20) DEF Rising
  <2>0. /\ \A k, l \in 1 .. m : k < l => Before(s[k], s[l])
        /\ \A k, l \in 1 .. n : k < l => Before(t[k], t[l])
        /\ \A k \in 1 .. m, l \in 1 .. n : Before(s[k], t[l])
    BY ZenonT(20) DEF Rising, m, n
  <2>1. CASE j \in 1 .. m
    <3>1. i \in 1 .. m
      BY <1>1, <2>1
    <3>2. u[i] = s[i] /\ u[j] = s[j] /\ Before(s[i], s[j])
      BY <1>2, <2>0, <2>1, <3>1, ZenonT(20)
    <3> QED
      BY <3>2, ZenonT(20)
  <2>2. CASE i \in 1 .. m /\ j > m /\ j - m \in 1 .. n
    BY <1>2, <2>0, <2>2, ZenonT(20)
  <2>3. CASE i > m /\ i - m \in 1 .. n /\ j > m /\ j - m \in 1 .. n
    <3>1. i - m < j - m
      BY <1>1, <2>3
    <3>2. u[i] = t[i - m] /\ u[j] = t[j - m] /\ Before(t[i - m], t[j - m])
      BY <1>2, <2>0, <2>3, <3>1, ZenonT(20)
    <3> QED
      BY <3>2, ZenonT(20)
  <2> QED
    BY <1>3, <2>1, <2>2, <2>3, ZenonT(20)
<1>5. \A i \in 1 .. Len(u) : \/ \E k \in 1 .. m : u[i] = s[k]
                             \/ \E k \in 1 .. n : u[i] = t[k]
  BY <1>2, <1>3, ZenonT(20)
<1> QED
  BY <1>1, <1>4, <1>5, ZenonT(20) DEF m, n

\* The frames of a peer, from the last to the first.
LEMMA StampedFacts ==
  ASSUME TypeInv, NEW q \in Peers
  PROVE  /\ Stamped(q, "ping") \in Seq(Stamps \cup {None})
         /\ Stamped(q, "pong") \in Seq(Stamps \cup {None})
         /\ Len(Stamped(q, "ping")) = Len(net[q]) /\ Len(Stamped(q, "pong")) = Len(net[q])
         /\ \A i \in 1 .. Len(net[q]) :
              /\ Len(net[q]) + 1 - i \in 1 .. Len(net[q])
              /\ Stamped(q, "ping")[i] = net[q][Len(net[q]) + 1 - i].ping
              /\ Stamped(q, "pong")[i] = net[q][Len(net[q]) + 1 - i].pong
<1>1. /\ Len(net[q]) \in Nat
      /\ \A i \in 1 .. Len(net[q]) : /\ net[q][i].ping \in Stamps \cup {None}
                                     /\ net[q][i].pong \in Stamps \cup {None}
  BY AnswerType, ZenonT(20)
<1>2. \A i \in 1 .. Len(net[q]) : Len(net[q]) + 1 - i \in 1 .. Len(net[q])
  BY <1>1
<1>3. \A i \in 1 .. Len(net[q]) :
              /\ Stamped(q, "ping")[i] = net[q][Len(net[q]) + 1 - i].ping
              /\ Stamped(q, "pong")[i] = net[q][Len(net[q]) + 1 - i].pong
  BY <1>1, <1>2 DEF Stamped
<1>4. /\ Stamped(q, "ping") \in [1 .. Len(net[q]) -> Stamps \cup {None}]
      /\ Stamped(q, "pong") \in [1 .. Len(net[q]) -> Stamps \cup {None}]
  BY <1>1, <1>2 DEF Stamped
<1>5. ASSUME NEW f \in [1 .. Len(net[q]) -> Stamps \cup {None}]
      PROVE  f \in Seq(Stamps \cup {None}) /\ Len(f) = Len(net[q])
  <2>1. PICK n \in Nat : n = Len(net[q])
    BY <1>1
  <2>2. f \in [1 .. n -> Stamps \cup {None}]
    BY <2>1
  <2>3. f \in Seq(Stamps \cup {None}) /\ Len(f) = n
    BY <2>2
  <2> QED
    BY <2>1, <2>3
<1> QED
  BY <1>2, <1>3, <1>4, <1>5, ZenonT(20)

\* From the last PING to the first PONG, the stamps of a peer that runs rise.
LEMMA InFlightRises ==
  ASSUME TypeInv, NEW q \in Peers, NEW p \in Peers, p # q, Order(q, p), peer[q] = "running"
  PROVE  Rising(InFlight(q))
<1> DEFINE V == Stamps \cup {None}
           a == Stamped(q, "ping")
           b == Stamped(p, "pong")
           h == <<owed_pong[p], Answer(p)>>
<1>1. p = Other(q)
  BY TwoPeers, ZenonT(20)
<1>2. /\ a \in Seq(V) /\ Len(a) = Len(net[q]) /\ b \in Seq(V) /\ Len(b) = Len(net[p])
      /\ \A i \in 1 .. Len(net[q]) : /\ Len(net[q]) + 1 - i \in 1 .. Len(net[q])
                                     /\ a[i] = net[q][Len(net[q]) + 1 - i].ping
      /\ \A i \in 1 .. Len(net[p]) : /\ Len(net[p]) + 1 - i \in 1 .. Len(net[p])
                                     /\ b[i] = net[p][Len(net[p]) + 1 - i].pong
      /\ Len(net[p]) \in Nat /\ Len(net[q]) \in Nat
  BY StampedFacts, Measures, ZenonT(20)
<1>3. owed_pong[p] \in V /\ Answer(p) \in V
  BY AnswerType, ZenonT(20)
<1>4. h \in Seq(V) /\ Len(h) = 2 /\ h[1] = owed_pong[p] /\ h[2] = Answer(p)
  BY <1>3
<1>5. \A k \in 1 .. Len(h) : h[k] = owed_pong[p] \/ h[k] = Answer(p)
  BY <1>4
<1>6. \A n \in Nat : \A i, j \in 1 .. n : i < j => n + 1 - j < n + 1 - i
  OBVIOUS
<1> HIDE DEF V, a, b, h
<1>7. Rising(b)
  <2>1. PongLine(net[p])
    BY ZenonT(20) DEF Order
  <2> SUFFICES ASSUME NEW i \in 1 .. Len(net[p]), NEW j \in 1 .. Len(net[p]), i < j
               PROVE  Before(b[i], b[j])
    BY <1>2, ZenonT(20) DEF Rising
  <2>2. Before(net[p][Len(net[p]) + 1 - i].pong, net[p][Len(net[p]) + 1 - j].pong)
    BY <1>2, <1>6, <2>1, ZenonT(20) DEF PongLine
  <2> QED
    BY <1>2, <2>2, ZenonT(20)
<1>8. CASE peer[p] = "running"
  <2>1. Line(net[q], owed_pong[p], Answer(p), net[p])
    BY <1>8, ZenonT(20) DEF Order
  <2>2. Rising(a)
    <3> SUFFICES ASSUME NEW i \in 1 .. Len(net[q]), NEW j \in 1 .. Len(net[q]), i < j
                 PROVE  Before(a[i], a[j])
      BY <1>2, ZenonT(20) DEF Rising
    <3>1. Before(net[q][Len(net[q]) + 1 - i].ping, net[q][Len(net[q]) + 1 - j].ping)
      BY <1>2, <1>6, <2>1, ZenonT(20) DEF Line, PingLine
    <3> QED
      BY <1>2, <3>1, ZenonT(20)
  <2>3. Rising(h)
    <3>1. Before(h[1], h[2])
      BY <1>4, <2>1, ZenonT(20) DEF Line
    <3>2. \A i, j \in 1 .. Len(h) : i < j => i = 1 /\ j = 2
      BY <1>4
    <3> QED
      BY <3>1, <3>2, ZenonT(20) DEF Rising
  <2>4. ASSUME NEW i \in 1 .. Len(a)
        PROVE  /\ \A k \in 1 .. Len(h) : Before(a[i], h[k])
               /\ \A j \in 1 .. Len(b) : Before(a[i], b[j])
    <3>1. PICK x \in 1 .. Len(net[q]) : a[i] = net[q][x].ping
      BY <1>2, <2>4, ZenonT(20)
    <3>2. /\ Before(a[i], owed_pong[p]) /\ Before(a[i], Answer(p))
          /\ \A y \in 1 .. Len(net[p]) : Before(a[i], net[p][y].pong)
      BY <2>1, <3>1, ZenonT(20) DEF Line
    <3>3. \A k \in 1 .. Len(h) : Before(a[i], h[k])
      BY <1>5, <3>2, ZenonT(20)
    <3>4. ASSUME NEW j \in 1 .. Len(b)
          PROVE  Before(a[i], b[j])
      <4>1. PICK y \in 1 .. Len(net[p]) : b[j] = net[p][y].pong
        BY <1>2, <3>4, ZenonT(20)
      <4> QED
        BY <3>2, <4>1, ZenonT(20)
    <3> QED
      BY <3>3, <3>4
  <2>5. ASSUME NEW k \in 1 .. Len(h), NEW j \in 1 .. Len(b)
        PROVE  Before(h[k], b[j])
    <3>1. PICK y \in 1 .. Len(net[p]) : b[j] = net[p][y].pong
      BY <1>2, <2>5, ZenonT(20)
    <3>2. Before(owed_pong[p], b[j]) /\ Before(Answer(p), b[j])
      BY <2>1, <3>1, ZenonT(20) DEF Line
    <3> QED
      BY <1>5, <2>5, <3>2, ZenonT(20)
  <2>6. PICK c : c = a \o h
    BY ZenonT(20)
  <2>7. /\ Rising(c) /\ c \in Seq(V)
        /\ \A i \in 1 .. Len(c) : \/ \E k \in 1 .. Len(a) : c[i] = a[k]
                                 \/ \E k \in 1 .. Len(h) : c[i] = h[k]
    <3>1. \A i \in 1 .. Len(a), j \in 1 .. Len(h) : Before(a[i], h[j])
      BY <2>4, ZenonT(20)
    <3>2. a \in Seq(V) /\ h \in Seq(V)
      BY <1>2, <1>4, ZenonT(20)
    <3> QED
      <4>1. Rising(c) /\ c \in Seq(V)
        BY <2>2, <2>3, <2>6, <3>1, <3>2, RisingJoin, ZenonT(20)
      <4>2. ASSUME NEW i \in 1 .. Len(c)
            PROVE  \/ \E k \in 1 .. Len(a) : c[i] = a[k]
                   \/ \E k \in 1 .. Len(h) : c[i] = h[k]
        BY <2>2, <2>3, <2>6, <3>1, <3>2, <4>2, RisingJoin, SMTT(20)
      <4> QED
        BY <4>1, <4>2, ZenonT(20)
  <2>8. \A i \in 1 .. Len(c), j \in 1 .. Len(b) : Before(c[i], b[j])
    <3> SUFFICES ASSUME NEW i \in 1 .. Len(c), NEW j \in 1 .. Len(b)
                 PROVE  Before(c[i], b[j])
      OBVIOUS
    <3>1. \/ \E k \in 1 .. Len(a) : c[i] = a[k]
          \/ \E k \in 1 .. Len(h) : c[i] = h[k]
      BY <2>7, ZenonT(20)
    <3> QED
      BY <2>4, <2>5, <3>1, ZenonT(20)
  <2>9. Rising(c \o b)
    BY <1>2, <1>7, <2>7, <2>8, RisingJoin, ZenonT(20)
  <2>10. InFlight(q) = c \o b
    BY <1>1, <1>8, <2>6 DEF InFlight, a, b, h
  <2> QED
    BY <2>9, <2>10, ZenonT(20)
<1>9. CASE peer[p] # "running"
  <2>1. InFlight(q) = <<>> \o b
    BY <1>1, <1>9 DEF InFlight, b
  <2>2. <<>> \o b = b
    BY <1>2
  <2> QED
    BY <1>7, <2>1, <2>2, ZenonT(20)
<1> QED
  BY <1>8, <1>9

\* SamplesMoveForward, for every delay, interval, timeout and capacity of the
\* transport: an answer never overtakes the answer to an earlier PING.
THEOREM SamplesInOrder == Spec => []SamplesMoveForward
<1>1. SampleInv => SamplesMoveForward
  <2> SUFFICES ASSUME SampleInv, NEW q \in Peers, peer[q] = "running",
                      NEW i \in 1 .. Len(InFlight(q)), NEW j \in 1 .. Len(InFlight(q)), i < j,
                      InFlight(q)[i] # None, InFlight(q)[j] # None
               PROVE  InFlight(q)[i].age < InFlight(q)[j].age
    BY ZenonT(20) DEF SamplesMoveForward
  <2>1. PICK p \in Peers : p # q
    BY OtherPeer, ZenonT(20)
  <2>2. TypeInv /\ Order(q, p)
    BY <2>1, ZenonT(20) DEF SampleInv
  <2>3. Rising(InFlight(q))
    BY <2>1, <2>2, InFlightRises, ZenonT(20)
  <2> QED
    BY <2>3, ZenonT(20) DEF Rising, Before
<1> QED
  BY SampleInit, SampleStep, <1>1, PTL DEF Spec
=============================================================================
