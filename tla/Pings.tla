------------------------------- MODULE Pings -------------------------------
(***************************************************************************)
(* PING, PONG and the inbound timeout of two connected peers, in discrete  *)
(* time (src/connection/pings.rs, src/wire/clock.rs, with what active.rs   *)
(* and codec.rs do with them).                                             *)
(*                                                                         *)
(* Time passes when no connection has anything to do: a woken task is      *)
(* polled at once.  The transport is external: it takes one frame per      *)
(* tick, holds up to Cap of them each way, and delivers each within Delay; *)
(* what the peer takes to poll is part of that.  A peer may crash without  *)
(* a word.                                                                 *)
(***************************************************************************)
EXTENDS Integers, Sequences

CONSTANTS
  Interval,    \* per peer: ping_interval
  Timeout,     \* per peer: inbound_frame_timeout
  PingBytes,
  Updates,     \* per peer: what poll_update gives, None or the data of a frame
  Delay,
  Cap,
  Epoch,       \* per peer: the epoch of its clock
  ClockRange,  \* 2^32 in the code
  MaxU32,      \* u32::MAX, where unpinged_bytes saturates
  MaxAge,      \* bound on the ghost ages
  None

Peers == {"client", "server"}
Other(p) == CHOOSE q \in Peers : q # p

\* RammuxConfig::validate: an interval that is not 0 and below the timeout.
validate(p) == Interval[p] > 0 /\ Interval[p] < Timeout[p]

ASSUME PingsAssumption ==
  /\ Interval \in [Peers -> Nat] /\ Timeout \in [Peers -> Nat] /\ Epoch \in [Peers -> Nat]
  /\ \A p \in Peers : validate(p)
  /\ {PingBytes, Delay, Cap, ClockRange, MaxAge} \subseteq Nat \ {0}
  /\ None \notin [t : Nat, age : Nat] \cup [ping : BOOLEAN, pong : [t : Nat, age : Nat] \cup {None}]

\* What the configuration leaves to its user: the interval, four delays and
\* the timeout.  A PING that is due may wait for the frame in the codec, and
\* then for room, before it goes there and an answer comes back.  The round
\* trip must also be shorter than the clock's range.
ASSUME TimingAssumption ==
  /\ \A p \in Peers : Interval[p] + 4 * Delay <= Timeout[p] + 1
  /\ 4 * Delay < ClockRange /\ 4 * Delay < MaxAge

VARIABLES
  now,
  peer,           \* per peer: "running", "crashed", "timed_out"
  ping_sleep,     \* per peer: time until the next PING is due
  unpinged_bytes,
  owed_pong,      \* per peer: the stamp to answer
  pending,        \* per peer: the frame that its codec holds
  net,            \* per peer: frames on their way from it
  taken,          \* per peer: the transport took a frame since the last tick
  inbound_frame_sleep   \* per peer: time until the inbound timeout

scheduleVars == <<ping_sleep, unpinged_bytes>>
vars == <<now, peer, scheduleVars, owed_pong, pending, net, taken, inbound_frame_sleep>>

\* A stamp as it is on the wire, with the ghost of its true age.
micros(p) == (now + Epoch[p]) % ClockRange
Stamp(p) == [t |-> micros(p), age |-> 0]

elapsed_saturating(later, earlier) == IF later < earlier THEN 0 ELSE later - earlier
elapsed(later, earlier) == (later - earlier) % ClockRange

\* The sample that a PONG gives to p now.
round_trip(p, t_echo) == elapsed(micros(p), t_echo)

-----------------------------------------------------------------------------
due_by_bytes(p) == unpinged_bytes[p] >= PingBytes
due(p) == unpinged_bytes[p] >= PingBytes \/ ping_sleep[p] = 0

data_sent(bytes, n) == IF bytes + n > MaxU32 THEN MaxU32 ELSE bytes + n

\* One round of poll_send, with the codec ready for a frame.
take_owed_kept(p) == UNCHANGED owed_pong
take_owed(p) == owed_pong' = [owed_pong EXCEPT ![p] = None]

compose(p, update) ==
  LET ping  == due(p)
      frame == [ping |-> ping, pong |-> owed_pong[p]]
      bytes == IF ping THEN 0 ELSE unpinged_bytes[p]
  IN  /\ peer[p] = "running" /\ pending[p] = None
      /\ ping \/ owed_pong[p] # None \/ update # None
      /\ take_owed(p)
      /\ ping_sleep' = IF ping THEN [ping_sleep EXCEPT ![p] = Interval[p]] ELSE ping_sleep
      /\ unpinged_bytes' = [unpinged_bytes EXCEPT ![p] =
           IF update = None THEN bytes ELSE data_sent(bytes, update)]
      /\ pending' = [pending EXCEPT ![p] = frame]
      /\ UNCHANGED <<now, peer, net, taken, inbound_frame_sleep>>

\* The codec writes the frame, with the stamp of its first byte.
has_room(p) == Len(net[p]) < Cap /\ ~taken[p]
write(p) ==
  /\ peer[p] = "running" /\ pending[p] # None
  /\ has_room(p)
  /\ net' = [net EXCEPT ![p] = Append(@,
       [ping |-> IF pending[p].ping THEN Stamp(p) ELSE None,
        pong |-> pending[p].pong, age |-> 0])]
  /\ taken' = [taken EXCEPT ![p] = TRUE]
  /\ pending' = [pending EXCEPT ![p] = None]
  /\ UNCHANGED <<now, peer, scheduleVars, owed_pong, inbound_frame_sleep>>

\* received_ping: only the latest PING is answered.
received_ping(p, frame) == IF frame.ping = None THEN owed_pong[p] ELSE frame.ping

\* poll_next of the codec restarts the timeout with every frame.
restarted_never(p, frame) == inbound_frame_sleep[p]
restarted(p, frame) == Timeout[p]

\* poll_receive.
receive(p) ==
  LET frame == Head(net[Other(p)])
  IN  /\ peer[p] = "running" /\ net[Other(p)] # <<>>
      /\ net' = [net EXCEPT ![Other(p)] = Tail(@)]
      /\ inbound_frame_sleep' = [inbound_frame_sleep EXCEPT ![p] = restarted(p, frame)]
      /\ owed_pong' = [owed_pong EXCEPT ![p] = received_ping(p, frame)]
      /\ UNCHANGED <<now, peer, scheduleVars, pending, taken>>

\* A frame that is as late as it can be is there.
arrives(p) == net[p] # <<>> /\ Head(net[p]).age = Delay

\* The connection is over, and all it held with it.
over(p, why) ==
  /\ peer[p] = "running"
  /\ peer' = [peer EXCEPT ![p] = why]
  /\ ping_sleep' = [ping_sleep EXCEPT ![p] = 0]
  /\ unpinged_bytes' = [unpinged_bytes EXCEPT ![p] = 0]
  /\ owed_pong' = [owed_pong EXCEPT ![p] = None]
  /\ pending' = [pending EXCEPT ![p] = None]
  /\ inbound_frame_sleep' = [inbound_frame_sleep EXCEPT ![p] = 0]
  /\ UNCHANGED <<now, net, taken>>

\* poll_next finds no frame, and the timeout elapsed.
time_out_unblocked(p) ==
  /\ inbound_frame_sleep[p] = 0 /\ ~arrives(Other(p)) /\ pending[p] = None
  /\ over(p, "timed_out")
time_out(p) ==
  /\ inbound_frame_sleep[p] = 0 /\ ~arrives(Other(p))
  /\ over(p, "timed_out")

crash(p) == over(p, "crashed")

-----------------------------------------------------------------------------
(* Time.                                                                   *)

\* Something that is not put off: a frame to compose or to write, a frame
\* that must be there by now, a timeout.
urgent(p) ==
  /\ peer[p] = "running"
  /\ \/ pending[p] = None /\ (due(p) \/ owed_pong[p] # None)
     \/ pending[p] # None /\ has_room(p)
     \/ arrives(Other(p))
     \/ inbound_frame_sleep[p] = 0

older(n, max) == IF n < max THEN n + 1 ELSE n
aged(stamp) == IF stamp = None THEN None ELSE [stamp EXCEPT !.age = older(@, MaxAge)]
shorter(n) == IF n > 0 THEN n - 1 ELSE 0

tick ==
  /\ \E p \in Peers : peer[p] = "running"
  /\ \A p \in Peers : ~urgent(p)
  /\ now' = (now + 1) % ClockRange
  /\ ping_sleep' = [p \in Peers |-> shorter(ping_sleep[p])]
  /\ inbound_frame_sleep' = [p \in Peers |-> shorter(inbound_frame_sleep[p])]
  /\ owed_pong' = [p \in Peers |-> aged(owed_pong[p])]
  /\ pending' = [p \in Peers |-> IF pending[p] = None THEN None
                                 ELSE [pending[p] EXCEPT !.pong = aged(@)]]
  /\ net' = [p \in Peers |-> [i \in DOMAIN net[p] |->
               [ping |-> aged(net[p][i].ping), pong |-> aged(net[p][i].pong),
                age |-> older(net[p][i].age, Delay)]]]
  /\ taken' = [p \in Peers |-> FALSE]
  /\ UNCHANGED <<peer, unpinged_bytes>>

Init ==
  /\ now = 0
  /\ peer = [p \in Peers |-> "running"]
  /\ ping_sleep = [p \in Peers |-> 0]
  /\ unpinged_bytes = [p \in Peers |-> 0]
  /\ owed_pong = [p \in Peers |-> None]
  /\ pending = [p \in Peers |-> None]
  /\ net = [p \in Peers |-> <<>>]
  /\ taken = [p \in Peers |-> FALSE]
  /\ inbound_frame_sleep = [p \in Peers |-> Timeout[p]]

Next ==
  \/ \E p \in Peers :
       \/ \E update \in Updates[p] : compose(p, update)
       \/ write(p)
       \/ receive(p)
       \/ time_out(p)
       \/ crash(p)
  \/ tick

\* Time passes, and connections are polled.
Fairness ==
  /\ WF_vars(tick)
  /\ \A p \in Peers : /\ WF_vars(\E update \in Updates[p] : compose(p, update))
                      /\ WF_vars(write(p)) /\ WF_vars(receive(p)) /\ WF_vars(time_out(p))

Spec == Init /\ [][Next]_vars /\ Fairness

-----------------------------------------------------------------------------
(* Properties.                                                             *)

\* "This is safe to use even with periods of no traffic" (config.rs): a peer
\* that runs is not taken for dead, even one whose own PINGs are further apart
\* than the timeout: its answers come in time.
LiveIsNotTakenForDead ==
  \A p \in Peers : peer[p] = "timed_out" => peer[Other(p)] = "crashed"

\* A sample is the time that passed since the first byte of the PING, across
\* the wrap of the clock.
SampleIsElapsed ==
  \A p \in Peers : \A i \in 1 .. Len(net[p]) :
    LET pong == net[p][i].pong
    IN  pong # None /\ peer[Other(p)] = "running" => round_trip(Other(p), pong.t) = pong.age

\* Where a PING of p may be, and its answer, from the last PING to the first.
\* A peer that is gone answers no more.
Stamped(q, kind) == [i \in 1 .. Len(net[q]) |-> net[q][Len(net[q]) + 1 - i][kind]]
Answer(q) == IF pending[q] = None THEN None ELSE pending[q].pong
InFlight(p) ==
  LET q == Other(p)
  IN  (IF peer[q] = "running" THEN Stamped(p, "ping") \o <<owed_pong[q], Answer(q)>> ELSE <<>>)
        \o Stamped(q, "pong")

\* Every sample comes from a later PING than the one before: a PING is
\* answered at most once, and never after a later one (pings.rs).
SamplesMoveForward ==
  \A p \in Peers : peer[p] = "running" =>
    \A i, j \in 1 .. Len(InFlight(p)) :
      i < j /\ InFlight(p)[i] # None /\ InFlight(p)[j] # None =>
        InFlight(p)[i].age < InFlight(p)[j].age

\* A peer that crashed is noticed, by a connection that may be blocked on a
\* full transport (poll_next of the codec).
DeadIsNoticed ==
  \A p \in Peers : peer[p] = "crashed" ~> peer[Other(p)] # "running"

\* Samples keep coming to both peers while both run, with or without data to
\* send (poll_due, take_frame_part).
SamplesKeepComing ==
  \A p \in Peers :
    []<>(\/ \E q \in Peers : peer[q] # "running"
         \/ \E i \in 1 .. Len(net[p]) : net[p][i].pong # None)
=============================================================================
