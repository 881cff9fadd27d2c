# A TLA+ specification of rammux

rammux multiplexes streams over one transport. Several things in it are hard to test. One is
*transit control*: every direction of a stream has a base window of `B` bytes, all streams
share a pool of `P` more, and the sender alone decides who borrows from it. Another is the
*life of streams and connections*: four FINs close a stream, IDs are reused at once, and a
connection ends by a failure or by a downgrade that hands the transport back. Below them, a
*codec* reads and writes frames in pieces, *timers* tell a quiet peer from a dead one, and two
*lists of raw pointers* hold the waiting streams and the received data. This directory models
all of these in TLA+, checks them with TLC, and proves the safety of transit control, of
connections, of the timeout and of the list of received data with TLAPS.

## The system and its modules

| Part (under `src/src`) | State | Modules | Status |
|---|---|---|---|
| `flow.rs` pools, windows, credit threshold | counters | `Flow` | modelled, proved |
| `stream/outbound.rs` sender of a direction | ready data, bytes in flight, FINs, writer's waker | `Outbound` | modelled, proved |
| `stream/inbound.rs` receiver of a direction | unread data, credit, FINs, reader's waker | `Inbound` | modelled, proved |
| `stream/turns.rs`, `conn_flow.rs` who may borrow next | queue of streams | `Outbound` | modelled, proved |
| `stream/updates.rs`, `handle.rs`, `duplex.rs` tasks and handles | scheduled tasks | `Link`, `Transit`, `Pipes` | modelled, proved |
| `pin_list.rs` the list behind the queue | links, owners, references | `PinList`, `TurnQueue` | modelled |
| `stream.rs` a stream with both directions | one record | `StreamState` | modelled, proved |
| `connection/streams.rs`, `stream_id.rs` streams of a connection | IDs, limits | `Connection` | modelled, proved |
| `connection.rs`, `active.rs`, `state.rs` the connection task | state, frames | `Connection`, `Pings` | modelled, proved |
| `connection/downgrade.rs` the downgrade | TERM sent, TERM received | `Connection` | modelled, proved |
| `wire/header.rs` encoding | none | `Header` | modelled |
| `wire/codec.rs`, `encoder.rs`, `decoder.rs` | frame being written or read | `Codec`, `FrameLink` | modelled |
| `connection/pings.rs`, `wire/clock.rs` | timers, owed PONG | `Pings` | modelled, proved |
| `buffer.rs` received data | storages, links in the payload | `DataList`, `ChunkQueues` | modelled, proved |
| `config.rs` | none | `Pings`, assumptions | the checks |
| `flow/rate.rs`, `Srtt` | floating-point averages | | not modelled |
| `error.rs`, `lib.rs`, `wire.rs` | none | | not modelled |

How they fit together, from the bottom:

* `Codec` implements `FrameLink`, a queue of whole frames, which is what `wire` and `pending`
  of `Connection` and the queues of `Link` take for granted.
* `DataList` implements `ChunkQueues`, which is what `unread` of `Inbound` is.
* `PinList` implements `TurnQueue`, which is what `turns` of `Outbound` is.
* `Transit` implements `Pipes`: what two applications see of a direction.
* `Pings` gives the samples behind the allowances of `Outbound`, and the inbound timeout that
  is one of the failures of `Connection`.

The `MC` modules hold the values of constants that a configuration file cannot express, and
the smaller next-state relations that some runs use.

### Transit control

`Transit` extends `Outbound` and `Inbound`, which extend `Link` and `Flow`. It has one
direction of every stream of a connection: a sink that writes, the sender, the frames on
their way (`toReader`), the receiver, a stream that reads, and the WINDOW and FIN_READ frames
on their way back (`toWriter`). The other direction is the same code and shares nothing but
the frames that carry it.

* **Data.** A byte is its position in what the application wrote. A frame is a range
  `[from, to, fin]`, and a WINDOW is the range it returns. The code keeps only the lengths.
* **Tasks.** `awake` and `rxAwake` are the `StreamUpdates` tasks that are scheduled.
  `PollOutbound` and `PollInbound` are the two halves of `StreamUpdates::poll_progress`; a
  poll that finds nothing removes the task from the set. The task may also be polled without
  being scheduled, as the executor may do. An update after which no more can follow ends the
  task (`breaks`); since that depends on the other direction too, it is a choice.
* **Applications.** A waiting task is a member of `parkedWriters` or `parkedReaders`;
  whatever calls its waker takes it out.
* **Allowance.** `Ledger::plan` asks the rate estimate how much a stream may borrow. The
  model takes any member of `Allowances`, a new one at each poll. So it covers every
  estimate, the missing one before the first PONG included.
* **Errors.** A `StreamError` sets `error` and leaves the rest as it is. The code may have
  counted bytes before it found the error, but then the whole connection is dropped.
* **Frames.** Each stream has its own queues. The connection sends the frames of all streams
  in one order; separate queues allow that order and more.

### Streams and connections

`StreamState` has a stream with both directions as a record, with operations as functions
from a record to a record. `Connection` has two peers with such records per ID, the frame
that the codec writes (`pending`), and what the transport holds (`wire`). The pool is empty
and data is counted in frames, because the details of borrowing belong to `Transit`. That a
stream with something to send is scheduled is shown there too (`SleepInv`), so here any
stream may be polled.

`held` says that the connection has a handle to the stream. A record whose stream was removed
stays as the halves that the application still has, until the ID is reused; a removed stream
has nothing left to read. `gen` is a ghost: the parity of the incarnation of an ID, copied
into frames, so that a property can tell whose frame it is. No action looks at it.

The transport is external: it holds up to `WireCap` frames each way, delivers them in order,
and fails or ends at any point. After a downgrade, `Raw` stands for what the application
sends over it.

### The lists

`PinList` has the links of every element and the ends of every list. Operations of one list
exclude each other (`&mut self`), those of two lists do not, so an operation that changes the
owner of an element takes two steps: claim and link, or unlink and release. `TurnQueue` is
what the users rely on: independent FIFO queues. `Walk` follows the links, and with
`queue <- Walk` the list implements `TurnQueue`, which is why `Outbound` can use a sequence.
Memory orderings are taken as sequentially consistent.

`DataList` has memory: an address holds the cells of a storage, the first of which is the link
to the next one, or nothing when it is free. A frame goes from `Buffer::with_capacity` over
reads of any size and `assume_init` into a list, from there to the application, and is freed
by whoever has it last; the list may be dropped at any time, and another list goes on between
two steps of that. The allocator may give a freed address out again at once, and a link is
never reset, so a storage may hold a stale link to a storage of another stream. `path` is a
ghost, the storages that were pushed and not popped; no guard looks at it.

### The wire

`Header` has the flags, `encode`, `decode` and `validate` as operators on bytes. `Codec` has
one direction of a transport: the `EncoderItem` of one peer, bytes that the transport keeps
until it is flushed, bytes that can be read, and the `DecoderState` of the other. Every write
and read has any size the code allows. The stamp of a PING is renewed until the transport
took the first byte. The other peer is either this code, or any implementation, of which one
frame is read with every combination of flags. `flow`, `taken` and `cut` are ghosts: the
frames that began to leave, the bytes of the frame that is being read, and whether the writer
left in the middle of one.

`Pings` has two peers in discrete time, each with its interval, timeout and epoch of the
clock. Time passes only when no connection has something to do. The transport delivers within
`Delay`, and may be full. A PING carries its stamp and, as a ghost, its true age.

## The runs

Each takes at most about two minutes. `MaxChunk`, `MaxWritten`, `WireCap`, `Cap`, `MaxRaw` and
`MaxAge`, and smaller values of `MaxCredit`, `MaxU32` (for `u32::MAX`) and `ClockRange` (for
2^32), are bounds of the model; the others are parameters of the code.

| Run | Instance | Shows |
|---|---|---|
| `TransitSingle` | 1 stream, everything enabled, fair, B=4, P=1, frames of 3, 6 bytes | no protocol error; sender counts no less than receiver; credit cannot deadlock; no waiter forgotten; order; a pipe per stream, whose end comes after all of its data; what is written is read; closing ends on both sides |
| `TransitTurns` | 3 streams, B=1, P=1 | no lost turn; the memory bound |
| `TransitClosing` | 2 streams that close, B=1, P=1 | pools in sync |
| `TransitServed` | 2 streams that write for ever and may stop reading, fair connections, B=1, P=1 | turns in order; every turn comes |
| `ConnectionLimit` | 2 IDs, limit 1 | no protocol violation while IDs come and go; frames reach the stream they belong to |
| `ConnectionEnds` | 1 ID, failures and downgrades | no violation; no waiter forgotten; data kept; clean handover |
| `ConnectionOver` | 1 ID that is used once, fair, failures and downgrades | both sides end; downgrades finish; a finished stream frees its ID |
| `ConnectionShutdown` | as `ConnectionEnds` | violated, see below |
| `PinList` | 2 lists, 4 elements, fair | the lists implement queues; `remove` removes the right element; links never dangle; a dropped list releases everything |
| `Codec` | 4 frames (PING, data with PONG, everything at once, TERM), a transport of 3 bytes, fair | the bytes implement a queue of frames; nothing is read past TERM; exactly the illegal is refused, a length above the limit included, and a frame has one encoding; every frame arrives |
| `Pings` | intervals 2 and 6, timeouts 5 and 9, a delay of 1, a clock that wraps at 5, fair | no live peer is taken for dead; a dead one is noticed; samples are right, in order, and keep coming |
| `DataList` | 2 lists, 3 addresses, chunks of 0, 1 and 2 bytes | every storage has one owner; links; the lists implement queues of chunks, none of which has an unwritten byte |

**Why the bounds are enough.** With B=4 the threshold is 2: it is below the window, and the
credit of one byte is held back. With B=1 it equals the window. These are its two cases. Frames
are smaller than the window (B=4) and larger (B=1), and `MaxWritten` is above B + P, so that a
stream alone can use up both. The pool is smaller than the streams want, so they queue. In
`TransitTurns` one of three streams has the pool while the two others wait; each writes two
bytes, so nobody comes back to the queue. In `TransitServed` they do come back: writing never
ends, and a stream has up to three bytes that are not credited yet, one in its base window, one
in the pool, and one for which it waits in the queue behind the other stream. Positions only
name bytes, so `Renumber` of `MCTransit`, which is no step of the code, forgets the bytes whose
credit is back and counts from 0 again; it makes endless traffic a finite graph. Allowances
include none, some and, in `TransitSingle`, more than the pool. `MaxCredit` is below
the credit that can accumulate, so the split of a large credit happens. In `Connection`, a
window of one frame makes every frame wait for credit and `WireCap = 1` makes every write
wait for a read, so both directions can be full. One ID is reused without bound; two IDs and
a limit of one let one stream start while the other side still has the last one. In `Codec`
every frame but one is longer than the transport, so partial writes and reads are the rule,
and the clock ticks between them; credits and stamps have two bytes, one more than an order of
bytes needs to show. The fields of another implementation are made of the bytes 0 and 1, its flags
of all, and its lengths also reach the frame limit and one more. In `Pings` the server's interval is longer than the client's timeout, so
the client lives on the answers to its own PINGs; the clock wraps within every few PINGs, the
bytes saturate, and the intervals are as close to the timeouts as `TimingAssumption` allows
for the client. Three addresses for two lists make the allocator reuse them while stale links
are around.

**Deadlock** is not checked where the system may stop: a connection that ended on both sides,
lists that are dropped, a codec whose peer left, two peers that are dead. In `Transit` an idle
task can always be polled, so what TLC calls a deadlock cannot happen there; that nobody waits
for ever is what its invariants about wake-ups and its liveness properties say.

**Fairness.** Scheduled tasks are polled and frames that arrived are handled: the application
must keep polling the connection, and Tokio runs woken tasks. In `TransitSingle` readers keep
reading; without that nothing is owed to the writer. In `TransitServed` they need not. Nothing is assumed of
writers, of closing, of opening streams, or of failures. In `Connection` there is one fair action
to read and one to write per peer, as a poll tries both: it reads what is there, the end of the
transport included, and writes while there is room or notices that the other peer is gone. The
application that recovered a transport reads from it. In `Codec` both
sides are polled, and a transport whose buffer is full sends on by itself; that one that is
not full does so is not assumed, which is why `poll_flush` matters. In `Pings` time passes
and due work is done. In `PinList` only the drop of a list goes on, a loop.

**Whose turn it is.** A stream whose reader goes on reading always gets credit and sends on,
whatever happens to the pool. The queue of turns matters to one whose base window stays full, and
`TurnComes` is about it: if the pool has room again and again, the stream borrows again and again.
There is one exception, which TLC finds when it is left out. `Ledger::plan` does not look at the
queue when the frame fits the base window, so a stream that is first in line and then always has
credit in time keeps its place for as long as that lasts ("A stream woken by its own credit keeps
its place", `TRANSIT_CONTROL.md`), and those behind it wait although the pool has room.

**The timing of PINGs.** `config.rs` says of the inbound timeout that it is safe with periods
of no traffic, and `validate` asks for an interval below the timeout. `LiveIsNotTakenForDead`
needs more: the answer to a PING has to be back within the timeout. A PING that is due may
find a frame in the codec, which may have to wait for room; then it waits for room itself; then
it goes there, and an answer comes back. Each of the four takes at most a delay, so
`Interval + 4 * Delay <= Timeout + 1` (`TimingAssumption`). With one tick less for the client of
the run, TLC finds a live peer that is taken for dead. The code cannot check this, as it does
not know the delay; whoever sets the two has to leave room for it.

**`ConnectionShutdown`.** `README.md` says "rammux never shuts down the original transport."
`Downgraded::with_shutdown` makes the downgrade do so: `poll_recover_writer` then calls
`poll_close` on the codec (`connection/downgrade.rs`). The sentence holds for a downgrade
without that option.

A smaller difference needs no run: the comment on `credit_threshold` in `flow.rs` says the
threshold is "at most half of the base window", and `TRANSIT_CONTROL.md` uses `T_c <= B / 2`
in its argument against deadlock. For B=1 the code gives 1. The conclusion still holds, for
every B: the proof of `NoCreditDeadlock` needs only `T_c <= B`.

## The proofs

The theorems about transit control hold for every set of streams that is finite, every B > 0,
pool size, frame limit, set of allowances and bound; those about `Connection` for every finite
set of IDs, stream limit, window, and size of the transport; those about `Pings` for every
interval, timeout, delay, clock and size of the transport that `TimingAssumption` allows; those
about `DataList` for every set of lists, addresses and chunks. The assumptions are named in the
modules that declare the constants, and TLC evaluates them in the runs.

| Module | Contents |
|---|---|
| `SenderProofs` | the turn queue, chains of frames, arithmetic of the window; each step of the sender preserves the invariant of `Transit` |
| `ReceiverProofs` | each step of the receiver preserves it |
| `TransitProofs` | `PoolUsageSet`, `PoolUsageMonotone`: the pool's counter is the sum of what streams borrow; `TransitInvariant` (`Spec => []IInv`) and the properties that follow; `PipesImplemented` (`Spec => ImplementsPipes`); `TurnsKeepOrder`; `MemoryKept` |
| `PeerInvariant` | the invariant of one stream, of one peer and of TERM; what a step does to a stream |
| `PeerProofs` | every operation of `StreamState` and step of `Connection` preserves it; `NobodyIsForgotten`, `AbortLosesNothing`, `HandoverIsClean` |
| `ConnectionLemmas` | the invariant that relates the two sides of a stream and the frames between them, and what sending and receiving do to it |
| `ConnectionProofs` | every step preserves it; `PeersNeverViolate`, `FramesFindTheirStream` |
| `PingsProofs` | `LiveIsKept`: the next frame is never further away than the timeout; `SamplesAreRight`, `SamplesInOrder`: the times, ages and order of the stamps |
| `DataListProofs` | the invariant of `DataList`, and `DataListRefinement` (`Spec => ImplementsChunks`) |

**Transit control.** The code subtracts credit from counters on two sides of a network, and the
sums of what is in flight are what relates them. Positions turn those sums into differences:
the frames of a queue form a `Chain`, so they carry exactly the distance between its ends.
`DataInv` places the reader behind what arrived, and that behind what was sent; `CreditInv`
places the credit that was returned behind the credit that was promised, and both sides'
`unacked` are differences of two such positions. `SenderNeverSmaller` follows, and with
`PoolUsageMonotone` the receiver's pool is never used more than the sender's, so the
receiver's check never fires. `CloseInv` says which FINs belong to which states.
`SleepInv` says that a task that sleeps has nothing to do, and gives `NoCreditDeadlock`.
None of the properties is inductive without these.

The sum of borrowed bytes is written as the size of a set of bytes (`BorrowedBytes`), so that
the theorems about finite sets apply. What the steps need of it is the formula `PoolLaws`,
which they take as a hypothesis and `TransitProofs` discharges: theorems about finite sets in the
context of an arithmetic step would only slow its provers down.

Three theorems rest on that invariant and have an argument of their own.
`PipesImplemented` maps `out` to open or closed: a chunk that is read starts at the reader and
ends within what was written, and a reader that is told of the end has read it all.
`TurnsKeepOrder` needs that no stream is in the queue twice (`Distinct`), because only then is
"ahead of" an order; leaving keeps the order of the others, joining goes behind them, and only
a stream that went beyond its base window is moved to the end. `MemoryKept` charges every
buffered byte to a byte of its stream's base window or to a byte that the stream borrows, by
its distance from the reader; both maps are injections.

**Connections.** What the two peers say to each other is one sequence of packets each way: what
the transport holds and the frame in the codec, `Chan(p)`. A step adds a packet at its end
(`Grown`), takes the first (`Taken`), or loses its end when the writer fails (`Cut`).

`LocalInv` and `TermInv` look at one peer and one channel. A waker is only stored where its
event can still come (`StreamInv`); a peer holds the streams that are not dead; TERM is the last
packet before what the applications send over a recovered transport, and a reader that got TERM
has nothing of the protocol before it (`TermOk`).

That no peer refuses a frame needs both sides at once, because they learn of the same events at
different times. `FrameInv` says three things of every pair of active peers.
`Accept`: every frame on its way will be welcome when it is its turn. Frames without SYN belong
to the stream that is there, no frame follows its own FIN, and a SYN comes for an ID whose
stream is dead or is *finishing*: the frames before the SYN complete it.
`Ledger`: the two sides of a stream agree up to what is on its way (`Same`), or one of them has
started a stream that the other one does not know of yet (`Fresh`). It keeps the books of each
direction: data and credit on their way, unread data and credit not yet announced are at most
what the sender has not got back.
`Limit`: when a SYN is at the front, the streams that are not finishing by then are no more than
the limit, although the peers count different sets at different times.
From `Accept` and `Limit` the first frame raises no error and starts or finds its own stream,
which is `NoViolation` and `FramesReachTheirStream`.

The sum of the data in a channel would be a recursion. `AtMost` says that it is bounded by `n`
without computing it: there is a function from the positions that starts within `n` and falls
by at least what each frame carries. Frames at both ends shift or extend the witness.
That counting IDs is monotone is the formula `CountsIds`, a hypothesis that `ConnectionProofs`
discharges, for the same reason as `PoolLaws`.

**The timeout.** `InTime` bounds how long the next frame takes to arrive, by where it is: on its
way, in the codec of the other peer, owed as a PONG, or still to be caused by a PING that is on
its way, in the codec, due or going to be due (`FrameIn`). Each place is one delay further
away than the one before, and `RoomIn` bounds the wait for a transport that is full. A tick
takes one from both the bound and the timeout; the other steps move the frame a place on without
raising the bound; and what restarts the timer leaves the whole timeout, which is where
`TimingAssumption` is needed. `LiveIsNotTakenForDead` alone says nothing of the timers.

**The samples.** `SampleInv` says three things of every stamp on its way to the peer that wrote
it. `TimeInv`: the wrapping clock of that peer shows the stamp's age modulo the clock's range
(`WrapsOnce`: wrapping before a sum or after it is the same), and only a transport that took a
frame since the last tick carries a stamp of age 0. `Young`: a stamp is at most one delay old when
it arrives, two when it moves to the codec, three when it is written back and four when it
returns, by the same `RoomIn` as above; so its age is less than the range, and the sample is
the age itself. `Order`: from the last PING on its way to the first PONG the ages rise. A new PING
is younger than all others, `received_ping` replaces what is owed by something younger, and a
tick adds one to all of them, for which `Young` keeps the ghost age below its bound.
`SampleIsElapsed` speaks only of PONGs on their way, and `SamplesMoveForward` needs the two other
parts at a write and at a tick, so neither is inductive.

**The received data.** The inductive invariant of `DataList` is the conjunction of what the
run checks, `TypeOK`, `OneOwner` and `WellLinked`, and of `FrameFilled`. None is inductive alone. A
push writes the link of the tail, which must not be the storage of anybody else (`OneOwner`);
a pop follows the link of the head, which is right unless it is the last one (`WellLinked`),
and then is not read; and `Data` has no unwritten byte because the frame was filled to its end
(`FrameFilled`). For the refinement, the queue of a list maps to the contents of the storages
on its path; an operation writes at most to its own storage or to a link, neither of which is
the content of another.

A leaf of a proof is arithmetic or logic, seldom both. The modules set the provers of a leaf
that names none; a leaf where the other one is right names it. A citation costs a prover more,
the more is stated before it, so facts about one peer do not extend those about both, and a
step that many leaves need is used once for all of them. The proofs of a module take between four and
twelve minutes from nothing.

Proved of `Transit`: every invariant the runs check, the action property `TurnsInOrder`, and
the refinement of `Pipes`; also `TypeOK`, `PoolsNotOverdrawn`, `EndIsComplete` and the inductive
invariant `IInv`, which the runs therefore leave out. Proved of `Connection`: every invariant the
runs check, and the action property `AbortKeepsData`. Proved of `DataList`: every invariant and
the refinement of `ChunkQueues`. Proved of `Pings`: every invariant the run checks.

Only model-checked: all liveness, which this prover cannot do, and everything about `Codec` and
`PinList`. What `Walk` of
`PinList` computes is recursion along the links, and `from_be_bytes` of `Header` is one along the
bytes; what they yield for every input needs induction over data, which is out of its reach.

## What is not modelled

* **The rate estimate and the smoothed round trip time** (`flow/rate.rs`, `Srtt` in `flow.rs`):
  averages in floating point with weights of the exponential of elapsed time. TLA+'s tools have
  no such numbers, and rounding them to small integers would model something else. Their only
  effect on control is the allowance of a stream, which `Outbound` takes as any member of a
  set, anew at every poll.
* **Builders and defaults** of `config.rs`, **messages and conversions** of `error.rs`,
  re-exports of `lib.rs` and `wire.rs`: no state. The limits that `validate` checks are the
  assumptions of the modules.
* **Memory orderings** of the atomics of `pin_list.rs` are taken as sequentially consistent;
  the lock of a stream makes each of its operations one step.
* **Both directions of a stream over a pool that is not empty** are not composed in one module:
  `Connection` has both directions without a pool, `Transit` has one direction with it. They
  share no state but the task, whose end is a choice in `Transit`.
