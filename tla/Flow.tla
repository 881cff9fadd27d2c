-------------------------------- MODULE Flow --------------------------------
(***************************************************************************)
(* The arithmetic of the flow control (src/flow.rs).  A direction of a     *)
(* stream has `unacked' bytes in flight; those beyond its base window B    *)
(* are borrowed from a pool of PoolSize bytes that all streams share.      *)
(***************************************************************************)
EXTENDS Integers, FiniteSets

CONSTANTS
  Streams,      \* the streams of the connection
  B,            \* base window of a stream: local_recv_window = remote_recv_window
  PoolSize,     \* shared pool: local_recv_pool = remote_recv_pool
  FrameLimit    \* largest DATA payload

ASSUME FlowAssumption ==
  /\ IsFiniteSet(Streams)
  /\ B \in Nat \ {0}
  /\ PoolSize \in Nat
  /\ FrameLimit \in Nat \ {0}

Least(a, b)    == IF a <= b THEN a ELSE b
Greatest(a, b) == IF a >= b THEN a ELSE b

\* u64::saturating_sub
SaturatingSub(a, b) == IF a >= b THEN a - b ELSE 0

\* T_c: the credit that accumulates before it is sent
credit_threshold_fixed(base) == 32 * 1024
credit_threshold(base) == Greatest(Least(32 * 1024, base \div 2), 1)

-----------------------------------------------------------------------------
(* Window: what `unacked' bytes in flight mean for the base window.        *)

borrowed_at_late(unacked) == SaturatingSub(unacked, B + 1)
borrowed_at(unacked) == SaturatingSub(unacked, B)
base_room(unacked)   == SaturatingSub(B, unacked)

(* Pool: `used' is kept as a running sum, one stream at a time.            *)

room(used)         == SaturatingSub(PoolSize, used)
has_room(used)     == room(used) > 0
is_overdrawn(used) == used > PoolSize

\* Window::set: pool.used after one window goes from `old' to `new' bytes
set_used_growing(used, old, new) == Greatest(used, used - borrowed_at(old) + borrowed_at(new))
set_used(used, old, new) == used - borrowed_at(old) + borrowed_at(new)

\* ... and whether the stream gave some of the pool back
set_freed(old, new) == borrowed_at(new) < borrowed_at(old)

-----------------------------------------------------------------------------
(* What `used' should be: U, the sum of the bytes the streams borrow.  The *)
(* sum is counted as a set with one element per borrowed byte.             *)

BorrowedBytes(unacked) ==
  UNION {{s} \X (1 .. borrowed_at(unacked[s])) : s \in Streams}

PoolUsage(unacked) == Cardinality(BorrowedBytes(unacked))
=============================================================================
