------------------------------ MODULE Liveness ------------------------------
(***************************************************************************)
(* The liveness timer of the reader loop: last_recv, the tick that bounds  *)
(* each read, and the time that waiting for event queue capacity costs,    *)
(* which is credited to last_recv because the loop reads nothing meanwhile. *)
(*                                                                         *)
(* Time is discrete.  The loop is polled promptly: time passes only while  *)
(* it waits in a read or for capacity.                                     *)
(***************************************************************************)
EXTENDS Integers

CONSTANTS
  ReaderTick, \* READER_TICK_MS
  Budget,     \* the budget of EventOverflow::BlockFor
  PerMs,      \* units of time in a millisecond
  MaxBatch,   \* bound: messages that one read completes
  MaxTime,    \* bound: length of a behaviour
  Durations   \* arguments of set_liveness_timeout()

ASSUME LivenessAssumption ==
  /\ ReaderTick \in Nat \ {0} /\ Budget \in Nat /\ PerMs \in Nat \ {0}
  /\ MaxBatch \in Nat /\ MaxTime \in Nat
  /\ Durations \subseteq Nat

VARIABLES
  now,
  loop,                 \* where the loop is: "parse", "stalled", "read", "expired" or "ended"
  unread,               \* bytes wait in the socket
  buffered,             \* complete messages in the parser
  entered,              \* when this read or this wait for capacity began
  last_recv,
  liveness_timeout_ms,
  arrived_at,           \* history: when bytes last arrived
  stalled,              \* history: time spent waiting for capacity since then
  free_since            \* history: since when the loop, not stalled, has this timeout

timerVars == <<now, loop, unread, buffered, entered, last_recv, liveness_timeout_ms, arrived_at,
               stalled, free_since>>
history == <<arrived_at, stalled, free_since>>

Threshold == liveness_timeout_ms * PerMs

TimerTypeOK ==
  /\ now \in Nat
  /\ loop \in {"parse", "stalled", "read", "expired", "ended"}
  /\ unread \in BOOLEAN
  /\ buffered \in Nat
  /\ entered \in Nat /\ entered <= now
  /\ last_recv \in Nat /\ last_recv <= now
  /\ liveness_timeout_ms \in Nat
  /\ arrived_at \in Nat /\ stalled \in Nat /\ free_since \in Nat

\* The parser may hold messages that were read during the handshake.
TimerInit ==
  /\ now = 0
  /\ loop = "parse"
  /\ unread \in BOOLEAN
  /\ buffered \in 0 .. MaxBatch
  /\ entered = 0
  /\ last_recv = 0
  /\ liveness_timeout_ms = 0
  /\ arrived_at = 0 /\ stalled = 0 /\ free_since = 0

Running == loop \notin {"expired", "ended"}

\* dispatch_message(): at once, or after a wait for capacity.
Dispatch ==
  /\ loop = "parse"
  /\ buffered > 0
  /\ buffered' = buffered - 1
  /\ loop' \in {"parse", "stalled"}
  /\ entered' = now
  /\ UNCHANGED <<now, unread, last_recv, liveness_timeout_ms, history>>

\* Faulty variant: the stall is not credited.
StallEndsUncredited ==
  /\ loop = "stalled"
  /\ loop' = "parse"
  /\ UNCHANGED <<now, unread, buffered, entered, last_recv, liveness_timeout_ms, history>>

\* Capacity, or the budget is spent: last_recv += sink.stalled.
StallEnds ==
  /\ loop = "stalled"
  /\ loop' = "parse"
  /\ last_recv' = last_recv + (now - entered)
  /\ UNCHANGED <<now, unread, buffered, entered, liveness_timeout_ms, history>>

StartRead ==
  /\ loop = "parse"
  /\ buffered = 0
  /\ loop' = "read"
  /\ entered' = now
  /\ UNCHANGED <<now, unread, buffered, last_recv, liveness_timeout_ms, history>>

\* The bytes may be a part of a message only; the timer starts afresh anyway.
Fed ==
  /\ loop = "read"
  /\ unread
  /\ unread' = FALSE
  /\ buffered' \in 0 .. MaxBatch
  /\ last_recv' = now
  /\ loop' = "parse"
  /\ UNCHANGED <<now, entered, liveness_timeout_ms, history>>

\* Faulty variant: a tick is allowed for on top.
liveness_expired_late == liveness_timeout_ms # 0 /\ now - last_recv > Threshold + ReaderTick

liveness_expired == liveness_timeout_ms # 0 /\ now - last_recv > Threshold

\* The timeout of the read polls the socket first.
Idle ==
  /\ loop = "read"
  /\ ~unread /\ now = entered + ReaderTick
  /\ loop' = IF liveness_expired THEN "expired" ELSE "parse"
  /\ UNCHANGED <<now, unread, buffered, entered, last_recv, liveness_timeout_ms, history>>

\* EOF, an error, a message that ends the loop, a closed channel.
Ends ==
  /\ Running
  /\ loop' = "ended"
  /\ UNCHANGED <<now, unread, buffered, entered, last_recv, liveness_timeout_ms, history>>

\* Any task, at any time.
SetLivenessTimeout ==
  /\ Running
  /\ \E d \in Durations : liveness_timeout_ms' = d \div PerMs
  /\ free_since' = now
  /\ UNCHANGED <<now, loop, unread, buffered, entered, last_recv, arrived_at, stalled>>

Arrive ==
  /\ Running
  /\ unread' = TRUE
  /\ arrived_at' = now
  /\ stalled' = 0
  /\ UNCHANGED <<now, loop, buffered, entered, last_recv, liveness_timeout_ms, free_since>>

TimePasses ==
  /\ now < MaxTime
  /\ now' = now + 1
  /\ \/ /\ loop = "stalled"
        /\ now < entered + Budget
        /\ stalled' = stalled + 1
        /\ free_since' = now'
     \/ /\ loop = "read"
        /\ ~unread /\ now < entered + ReaderTick
        /\ UNCHANGED <<stalled, free_since>>
  /\ UNCHANGED <<loop, unread, buffered, entered, last_recv, liveness_timeout_ms, arrived_at>>

TimerNext ==
  \/ Dispatch \/ StallEnds \/ StartRead
  \/ Fed \/ Idle \/ Ends
  \/ SetLivenessTimeout \/ Arrive \/ TimePasses

TimerSpec == TimerInit /\ [][TimerNext]_timerVars

-----------------------------------------------------------------------------
\* The comment in reader_loop_inner(): a stall reads nothing, but the peer never
\* stopped sending.  HeartbeatExpired is reported only when more than the timeout
\* has passed since bytes last arrived, not counting the time in which the loop
\* itself was waiting for the application.
NoFalseExpiry == loop = "expired" => liveness_timeout_ms # 0 /\ now - arrived_at - stalled > Threshold

\* A silent peer is noticed: a loop that still reads is at most one tick past the
\* end of the timeout, or past the moment it was set or the last stall ended.
DetectedInTime ==
  loop = "read" /\ ~unread /\ liveness_timeout_ms # 0 =>
    \/ now <= arrived_at + stalled + Threshold + ReaderTick
    \/ now <= free_since + ReaderTick

\* What last_recv stands for: the last arrival, moved by the stalls since, however
\* arrivals, reads and stalls interleave.
ClockExact ==
  ~unread /\ Running =>
    last_recv + (IF loop = "stalled" THEN now - entered ELSE 0) = arrived_at + stalled
=============================================================================
