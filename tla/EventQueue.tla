----------------------------- MODULE EventQueue -----------------------------
(***************************************************************************)
(* The bounded event channel between the reader task and the application. *)
(*                                                                         *)
(* The reader hands every event, and every error it wants the application  *)
(* to see, to an mpsc channel.  What it does when the channel is full is   *)
(* the EventOverflow policy: drop the item, count it and arm a QueueFull   *)
(* notice, or first wait a bounded time for capacity.  The consumer runs   *)
(* on another thread, so it may take an item between any two channel       *)
(* operations of the reader.                                               *)
(*                                                                         *)
(* Items are numbered in the order in which the reader takes them off the  *)
(* socket.                                                                 *)
(***************************************************************************)
EXTENDS Integers, Sequences, FiniteSets

CONSTANTS Capacity,   \* EslConnectOptions.event_queue_size, at least 1
          BlockFor,   \* the policy: EventOverflow::BlockFor or DropIncoming
          MaxItems    \* bound: items that arrive on the connection

ASSUME QueueAssumption ==
  /\ Capacity \in Nat \ {0}
  /\ BlockFor \in BOOLEAN
  /\ MaxItems \in Nat

VARIABLES
  queue,      \* the mpsc channel, oldest first
  armed,      \* SharedState.queue_full_notice_armed
  dropped,    \* SharedState.dropped_event_count
  pc,         \* where the reader is
  kind,       \* how the item in hand is dispatched
  taken,      \* number of items taken off the socket; the last one is in hand
  stop,       \* whether teardown_for_reexec() has sent the stop signal
  draining,   \* the reader has seen the stop signal
  reason,     \* what reader_loop_inner() returned
  status,     \* SharedState.status_tx
  open,       \* the application still holds the EslEventStream
  last,       \* last item the consumer received, a notice included
  received,   \* history: the items the consumer received
  lost,       \* history: the items dropped
  announced   \* history: the item in hand when the latest notice was queued

readerVars   == <<pc, kind, taken, draining, reason>>
consumerVars == <<open, last, received>>
historyVars  == <<lost, announced>>
vars == <<queue, armed, dropped, pc, kind, taken, stop, draining, reason, status,
          open, last, received, lost, announced>>

\* Err(EslError::QueueFull); every other item is the number of its arrival.
QueueFull == 0

\* dispatch_event(); dispatch_notice() with the loop going on; dispatch_notice()
\* for a frame that ends the loop (rude rejection, stray auth request).
Kinds == {"event", "notice", "final"}

Reasons == {"None", "ReexecTeardown", "Other"}

TypeOK ==
  /\ queue \in Seq(Nat) /\ Len(queue) <= Capacity
  /\ armed \in BOOLEAN
  /\ dropped \in Nat
  /\ pc \in {"ready", "flush", "send", "wait", "parked", "returned", "exiting", "gone"}
  /\ kind \in Kinds
  /\ taken \in Nat
  /\ stop \in BOOLEAN
  /\ draining \in BOOLEAN
  /\ reason \in Reasons
  /\ status \in {"Connected", "Disconnected"}
  /\ open \in BOOLEAN
  /\ last \in Int
  /\ received \subseteq 1 .. taken
  /\ lost \subseteq 1 .. taken
  /\ announced \in 0 .. taken

Init ==
  /\ queue = <<>>
  /\ armed = FALSE
  /\ dropped = 0
  /\ pc = "ready"
  /\ kind = "event"
  /\ taken = 0
  /\ stop = FALSE
  /\ draining = FALSE
  /\ reason = "None"
  /\ status = "Connected"
  /\ open = TRUE
  /\ last = -1
  /\ received = {}
  /\ lost = {}
  /\ announced = 0

Full == Len(queue) >= Capacity

-----------------------------------------------------------------------------
(***************************************************************************)
(* The reader loop.                                                        *)
(***************************************************************************)
\* A parsed message is about to be handed over.
TakeItem(k) ==
  /\ pc = "ready"
  /\ taken < MaxItems
  /\ taken' = taken + 1
  /\ kind' = k
  /\ pc' = "flush"
  /\ UNCHANGED <<queue, armed, dropped, stop, draining, reason, status, consumerVars, historyVars>>

\* The receiver is gone: the dispatch returns false.  Only a frame that ends
\* the loop anyway still has a reason to publish.
ReceiverGone ==
  /\ pc' = "returned"
  /\ reason' = IF kind = "final" THEN "Other" ELSE "None"

\* The item is dealt with; the loop goes on unless its frame ended it.  Between
\* two items kind means nothing and has its first value.
ItemDone ==
  IF kind = "final" THEN pc' = "returned" /\ reason' = "Other" /\ UNCHANGED kind
                    ELSE pc' = "ready" /\ kind' = "event" /\ UNCHANGED reason

\* Faulty variant: the notice is disarmed whether or not it was queued.
FlushNoticeForgets ==
  /\ pc = "flush"
  /\ pc' = "send"
  /\ armed' = FALSE
  /\ queue' = IF armed /\ open /\ ~Full THEN Append(queue, QueueFull) ELSE queue
  /\ announced' = IF armed /\ open /\ ~Full THEN taken ELSE announced
  /\ UNCHANGED <<dropped, kind, taken, stop, draining, reason, status, consumerVars, lost>>

\* flush_queue_full_notice(): an armed notice goes first, if there is room.
FlushNotice ==
  /\ pc = "flush"
  /\ \/ /\ ~armed \/ (open /\ Full)
        /\ pc' = "send"
        /\ UNCHANGED <<queue, armed, announced, reason>>
     \/ /\ armed /\ open /\ ~Full
        /\ pc' = "send"
        /\ queue' = Append(queue, QueueFull)
        /\ armed' = FALSE
        /\ announced' = taken
        /\ UNCHANGED reason
     \/ /\ armed /\ ~open
        /\ ReceiverGone
        /\ UNCHANGED <<queue, armed, announced>>
  /\ UNCHANGED <<dropped, kind, taken, stop, draining, status, consumerVars, lost>>

drop_event ==
  /\ armed' = TRUE
  /\ dropped' = dropped + 1
  /\ lost' = lost \cup {taken}

\* Faulty variant: every dispatch waits, the reader's last notices included.
MayWaitAlways == BlockFor

\* Only dispatch_event() under BlockFor waits, and never while draining.
MayWait == kind = "event" /\ BlockFor /\ ~draining

TrySend ==
  /\ pc = "send"
  /\ \/ /\ open /\ ~Full
        /\ queue' = Append(queue, taken)
        /\ ItemDone
        /\ UNCHANGED <<armed, dropped, lost>>
     \/ /\ open /\ Full /\ ~MayWait
        /\ drop_event
        /\ ItemDone
        /\ UNCHANGED queue
     \/ /\ open /\ Full /\ MayWait
        /\ pc' = "wait"
        /\ UNCHANGED <<queue, armed, dropped, lost, kind, reason>>
     \/ /\ ~open
        /\ ReceiverGone
        /\ UNCHANGED <<queue, armed, dropped, lost, kind>>
  /\ UNCHANGED <<taken, stop, draining, status, consumerVars, announced>>

(***************************************************************************)
(* wait_for_capacity().  The first poll looks at the stop signal, then at  *)
(* the channel.  Once the reserve() future is parked, a slot that becomes  *)
(* free is assigned to it, so the last try_send() after a stop signal      *)
(* finds the channel full either way.                                      *)
(***************************************************************************)
Reserved ==
  /\ queue' = Append(queue, taken)
  /\ pc' = "ready"
  /\ UNCHANGED <<armed, dropped, lost, reason, draining>>

GaveUp ==
  /\ drop_event
  /\ pc' = "ready"
  /\ UNCHANGED <<queue, reason>>

WaitClosed ==
  /\ ReceiverGone
  /\ UNCHANGED <<queue, armed, dropped, lost>>

FirstPoll ==
  /\ pc = "wait"
  /\ \/ stop /\ open /\ ~Full /\ queue' = Append(queue, taken) /\ pc' = "ready"
             /\ draining' = TRUE /\ UNCHANGED <<armed, dropped, lost, reason>>
     \/ stop /\ open /\ Full /\ GaveUp /\ draining' = TRUE
     \/ stop /\ ~open /\ WaitClosed /\ draining' = TRUE
     \/ ~stop /\ open /\ ~Full /\ Reserved
     \/ ~stop /\ open /\ Full /\ pc' = "parked"
              /\ UNCHANGED <<queue, armed, dropped, lost, reason, draining>>
     \/ ~stop /\ ~open /\ WaitClosed /\ UNCHANGED draining
  /\ UNCHANGED <<kind, taken, stop, status, consumerVars, announced>>

ParkedReserved ==
  /\ pc = "parked"
  /\ ~stop
  /\ \/ open /\ ~Full /\ Reserved
     \/ ~open /\ WaitClosed /\ UNCHANGED draining
  /\ UNCHANGED <<kind, taken, stop, status, consumerVars, announced>>

\* Faulty variant: the parked reader does not listen to the stop signal.
ParkedIgnoresStop ==
  /\ pc = "parked"
  /\ stop
  /\ open /\ ~Full
  /\ Reserved
  /\ UNCHANGED <<kind, taken, stop, status, consumerVars, announced>>

ParkedStopped ==
  /\ pc = "parked"
  /\ stop
  /\ \/ open /\ GaveUp
     \/ ~open /\ WaitClosed
  /\ draining' = TRUE
  /\ UNCHANGED <<kind, taken, stop, status, consumerVars, announced>>

\* Faulty variant: a wait that ran out of budget forgets the item it held.
BudgetElapsesForgets ==
  /\ pc = "parked"
  /\ ~stop /\ open /\ Full
  /\ pc' = "ready"
  /\ UNCHANGED <<queue, armed, dropped, kind, taken, stop, draining, reason, status,
                 consumerVars, historyVars>>

\* Faulty variant: the budget starts again each time it runs out.
BudgetElapsesRestarts ==
  /\ pc = "parked"
  /\ ~stop /\ open /\ Full
  /\ pc' = "wait"
  /\ UNCHANGED <<queue, armed, dropped, kind, taken, stop, draining, reason, status,
                 consumerVars, historyVars>>

\* The budget runs out with the channel still full.
BudgetElapses ==
  /\ pc = "parked"
  /\ ~stop /\ open /\ Full
  /\ GaveUp
  /\ UNCHANGED <<kind, taken, stop, draining, status, consumerVars, announced>>

(***************************************************************************)
(* Stop signal, end of the loop, end of the task.                          *)
(***************************************************************************)
SeeStop ==
  /\ pc = "ready"
  /\ stop /\ ~draining
  /\ draining' = TRUE
  /\ UNCHANGED <<queue, armed, dropped, pc, kind, taken, stop, reason, status, consumerVars, historyVars>>

\* EOF, disconnect notice, liveness, I/O and parser errors; or the end of a
\* drain, which returns no reason when it meets EOF, its timeout or an error.
LoopEnds ==
  /\ pc = "ready"
  /\ pc' = "returned"
  /\ reason' \in (IF draining THEN Reasons ELSE {"Other"})
  /\ UNCHANGED <<queue, armed, dropped, kind, taken, stop, draining, status, consumerVars, historyVars>>

\* Faulty variant: the task ends without publishing what the loop returned.
SkipPublish ==
  /\ pc = "returned"
  /\ pc' = "exiting"
  /\ UNCHANGED <<queue, armed, dropped, kind, taken, stop, draining, reason, status, consumerVars, historyVars>>

\* The reason, if there is one, is published before the sender goes away.
PublishStatus ==
  /\ pc = "returned"
  /\ pc' = "exiting"
  /\ status' = IF reason = "None" THEN status ELSE "Disconnected"
  /\ UNCHANGED <<queue, armed, dropped, kind, taken, stop, draining, reason, consumerVars, historyVars>>

\* fail_pending_reply() has run; the only sender is dropped with the task.
DropSender ==
  /\ pc = "exiting"
  /\ pc' = "gone"
  /\ UNCHANGED <<queue, armed, dropped, kind, taken, stop, draining, reason, status, consumerVars, historyVars>>

-----------------------------------------------------------------------------
(***************************************************************************)
(* The application: recv(), try_next() and the Stream implementation take  *)
(* the oldest item; teardown_for_reexec() sends the stop signal.           *)
(***************************************************************************)
Recv ==
  /\ open
  /\ queue # <<>>
  /\ last' = Head(queue)
  /\ received' = IF Head(queue) = QueueFull THEN received ELSE received \cup {Head(queue)}
  /\ queue' = Tail(queue)
  /\ UNCHANGED <<armed, dropped, readerVars, stop, status, open, historyVars>>

\* What is still queued is dropped with the receiver.
DropStream ==
  /\ open
  /\ open' = FALSE
  /\ queue' = <<>>
  /\ UNCHANGED <<armed, dropped, readerVars, stop, status, last, received, historyVars>>

SendStop ==
  /\ ~stop
  /\ stop' = TRUE
  /\ UNCHANGED <<queue, armed, dropped, readerVars, status, consumerVars, historyVars>>

-----------------------------------------------------------------------------
Reader ==
  \/ \E k \in Kinds : TakeItem(k)
  \/ FlushNotice \/ TrySend
  \/ FirstPoll \/ ParkedReserved \/ ParkedStopped \/ BudgetElapses
  \/ SeeStop \/ LoopEnds \/ PublishStatus \/ DropSender

Application == Recv \/ DropStream \/ SendStop

Next == Reader \/ Application

Spec == Init /\ [][Next]_vars

\* The reader task keeps being polled; it owes nothing to a timer or consumer.
ReaderFairness ==
  /\ WF_vars(FlushNotice) /\ WF_vars(TrySend) /\ WF_vars(FirstPoll)
  /\ WF_vars(ParkedReserved) /\ WF_vars(ParkedStopped)
  /\ WF_vars(PublishStatus) /\ WF_vars(DropSender)

FairSpec == Spec /\ ReaderFairness

-----------------------------------------------------------------------------
(***************************************************************************)
(* Safety.                                                                 *)
(***************************************************************************)
InHand == pc \in {"flush", "send", "wait", "parked"}
Queued == {n \in 1 .. taken : \E i \in 1 .. Len(queue) : queue[i] = n}

\* While the application listens, every item taken off the socket is exactly one
\* of: received, queued, in the reader's hand, or dropped and counted, so that
\* dropped_event_count() is the reliable count its documentation promises.
Conservation ==
  /\ dropped = Cardinality(lost)
  /\ lost \cap received = {}
  /\ Queued \cap (lost \cup received) = {}
  /\ open /\ pc # "returned" /\ pc # "exiting" /\ pc # "gone" =>
       received \cup Queued \cup lost = 1 .. (IF InHand THEN taken - 1 ELSE taken)

\* The consumer sees items in the order of their arrival and none twice,
\* whatever was dropped in between.
Fifo ==
  /\ \A i, j \in 1 .. Len(queue) :
       i < j /\ queue[i] # QueueFull /\ queue[j] # QueueFull => queue[i] < queue[j]
  /\ \A n \in received : \A i \in 1 .. Len(queue) : queue[i] # QueueFull => n < queue[i]

\* A loss that no notice in the channel covers keeps the notice armed: no
\* overflow is forgotten, however flushes and drops interleave with recv().
LossAnnounced == \A n \in lost : n >= announced => armed

\* The comment in reader_loop(): recv() returns None only once the disconnect
\* status is published.
NoneImpliesDisconnected == pc = "gone" /\ open => status = "Disconnected"

\* It is true of every session that no re-exec drain has touched.
StatusBeforeNone == ~draining => NoneImpliesDisconnected

\* The notice rides the next successful dispatch (documentation of
\* EslEventStream): nothing else enters the channel while it is armed.
NoticeRidesNextDispatch ==
  [][armed /\ Len(queue') > Len(queue) => queue'[Len(queue')] = QueueFull]_queue

\* One notification per overflow episode, then real events (documentation of
\* recv()): after a notice the consumer does not find another one.
NoticeThenEvents == last = QueueFull /\ queue # <<>> => Head(queue) # QueueFull

(***************************************************************************)
(* Liveness.                                                               *)
(***************************************************************************)
\* A dispatch ends although the consumer never takes anything, if the budget's
\* timer fires: the stall of the reader, and of every reply behind it, is bounded.
DispatchEnds == WF_vars(BudgetElapses) => (InHand ~> ~InHand)

\* The re-exec stop signal ends a dispatch that waits for capacity without the
\* budget's timer.
StopWins == (stop /\ InHand) ~> ~InHand

\* The frame that ends the session is published without the consumer's help:
\* its notice never waits for capacity.
EndPublished == (kind = "final" /\ InHand) ~> status = "Disconnected"

=============================================================================
