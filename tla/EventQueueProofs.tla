-------------------------- MODULE EventQueueProofs --------------------------
(***************************************************************************)
(* Proofs about EventQueue, for every capacity, policy and bound, and      *)
(* about BackgroundJobs beside it, for every set of jobs.                  *)
(*                                                                         *)
(* The invariants of EventQueue are inductive together once two facts are  *)
(* added: the item in hand is in nobody else's possession (HandFresh), and *)
(* a loop that returned without a reason has lost its receiver             *)
(* (ExitReason).                                                           *)
(***************************************************************************)
EXTENDS BackgroundJobs, FiniteSetTheorems, TLAPS

Ended == {"returned", "exiting", "gone"}

\* Only items taken off the socket are queued, and the item in hand is newer
\* than everything the channel or the consumer has.
HandFresh ==
  /\ \A i \in 1 .. Len(queue) : queue[i] <= taken
  /\ InHand =>
       /\ taken >= 1
       /\ taken \notin received /\ taken \notin lost
       /\ \A i \in 1 .. Len(queue) : queue[i] < taken

\* A loop that ended without a reason ended because the receiver is gone or in
\* a drain, and the reason is published before the sender is dropped.
ExitReason ==
  /\ pc \in {"wait", "parked"} => kind = "event"
  /\ pc \in Ended /\ reason = "None" => ~open \/ draining
  /\ pc \in {"exiting", "gone"} /\ reason # "None" => status = "Disconnected"

\* Every item is accounted for; the conjuncts of Conservation without the count.
Accounted ==
  /\ lost \cap received = {}
  /\ Queued \cap (lost \cup received) = {}
  /\ open /\ pc \notin Ended =>
       received \cup Queued \cup lost = 1 .. (IF InHand THEN taken - 1 ELSE taken)

Counted == dropped = Cardinality(lost)

LedgerType ==
  /\ queue \in Seq(Nat) /\ Len(queue) <= Capacity
  /\ dropped \in Nat /\ taken \in Nat
  /\ received \subseteq 1 .. taken /\ lost \subseteq 1 .. taken

\* Where the items are.
Ledger == LedgerType /\ HandFresh /\ Accounted /\ Counted /\ Fifo

\* Types of the rest of the state.
Flags == armed \in BOOLEAN /\ stop \in BOOLEAN /\ draining \in BOOLEAN /\ open \in BOOLEAN
Places ==
  /\ pc \in {"ready", "flush", "send", "wait", "parked", "returned", "exiting", "gone"}
  /\ kind \in Kinds /\ reason \in Reasons /\ status \in {"Connected", "Disconnected"}
Numbers == last \in Int /\ announced \in 0 .. taken
ControlType == Flags /\ Places /\ Numbers

\* Where the reader is, and what it owes.
Control == ControlType /\ ExitReason /\ LossAnnounced

IInv == Ledger /\ Control

(***************************************************************************)
(* What an action may do to the ledger.                                    *)
(***************************************************************************)
ledger == <<queue, dropped, taken, received, lost>>

TakesItem ==
  /\ ~InHand /\ pc \notin Ended /\ InHand' /\ taken' = taken + 1
  /\ UNCHANGED <<queue, dropped, received, lost, open>>
QueuesNotice ==
  /\ InHand /\ InHand' /\ ~Full
  /\ queue' = Append(queue, QueueFull)
  /\ UNCHANGED <<dropped, taken, received, lost, open>>
QueuesItem ==
  /\ InHand /\ ~InHand' /\ ~Full
  /\ queue' = Append(queue, taken)
  /\ UNCHANGED <<dropped, taken, received, lost, open>>
DropsItem ==
  /\ InHand /\ ~InHand'
  /\ dropped' = dropped + 1 /\ lost' = lost \cup {taken}
  /\ UNCHANGED <<queue, taken, received, open>>
MovesOn ==
  /\ InHand' = InHand /\ (pc \in Ended => pc' \in Ended)
  /\ UNCHANGED <<queue, dropped, taken, received, lost, open>>
LosesReceiver ==
  /\ ~open /\ InHand /\ pc' \in Ended
  /\ UNCHANGED <<queue, dropped, taken, received, lost, open>>

\* What appending an item does to the set of queued items.
LEMMA QueuedAppend ==
  ASSUME NEW q \in Seq(Nat), NEW e \in Nat
  PROVE  /\ Append(q, e) \in Seq(Nat)
         /\ Len(Append(q, e)) = Len(q) + 1
         /\ \A i \in 1 .. Len(q) : Append(q, e)[i] = q[i]
         /\ Append(q, e)[Len(q) + 1] = e
  OBVIOUS

\* What taking the oldest item does to the rest.
LEMMA QueuedTail ==
  ASSUME NEW q \in Seq(Nat), q # <<>>
  PROVE  /\ Tail(q) \in Seq(Nat)
         /\ Len(Tail(q)) = Len(q) - 1 /\ Len(q) >= 1
         /\ Head(q) = q[1] /\ Head(q) \in Nat
         /\ \A i \in 1 .. Len(Tail(q)) : Tail(q)[i] = q[i + 1]
  OBVIOUS

\* Dropping an item that was not dropped before adds one to the count.
LEMMA CountOneMore ==
  ASSUME NEW S \in SUBSET Nat, NEW n \in Nat, S \subseteq 1 .. n, NEW e \in Nat, e \notin S
  PROVE  Cardinality(S \cup {e}) = Cardinality(S) + 1
<1>1. IsFiniteSet(1 .. n)
  BY FS_Interval
<1>2. IsFiniteSet(S)
  BY <1>1, FS_Subset, Zenon
<1> QED
  BY <1>2, FS_AddElement

\* The ledger does not depend on the rest of the state.
LEMMA LedgerMovesOn == Ledger /\ MovesOn => Ledger'
  BY DEF Ledger, MovesOn, LedgerType, HandFresh, Accounted, Counted, Fifo, Queued

\* A reader that ends with an item in hand leaves the ledger of a connection
\* nobody listens to.
LEMMA LedgerLosesReceiver == Ledger /\ LosesReceiver => Ledger'
  BY DEF Ledger, LosesReceiver, LedgerType, HandFresh, Accounted, Counted, Fifo, Queued, InHand, Ended

\* An item taken off the socket is new to the ledger and in the reader's hand.
LEMMA LedgerTakesItem == Ledger /\ TakesItem => Ledger'
<1> SUFFICES ASSUME Ledger, TakesItem PROVE Ledger'
  OBVIOUS
<1> USE DEF Ledger, TakesItem, LedgerType
<1>1. LedgerType' /\ Counted'
  BY DEF Counted
<1>2. HandFresh'
  BY DEF HandFresh
<1>3. Fifo'
  BY DEF Fifo
<1>4. Queued' = Queued
  BY DEF Queued, HandFresh
<1>5. Accounted'
  BY <1>4 DEF Accounted
<1> QED
  BY <1>1, <1>2, <1>3, <1>5

\* A QueueFull notice takes a place in the channel and is not an item.
LEMMA LedgerQueuesNotice == Ledger /\ QueuesNotice => Ledger'
<1> SUFFICES ASSUME Ledger, QueuesNotice PROVE Ledger'
  OBVIOUS
<1> USE DEF Ledger, QueuesNotice, LedgerType, QueueFull
<1>0. /\ queue' \in Seq(Nat) /\ Len(queue') = Len(queue) + 1
      /\ \A i \in 1 .. Len(queue) : queue'[i] = queue[i]
      /\ queue'[Len(queue) + 1] = 0
  BY QueuedAppend
<1>1. LedgerType' /\ Counted'
  BY <1>0, QueueAssumption DEF Counted, Full
<1>2. HandFresh'
  BY <1>0 DEF HandFresh
<1>3. Fifo'
  BY <1>0 DEF Fifo
<1>4. Queued' = Queued
  BY <1>0 DEF Queued
<1>5. Accounted'
  BY <1>4 DEF Accounted, InHand, Ended
<1> QED
  BY <1>1, <1>2, <1>3, <1>5

\* The item in hand goes to the end of the channel, behind every earlier one.
LEMMA LedgerQueuesItem == Ledger /\ QueuesItem => Ledger'
<1> SUFFICES ASSUME Ledger, QueuesItem PROVE Ledger'
  OBVIOUS
<1> USE DEF Ledger, QueuesItem, LedgerType
<1>0. /\ queue' \in Seq(Nat) /\ Len(queue') = Len(queue) + 1
      /\ \A i \in 1 .. Len(queue) : queue'[i] = queue[i]
      /\ queue'[Len(queue) + 1] = taken
  BY QueuedAppend
<1>1. LedgerType' /\ Counted'
  BY <1>0, QueueAssumption DEF Counted, Full
<1>2. HandFresh'
  BY <1>0 DEF HandFresh
<1>3. Fifo'
  BY <1>0, SMTT(30) DEF Fifo, HandFresh
<1>4. Queued' = Queued \cup {taken}
  BY <1>0 DEF Queued, HandFresh
<1>5. Accounted'
  BY <1>4 DEF Accounted, HandFresh, InHand, Ended
<1> QED
  BY <1>1, <1>2, <1>3, <1>5

\* A dropped item is counted once.
LEMMA LedgerDropsItem == Ledger /\ DropsItem => Ledger'
<1> SUFFICES ASSUME Ledger, DropsItem PROVE Ledger'
  OBVIOUS
<1> USE DEF Ledger, DropsItem, LedgerType
<1>1. LedgerType' /\ HandFresh' /\ Fifo'
  BY DEF HandFresh, Fifo
<1>2. Cardinality(lost \cup {taken}) = Cardinality(lost) + 1
  <2>1. /\ lost \in SUBSET Nat /\ lost \subseteq 1 .. taken
        /\ taken \in Nat /\ taken \notin lost
    BY DEF HandFresh
  <2> HIDE DEF Ledger, DropsItem, LedgerType
  <2> QED
    BY <2>1, CountOneMore, Zenon
<1>3. Counted'
  BY <1>2 DEF Counted
<1>4. Queued' = Queued /\ taken \notin Queued
  BY DEF Queued, HandFresh
<1>5. Accounted'
  BY <1>4 DEF Accounted, HandFresh, InHand, Ended
<1> QED
  BY <1>1, <1>3, <1>5

\* recv() moves the first item from the channel to the application.
LEMMA LedgerRecv == Ledger /\ Recv => Ledger'
<1> SUFFICES ASSUME Ledger, Recv PROVE Ledger'
  OBVIOUS
<1> USE DEF Ledger, Recv, LedgerType, QueueFull, readerVars, historyVars
<1>0. /\ queue' \in Seq(Nat) /\ Len(queue') = Len(queue) - 1 /\ Len(queue) >= 1
      /\ Head(queue) = queue[1] /\ queue[1] \in Nat
      /\ \A i \in 1 .. Len(queue') : queue'[i] = queue[i + 1]
  BY QueuedTail
<1>1. LedgerType' /\ Counted'
  <2>1. queue[1] # 0 => queue[1] \in 1 .. taken
    BY <1>0 DEF HandFresh
  <2>2. received' \subseteq 1 .. taken
    <3>1. received' = IF queue[1] = 0 THEN received ELSE received \cup {queue[1]}
      BY <1>0
    <3>2. received \subseteq 1 .. taken
      OBVIOUS
    <3> HIDE DEF Ledger, Recv, LedgerType
    <3> QED
      BY <2>1, <3>1, <3>2, Zenon
  <2>3. Counted'
    BY DEF Counted
  <2>4. taken' = taken /\ dropped' = dropped /\ lost' = lost
    OBVIOUS
  <2> QED
    <3>1. LedgerType'
      BY <1>0, <2>2, <2>4, QueueAssumption DEF LedgerType
    <3> QED
      BY <2>3, <3>1
<1>2. HandFresh'
  BY <1>0 DEF HandFresh, InHand
<1>3. Fifo'
  BY <1>0, SMTT(30) DEF Fifo
<1>4. CASE queue[1] = 0
  <2>1. received' = received
    BY <1>0, <1>4
  <2>2. ASSUME NEW n \in 1 .. taken
        PROVE  (\E i \in 1 .. Len(queue') : queue'[i] = n) <=> (\E i \in 1 .. Len(queue) : queue[i] = n)
    <3>1. ASSUME NEW i \in 1 .. Len(queue), queue[i] = n
          PROVE  \E k \in 1 .. Len(queue') : queue'[k] = n
      <4>1. i # 1
        BY <1>4, <3>1
      <4>2. i - 1 \in 1 .. Len(queue') /\ queue'[i - 1] = n
        BY <1>0, <3>1, <4>1
      <4> QED
        BY <4>2, Zenon
    <3> QED
      BY <1>0, <3>1
  <2>3. Queued' = Queued
    BY <2>2, SMTT(30) DEF Queued
  <2> QED
    BY <1>1, <1>2, <1>3, <2>1, <2>3 DEF Accounted, InHand
<1>5. CASE queue[1] # 0
  <2>1. received' = received \cup {queue[1]}
    BY <1>0, <1>5
  <2>2. Queued = Queued' \cup {queue[1]} /\ queue[1] \notin Queued'
    <3>1. queue[1] \in 1 .. taken
      BY <1>0, <1>5 DEF HandFresh
    <3>2. ASSUME NEW i \in 1 .. Len(queue') PROVE queue'[i] # queue[1]
      <4>1. i + 1 \in 1 .. Len(queue) /\ queue'[i] = queue[i + 1]
        BY <1>0
      <4>2. queue[i + 1] # 0 => queue[1] < queue[i + 1]
        BY <1>0, <1>5, <4>1, SMTT(30) DEF Fifo
      <4> QED
        BY <1>0, <1>5, <4>1, <4>2
    <3>3. ASSUME NEW n \in 1 .. taken, n # queue[1], NEW i \in 1 .. Len(queue), queue[i] = n
          PROVE  \E k \in 1 .. Len(queue') : queue'[k] = n
      <4>1. i - 1 \in 1 .. Len(queue') /\ queue'[i - 1] = n
        BY <1>0, <3>3
      <4> QED
        BY <4>1, Zenon
    <3>4. ASSUME NEW i \in 1 .. Len(queue') PROVE \E k \in 1 .. Len(queue) : queue[k] = queue'[i]
      <4>1. i + 1 \in 1 .. Len(queue) /\ queue[i + 1] = queue'[i]
        BY <1>0
      <4> QED
        BY <4>1
    <3>5. queue[1] \in Queued /\ queue[1] \notin Queued'
      BY <1>0, <3>1, <3>2 DEF Queued
    <3>6. taken' = taken
      OBVIOUS
    <3> HIDE DEF Ledger, Recv, LedgerType, QueueFull, readerVars, historyVars
    <3> QED
      BY <3>3, <3>4, <3>5, <3>6, SMTT(30) DEF Queued
  <2> QED
    BY <1>1, <1>2, <1>3, <2>1, <2>2 DEF Accounted, InHand
<1> QED
  BY <1>4, <1>5

\* Dropping the stream empties the channel; what was in it is neither received nor
\* counted as dropped.
LEMMA LedgerDropStream == Ledger /\ DropStream => Ledger'
  BY QueueAssumption DEF Ledger, DropStream, LedgerType, HandFresh, Accounted, Counted, Fifo, Queued, InHand, readerVars, historyVars

\* Init satisfies the invariant.
LEMMA InitIInv == Init => IInv
<1> SUFFICES ASSUME Init PROVE IInv
  OBVIOUS
<1> USE DEF Init
<1>1. LedgerType /\ HandFresh /\ Fifo
  BY QueueAssumption DEF LedgerType, HandFresh, Fifo, InHand
<1>2. Counted
  BY FS_EmptySet DEF Counted
<1>3. Accounted
  BY DEF Accounted, Queued, InHand, Ended
<1>4. ControlType
  <2>1. Flags /\ Places
    BY Zenon DEF Flags, Places, Kinds, Reasons
  <2>2. Numbers
    BY DEF Numbers
  <2> QED
    BY <2>1, <2>2 DEF ControlType
<1>5. ExitReason /\ LossAnnounced
  BY DEF ExitReason, LossAnnounced, Ended
<1> QED
  BY <1>1, <1>2, <1>3, <1>4, <1>5 DEF IInv, Ledger, Control

\* Every step preserves the invariant: what the action does to the ledger, and
\* what it does to the rest.
LEMMA NextIInv == IInv /\ [Next]_vars => IInv'
<1> SUFFICES ASSUME IInv, [Next]_vars PROVE IInv'
  OBVIOUS
<1> USE DEF readerVars, consumerVars, historyVars, Ended, InHand
<1>1. CASE \E k \in Kinds : TakeItem(k)
  <2>1. TakesItem
    BY <1>1 DEF IInv, Control, ControlType, Flags, Places, Numbers, TakeItem, TakesItem
  <2>2. Ledger'
    BY <2>1, LedgerTakesItem DEF IInv
  <2>3. ControlType'
    <3>1. Flags'
      BY <1>1 DEF IInv, Control, ControlType, Flags, TakeItem
    <3>2. Places'
      BY <1>1 DEF IInv, Control, ControlType, Places, Kinds, Reasons, TakeItem
    <3>3. Numbers'
      BY <1>1 DEF IInv, Ledger, LedgerType, Control, ControlType, Numbers, TakeItem
    <3> QED
      BY <3>1, <3>2, <3>3 DEF ControlType
  <2>4. ExitReason'
    BY <1>1 DEF IInv, Control, ControlType, Flags, Places, Numbers, ExitReason, TakeItem
  <2>5. LossAnnounced'
    BY <1>1 DEF IInv, Ledger, LedgerType, HandFresh, Control, ControlType, Flags, Places, Numbers, LossAnnounced, TakeItem
  <2> QED
    BY <2>2, <2>3, <2>4, <2>5 DEF IInv, Control
<1>2. CASE FlushNotice
  <2>1. MovesOn \/ QueuesNotice \/ LosesReceiver
    BY <1>2 DEF IInv, Control, ControlType, Flags, Places, Numbers, FlushNotice, ReceiverGone, MovesOn, QueuesNotice, LosesReceiver
  <2>2. Ledger'
    BY <2>1, LedgerMovesOn, LedgerQueuesNotice, LedgerLosesReceiver DEF IInv
  <2>3. ControlType'
    <3>1. Flags'
      BY <1>2, Zenon DEF IInv, Control, ControlType, Flags, FlushNotice, ReceiverGone
    <3>2. Places'
      BY <1>2 DEF IInv, Control, ControlType, Places, Kinds, Reasons, FlushNotice, ReceiverGone
    <3>3. Numbers'
      BY <1>2 DEF IInv, Ledger, LedgerType, Control, ControlType, Numbers, FlushNotice, ReceiverGone
    <3> QED
      BY <3>1, <3>2, <3>3 DEF ControlType
  <2>4. ExitReason'
    BY <1>2 DEF IInv, Control, ControlType, Flags, Places, Numbers, ExitReason, FlushNotice, ReceiverGone
  <2>5. LossAnnounced'
    BY <1>2, SMTT(30) DEF IInv, Ledger, LedgerType, HandFresh, Control, ControlType, Flags, Places, Numbers, LossAnnounced, FlushNotice, ReceiverGone
  <2> QED
    BY <2>2, <2>3, <2>4, <2>5 DEF IInv, Control
<1>3. CASE TrySend
  <2>1. QueuesItem \/ DropsItem \/ MovesOn \/ LosesReceiver
    BY <1>3 DEF IInv, Control, ControlType, Flags, Places, Numbers, TrySend, ReceiverGone, ItemDone, drop_event, QueuesItem, DropsItem, MovesOn, LosesReceiver
  <2>2. Ledger'
    BY <2>1, LedgerQueuesItem, LedgerDropsItem, LedgerMovesOn, LedgerLosesReceiver, SMTT(30) DEF IInv
  <2>3. ControlType'
    <3>1. Flags'
      BY <1>3, Zenon DEF IInv, Control, ControlType, Flags, TrySend, ReceiverGone, ItemDone, drop_event
    <3>2. Places'
      BY <1>3 DEF IInv, Control, ControlType, Places, Kinds, Reasons, TrySend, ReceiverGone, ItemDone, drop_event
    <3>3. Numbers'
      BY <1>3 DEF IInv, Ledger, LedgerType, Control, ControlType, Numbers, TrySend, ReceiverGone, ItemDone, drop_event
    <3> QED
      BY <3>1, <3>2, <3>3 DEF ControlType
  <2>4. ExitReason'
    BY <1>3 DEF IInv, Control, ControlType, Flags, Places, Numbers, ExitReason, TrySend, MayWait, ReceiverGone, ItemDone, drop_event
  <2>5. LossAnnounced'
    BY <1>3, Zenon DEF IInv, Ledger, LedgerType, HandFresh, Control, ControlType, Flags, Places, Numbers, LossAnnounced, TrySend, ReceiverGone, ItemDone, drop_event
  <2> QED
    BY <2>2, <2>3, <2>4, <2>5 DEF IInv, Control
<1>4. CASE FirstPoll
  <2>1. QueuesItem \/ DropsItem \/ MovesOn \/ LosesReceiver
    BY <1>4, SMTT(30) DEF IInv, Control, ControlType, Flags, Places, Numbers, FirstPoll, Reserved, GaveUp, WaitClosed, ReceiverGone, drop_event, QueuesItem, DropsItem, MovesOn, LosesReceiver
  <2>2. Ledger'
    BY <2>1, LedgerQueuesItem, LedgerDropsItem, LedgerMovesOn, LedgerLosesReceiver DEF IInv
  <2>3. ControlType'
    <3>1. Flags'
      BY <1>4, Zenon DEF IInv, Control, ControlType, Flags, FirstPoll, Reserved, GaveUp, WaitClosed, ReceiverGone, drop_event
    <3>2. Places'
      BY <1>4, SMTT(30) DEF IInv, Control, ControlType, Places, Kinds, Reasons, FirstPoll, Reserved, GaveUp, WaitClosed, ReceiverGone, drop_event
    <3>3. Numbers'
      BY <1>4 DEF IInv, Ledger, LedgerType, Control, ControlType, Numbers, FirstPoll, Reserved, GaveUp, WaitClosed, ReceiverGone, drop_event
    <3> QED
      BY <3>1, <3>2, <3>3 DEF ControlType
  <2>4. ExitReason'
    BY <1>4 DEF IInv, Control, ControlType, Flags, Places, Numbers, ExitReason, FirstPoll, Reserved, GaveUp, WaitClosed, ReceiverGone, drop_event
  <2>5. LossAnnounced'
    BY <1>4, Zenon DEF IInv, Ledger, LedgerType, HandFresh, Control, ControlType, Flags, Places, Numbers, LossAnnounced, FirstPoll, Reserved, GaveUp, WaitClosed, ReceiverGone, drop_event
  <2> QED
    BY <2>2, <2>3, <2>4, <2>5 DEF IInv, Control
<1>5. CASE ParkedReserved
  <2>1. QueuesItem \/ LosesReceiver
    BY <1>5 DEF IInv, Control, ControlType, Flags, Places, Numbers, ParkedReserved, Reserved, WaitClosed, ReceiverGone, QueuesItem, LosesReceiver
  <2>2. Ledger'
    BY <2>1, LedgerQueuesItem, LedgerLosesReceiver, SMTT(30) DEF IInv
  <2>3. ControlType'
    <3>1. Flags'
      BY <1>5 DEF IInv, Control, ControlType, Flags, ParkedReserved, Reserved, WaitClosed, ReceiverGone
    <3>2. Places'
      BY <1>5 DEF IInv, Control, ControlType, Places, Kinds, Reasons, ParkedReserved, Reserved, WaitClosed, ReceiverGone
    <3>3. Numbers'
      BY <1>5 DEF IInv, Ledger, LedgerType, Control, ControlType, Numbers, ParkedReserved, Reserved, WaitClosed, ReceiverGone
    <3> QED
      BY <3>1, <3>2, <3>3 DEF ControlType
  <2>4. ExitReason'
    BY <1>5 DEF IInv, Control, ControlType, Flags, Places, Numbers, ExitReason, ParkedReserved, Reserved, WaitClosed, ReceiverGone
  <2>5. LossAnnounced'
    <3>1. armed' = TRUE \/ UNCHANGED <<armed, lost, announced>>
      BY <1>5, SMTT(30) DEF ParkedReserved, Reserved, WaitClosed, ReceiverGone
    <3> QED
      BY <3>1 DEF IInv, Control, LossAnnounced
  <2> QED
    BY <2>2, <2>3, <2>4, <2>5 DEF IInv, Control
<1>6. CASE ParkedStopped
  <2>1. DropsItem \/ LosesReceiver
    BY <1>6 DEF IInv, Control, ControlType, Flags, Places, Numbers, ParkedStopped, GaveUp, WaitClosed, ReceiverGone, drop_event, DropsItem, LosesReceiver
  <2>2. Ledger'
    BY <2>1, LedgerDropsItem, LedgerLosesReceiver DEF IInv
  <2>3. ControlType'
    <3>1. Flags'
      BY <1>6, Zenon DEF IInv, Control, ControlType, Flags, ParkedStopped, GaveUp, WaitClosed, ReceiverGone, drop_event
    <3>2. Places'
      BY <1>6 DEF IInv, Control, ControlType, Places, Kinds, Reasons, ParkedStopped, GaveUp, WaitClosed, ReceiverGone, drop_event
    <3>3. Numbers'
      BY <1>6 DEF IInv, Ledger, LedgerType, Control, ControlType, Numbers, ParkedStopped, GaveUp, WaitClosed, ReceiverGone, drop_event
    <3> QED
      BY <3>1, <3>2, <3>3 DEF ControlType
  <2>4. ExitReason'
    BY <1>6 DEF IInv, Control, ControlType, Flags, Places, Numbers, ExitReason, ParkedStopped, GaveUp, WaitClosed, ReceiverGone, drop_event
  <2>5. LossAnnounced'
    <3>1. armed' = TRUE \/ UNCHANGED <<armed, lost, announced>>
      BY <1>6, SMTT(30) DEF ParkedStopped, GaveUp, WaitClosed, ReceiverGone, drop_event
    <3> QED
      BY <3>1 DEF IInv, Control, LossAnnounced
  <2> QED
    BY <2>2, <2>3, <2>4, <2>5 DEF IInv, Control
<1>7. CASE BudgetElapses
  <2>1. DropsItem
    BY <1>7, SMTT(30) DEF IInv, Control, ControlType, Flags, Places, Numbers, BudgetElapses, GaveUp, drop_event, DropsItem
  <2>2. Ledger'
    BY <2>1, LedgerDropsItem DEF IInv
  <2>3. ControlType'
    <3>1. Flags'
      BY <1>7 DEF IInv, Control, ControlType, Flags, BudgetElapses, GaveUp, drop_event
    <3>2. Places'
      BY <1>7 DEF IInv, Control, ControlType, Places, Kinds, Reasons, BudgetElapses, GaveUp, drop_event
    <3>3. Numbers'
      BY <1>7 DEF IInv, Ledger, LedgerType, Control, ControlType, Numbers, BudgetElapses, GaveUp, drop_event
    <3> QED
      BY <3>1, <3>2, <3>3 DEF ControlType
  <2>4. ExitReason'
    BY <1>7 DEF IInv, Control, ControlType, Flags, Places, Numbers, ExitReason, BudgetElapses, GaveUp, drop_event
  <2>5. LossAnnounced'
    BY <1>7 DEF IInv, Ledger, LedgerType, HandFresh, Control, ControlType, Flags, Places, Numbers, LossAnnounced, BudgetElapses, GaveUp, drop_event
  <2> QED
    BY <2>2, <2>3, <2>4, <2>5 DEF IInv, Control
<1>8. CASE SeeStop
  <2>1. MovesOn
    BY <1>8, SMTT(30) DEF IInv, Control, ControlType, Flags, Places, Numbers, SeeStop, MovesOn
  <2>2. Ledger'
    BY <2>1, LedgerMovesOn DEF IInv
  <2>3. ControlType'
    <3>1. Flags'
      BY <1>8 DEF IInv, Control, ControlType, Flags, SeeStop
    <3>2. Places'
      BY <1>8 DEF IInv, Control, ControlType, Places, Kinds, Reasons, SeeStop
    <3>3. Numbers'
      BY <1>8 DEF IInv, Ledger, LedgerType, Control, ControlType, Numbers, SeeStop
    <3> QED
      BY <3>1, <3>2, <3>3 DEF ControlType
  <2>4. ExitReason'
    BY <1>8 DEF IInv, Control, ControlType, Flags, Places, Numbers, ExitReason, SeeStop
  <2>5. LossAnnounced'
    BY <1>8 DEF IInv, Ledger, LedgerType, HandFresh, Control, ControlType, Flags, Places, Numbers, LossAnnounced, SeeStop
  <2> QED
    BY <2>2, <2>3, <2>4, <2>5 DEF IInv, Control
<1>9. CASE LoopEnds
  <2>1. MovesOn
    BY <1>9, SMTT(30) DEF IInv, Control, ControlType, Flags, Places, Numbers, LoopEnds, MovesOn
  <2>2. Ledger'
    BY <2>1, LedgerMovesOn DEF IInv
  <2>3. ControlType'
    <3>1. Flags'
      BY <1>9 DEF IInv, Control, ControlType, Flags, LoopEnds
    <3>2. Places'
      BY <1>9 DEF IInv, Control, ControlType, Places, Kinds, Reasons, LoopEnds
    <3>3. Numbers'
      BY <1>9 DEF IInv, Ledger, LedgerType, Control, ControlType, Numbers, LoopEnds
    <3> QED
      BY <3>1, <3>2, <3>3 DEF ControlType
  <2>4. ExitReason'
    BY <1>9 DEF IInv, Control, ControlType, Flags, Places, Numbers, ExitReason, LoopEnds
  <2>5. LossAnnounced'
    BY <1>9, SMTT(30) DEF IInv, Ledger, LedgerType, HandFresh, Control, ControlType, Flags, Places, Numbers, LossAnnounced, LoopEnds
  <2> QED
    BY <2>2, <2>3, <2>4, <2>5 DEF IInv, Control
<1>10. CASE PublishStatus
  <2>1. MovesOn
    BY <1>10, SMTT(30) DEF IInv, Control, ControlType, Flags, Places, Numbers, PublishStatus, MovesOn
  <2>2. Ledger'
    BY <2>1, LedgerMovesOn DEF IInv
  <2>3. ControlType'
    <3>1. Flags'
      BY <1>10 DEF IInv, Control, ControlType, Flags, PublishStatus
    <3>2. Places'
      BY <1>10 DEF IInv, Control, ControlType, Places, Kinds, Reasons, PublishStatus
    <3>3. Numbers'
      BY <1>10 DEF IInv, Ledger, LedgerType, Control, ControlType, Numbers, PublishStatus
    <3> QED
      BY <3>1, <3>2, <3>3 DEF ControlType
  <2>4. ExitReason'
    BY <1>10 DEF IInv, Control, ControlType, Flags, Places, Numbers, ExitReason, PublishStatus
  <2>5. LossAnnounced'
    BY <1>10, SMTT(30) DEF IInv, Ledger, LedgerType, HandFresh, Control, ControlType, Flags, Places, Numbers, LossAnnounced, PublishStatus
  <2> QED
    BY <2>2, <2>3, <2>4, <2>5 DEF IInv, Control
<1>11. CASE DropSender
  <2>1. MovesOn
    BY <1>11, SMTT(30) DEF IInv, Control, ControlType, Flags, Places, Numbers, DropSender, MovesOn
  <2>2. Ledger'
    BY <2>1, LedgerMovesOn DEF IInv
  <2>3. ControlType'
    <3>1. Flags'
      BY <1>11 DEF IInv, Control, ControlType, Flags, DropSender
    <3>2. Places'
      BY <1>11 DEF IInv, Control, ControlType, Places, Kinds, Reasons, DropSender
    <3>3. Numbers'
      BY <1>11 DEF IInv, Ledger, LedgerType, Control, ControlType, Numbers, DropSender
    <3> QED
      BY <3>1, <3>2, <3>3 DEF ControlType
  <2>4. ExitReason'
    BY <1>11 DEF IInv, Control, ControlType, Flags, Places, Numbers, ExitReason, DropSender
  <2>5. LossAnnounced'
    BY <1>11 DEF IInv, Ledger, LedgerType, HandFresh, Control, ControlType, Flags, Places, Numbers, LossAnnounced, DropSender
  <2> QED
    BY <2>2, <2>3, <2>4, <2>5 DEF IInv, Control
<1>12. CASE Recv
  <2>2. Ledger'
    BY <1>12, LedgerRecv, SMTT(30) DEF IInv
  <2>3. ControlType'
    <3>1. Flags'
      BY <1>12 DEF IInv, Control, ControlType, Flags, Recv
    <3>2. Places'
      BY <1>12 DEF IInv, Control, ControlType, Places, Kinds, Reasons, Recv
    <3>3. Numbers'
      BY <1>12 DEF IInv, Ledger, LedgerType, Control, ControlType, Numbers, Recv
    <3> QED
      BY <3>1, <3>2, <3>3 DEF ControlType
  <2>4. ExitReason'
    BY <1>12 DEF IInv, Control, ControlType, Flags, Places, Numbers, ExitReason, Recv
  <2>5. LossAnnounced'
    BY <1>12, SMTT(30) DEF IInv, Ledger, LedgerType, HandFresh, Control, ControlType, Flags, Places, Numbers, LossAnnounced, Recv
  <2> QED
    BY <2>2, <2>3, <2>4, <2>5 DEF IInv, Control
<1>13. CASE DropStream
  <2>2. Ledger'
    BY <1>13, LedgerDropStream DEF IInv
  <2>3. ControlType'
    <3>1. Flags'
      BY <1>13, Zenon DEF IInv, Control, ControlType, Flags, DropStream
    <3>2. Places'
      BY <1>13 DEF IInv, Control, ControlType, Places, Kinds, Reasons, DropStream
    <3>3. Numbers'
      BY <1>13 DEF IInv, Ledger, LedgerType, Control, ControlType, Numbers, DropStream
    <3> QED
      BY <3>1, <3>2, <3>3 DEF ControlType
  <2>4. ExitReason'
    BY <1>13 DEF IInv, Control, ControlType, Flags, Places, Numbers, ExitReason, DropStream
  <2>5. LossAnnounced'
    BY <1>13, SMTT(30) DEF IInv, Ledger, LedgerType, HandFresh, Control, ControlType, Flags, Places, Numbers, LossAnnounced, DropStream
  <2> QED
    BY <2>2, <2>3, <2>4, <2>5 DEF IInv, Control
<1>14. CASE SendStop
  <2>1. MovesOn
    BY <1>14, SMTT(30) DEF IInv, Control, ControlType, Flags, Places, Numbers, SendStop, MovesOn
  <2>2. Ledger'
    BY <2>1, LedgerMovesOn DEF IInv
  <2>3. ControlType'
    <3>1. Flags'
      BY <1>14 DEF IInv, Control, ControlType, Flags, SendStop
    <3>2. Places'
      BY <1>14 DEF IInv, Control, ControlType, Places, Kinds, Reasons, SendStop
    <3>3. Numbers'
      BY <1>14 DEF IInv, Ledger, LedgerType, Control, ControlType, Numbers, SendStop
    <3> QED
      BY <3>1, <3>2, <3>3 DEF ControlType
  <2>4. ExitReason'
    BY <1>14 DEF IInv, Control, ControlType, Flags, Places, Numbers, ExitReason, SendStop
  <2>5. LossAnnounced'
    BY <1>14 DEF IInv, Ledger, LedgerType, HandFresh, Control, ControlType, Flags, Places, Numbers, LossAnnounced, SendStop
  <2> QED
    BY <2>2, <2>3, <2>4, <2>5 DEF IInv, Control
<1>15. CASE UNCHANGED vars
  <2>1. MovesOn /\ Control'
    BY <1>15 DEF IInv, vars, MovesOn, Control, ControlType, Flags, Places, Numbers, ExitReason, LossAnnounced
  <2> QED
    BY <2>1, LedgerMovesOn, SMTT(30) DEF IInv
<1> QED
  BY <1>1, <1>2, <1>3, <1>4, <1>5, <1>6, <1>7, <1>8, <1>9, <1>10, <1>11, <1>12, <1>13, <1>14, <1>15, SMTT(30) DEF Next, Reader, Application

\* The invariant holds in every behaviour.
LEMMA Inductive == Spec => []IInv
  BY InitIInv, NextIInv, PTL DEF Spec

\* Type correctness for every capacity, policy and number of items.
THEOREM TypeCorrect == Spec => []TypeOK
<1>1. IInv => TypeOK
  BY DEF IInv, Ledger, LedgerType, Control, ControlType, Flags, Places, Numbers, TypeOK
<1> QED
  BY <1>1, Inductive, PTL

\* dropped_event_count() is exact and no item vanishes while somebody listens.
THEOREM NothingVanishes == Spec => []Conservation
<1>1. IInv => Conservation
  BY DEF IInv, Ledger, Accounted, Counted, Conservation, Ended
<1> QED
  BY <1>1, Inductive, PTL

\* Delivery is in order and without duplicates.
THEOREM DeliveredInOrder == Spec => []Fifo
<1>1. IInv => Fifo
  BY DEF IInv, Ledger
<1> QED
  BY <1>1, Inductive, PTL

\* No overflow is forgotten.
THEOREM LossesAnnounced == Spec => []LossAnnounced
<1>1. IInv => LossAnnounced
  BY DEF IInv, Control
<1> QED
  BY <1>1, Inductive, PTL

\* A consumer that sees the end of the stream finds the disconnect published,
\* unless the reader was draining for a re-exec.
THEOREM NoneAfterStatus == Spec => []StatusBeforeNone
<1>1. IInv => StatusBeforeNone
  BY DEF IInv, Control, ControlType, Flags, Places, Numbers, ExitReason, StatusBeforeNone,
         NoneImpliesDisconnected, Ended
<1> QED
  BY <1>1, Inductive, PTL

-----------------------------------------------------------------------------
(***************************************************************************)
(* The tracker of background jobs.                                         *)
(*                                                                         *)
(* The tracker leaves the channel as it is, so what is shown above holds   *)
(* beside it.  PendingAccounted alone is not inductive: a job whose call   *)
(* still awaits its answer becomes pending in one step, with its result    *)
(* perhaps already in the consumer's hands.  The invariant follows the     *)
(* result from the moment the server accepts the command (AheadOf).        *)
(***************************************************************************)
\* The result of j is still to be offered to the tracker, or was dropped.
Ahead(j) ==
  \/ j \in running \/ hand = j
  \/ \E n \in DOMAIN carries :
        carries[n] = j /\ (n \in Queued \cup lost \/ (n = taken /\ InHand))

JobsType ==
  /\ calls \in [Jobs -> CallStates]
  /\ carries \in Seq(Jobs \cup {Other}) /\ Len(carries) = taken
  /\ pending \subseteq Jobs

\* Whoever has the tracker borrowed for an accepted job, or has inserted it.
Owed == {j \in Jobs : calls[j] = "accepted" \/ (calls[j] = "issued" /\ j \in pending)}

AheadOf == open => \A j \in Owed : Ahead(j)

JInv == JobsType /\ AheadOf

(***************************************************************************)
(* The composition is an implementation of the channel.                    *)
(***************************************************************************)
\* A step of the reader or of the application that concerns no job is one of EventQueue's.
LEMMA QueueStepIsNext == QueueStep => Next
  BY DEF QueueStep, Next, Reader, Application

\* Every step of the composition is a step of the channel or leaves it alone.
LEMMA JobsStepIsQueueStep == [JobsNext]_allVars => [Next]_vars
<1> SUFFICES ASSUME [JobsNext]_allVars PROVE [Next]_vars
  OBVIOUS
<1>1. CASE QueueStep
  BY <1>1, QueueStepIsNext
<1>2. CASE TakeOther \/ (\E j \in Jobs : TakeResult(j))
  BY <1>2 DEF TakeOther, TakeResult, Next, Reader, Kinds
<1>3. CASE RecvEvent
  BY <1>3, SMTT(30) DEF RecvEvent, Next, Application
<1>4. CASE \/ TryComplete
           \/ \E j \in Jobs : \/ StartBgapi(j) \/ Accept(j) \/ BgapiReturns(j) \/ CallFails(j)
                              \/ DirectBgapi(j) \/ Track(j) \/ Evict(j)
  BY <1>4 DEF TryComplete, StartBgapi, Accept, BgapiReturns, CallFails, DirectBgapi, Track, Evict
<1>5. CASE UNCHANGED allVars
  BY <1>5 DEF allVars
<1> QED
  BY <1>1, <1>2, <1>3, <1>4, <1>5 DEF JobsNext

\* The tracker and its callers take no step the channel does not allow: JobsSpec
\* implements EventQueue's Spec.
THEOREM JobsRefineQueue == JobsSpec => Spec
<1>1. JobsInit => Init
  BY DEF JobsInit
<1> QED
  BY <1>1, JobsStepIsQueueStep, PTL DEF JobsSpec, Spec

\* So the count of dropped events, the notices and the order of status and end of
\* stream are right with any number of background jobs in the air.
THEOREM QueueSafeWithJobs == JobsSpec => [](Conservation /\ LossAnnounced /\ StatusBeforeNone)
  BY JobsRefineQueue, NothingVanishes, LossesAnnounced, NoneAfterStatus, PTL

(***************************************************************************)
(* Where a result is.                                                      *)
(***************************************************************************)
\* Init satisfies the invariant.
LEMMA InitJInv == JobsInit => JInv
<1> SUFFICES ASSUME JobsInit PROVE JInv
  OBVIOUS
<1>1. \A j \in Jobs : calls[j] = "idle"
  BY DEF JobsInit
<1>2. JobsType
  BY DEF JobsInit, Init, JobsType, CallStates
<1> QED
  BY <1>1, <1>2 DEF JInv, AheadOf, Owed

\* What a step of the channel's own does to the items.
LEMMA QueueStepKinds ==
  ASSUME IInv, QueueStep
  PROVE  \/ QueuesNotice \/ QueuesItem \/ DropsItem \/ MovesOn \/ LosesReceiver
         \/ DropStream
<1> USE DEF IInv, Control, ControlType, Flags, Places, Ended, InHand, consumerVars, historyVars, readerVars
<1>1. CASE FlushNotice
  BY <1>1, SMTT(30) DEF FlushNotice, ReceiverGone, MovesOn, QueuesNotice, LosesReceiver
<1>2. CASE TrySend
  BY <1>2, SMTT(30) DEF TrySend, ReceiverGone, ItemDone, drop_event, QueuesItem, DropsItem, MovesOn, LosesReceiver
<1>3. CASE FirstPoll
  BY <1>3, SMTT(30) DEF FirstPoll, Reserved, GaveUp, WaitClosed, ReceiverGone, drop_event, QueuesItem, DropsItem, MovesOn, LosesReceiver
<1>4. CASE ParkedReserved
  BY <1>4, SMTT(30) DEF ParkedReserved, Reserved, WaitClosed, ReceiverGone, QueuesItem, LosesReceiver
<1>5. CASE ParkedStopped
  BY <1>5 DEF ParkedStopped, GaveUp, WaitClosed, ReceiverGone, drop_event, DropsItem, LosesReceiver
<1>6. CASE BudgetElapses
  BY <1>6, SMTT(30) DEF BudgetElapses, GaveUp, drop_event, DropsItem
<1>7. CASE SeeStop \/ LoopEnds \/ PublishStatus \/ DropSender \/ SendStop
  BY <1>7 DEF SeeStop, LoopEnds, PublishStatus, DropSender, SendStop, MovesOn
<1> QED
  BY <1>1, <1>2, <1>3, <1>4, <1>5, <1>6, <1>7, SMTT(30) DEF QueueStep

\* A step of the channel's own takes no item off the socket, leaves the tracker
\* alone and does not bring the receiver back.
LEMMA QueueStepLeaves ==
  ASSUME QueueStep
  PROVE  UNCHANGED <<calls, running, carries, hand, pending, taken>> /\ (open' => open)
<1>1. UNCHANGED <<calls, running, carries, hand, pending>>
  BY Zenon DEF QueueStep, jobVars
<1>2. taken' = taken /\ (open' => open)
  <2>1. CASE FlushNotice
    BY <2>1 DEF FlushNotice, readerVars, consumerVars
  <2>2. CASE TrySend
    BY <2>2 DEF TrySend, readerVars, consumerVars
  <2>3. CASE FirstPoll
    BY <2>3 DEF FirstPoll, readerVars, consumerVars
  <2>4. CASE ParkedReserved
    BY <2>4 DEF ParkedReserved, readerVars, consumerVars
  <2>5. CASE ParkedStopped
    BY <2>5 DEF ParkedStopped, readerVars, consumerVars
  <2>6. CASE BudgetElapses
    BY <2>6 DEF BudgetElapses, readerVars, consumerVars
  <2>7. CASE SeeStop
    BY <2>7 DEF SeeStop, readerVars, consumerVars
  <2>8. CASE LoopEnds
    BY <2>8 DEF LoopEnds, readerVars, consumerVars
  <2>9. CASE PublishStatus
    BY <2>9 DEF PublishStatus, readerVars, consumerVars
  <2>10. CASE DropSender
    BY <2>10 DEF DropSender, readerVars, consumerVars
  <2>11. CASE DropStream
    BY <2>11 DEF DropStream, readerVars, consumerVars
  <2>12. CASE SendStop
    BY <2>12 DEF SendStop, readerVars, consumerVars
  <2> QED
    BY <2>1, <2>2, <2>3, <2>4, <2>5, <2>6, <2>7, <2>8, <2>9, <2>10, <2>11, <2>12, Zenon DEF QueueStep
<1> QED
  BY <1>1, <1>2

\* A step of the channel's own loses sight of no result while somebody listens: an
\* item leaves the reader's hand for the channel or for the count of the lost.
LEMMA QueueKeepsAhead ==
  ASSUME IInv, JobsType, QueueStep, open', NEW j \in Jobs, Ahead(j)
  PROVE  Ahead(j)'
<1>1. UNCHANGED <<running, hand, carries, taken>>
  BY QueueStepLeaves
<1>2. ASSUME NEW n \in 1 .. taken, n \in Queued \cup lost \/ (n = taken /\ InHand)
      PROVE  n \in Queued' \cup lost' \/ (n = taken' /\ InHand')
  <2>1. CASE QueuesNotice \/ QueuesItem
    <3>1. PICK e \in Nat : queue' = Append(queue, e) /\ (QueuesItem => e = taken)
      BY <2>1, Zenon DEF QueuesNotice, QueuesItem, QueueFull, IInv, Ledger, LedgerType
    <3>2. /\ Len(queue') = Len(queue) + 1
          /\ \A i \in 1 .. Len(queue) : queue'[i] = queue[i]
          /\ queue'[Len(queue) + 1] = e
          /\ Len(queue) \in Nat
      BY <3>1, QueuedAppend DEF IInv, Ledger, LedgerType
    <3>3. Queued \subseteq Queued'
      BY <1>1, <3>2, SMTT(30) DEF Queued
    <3>4. QueuesItem /\ InHand => taken \in Queued'
      BY <1>1, <1>2, <3>1, <3>2, SMTT(30) DEF Queued, IInv, Ledger, LedgerType, HandFresh
    <3> QED
      BY <1>1, <1>2, <2>1, <3>3, <3>4, Zenon DEF QueuesNotice, QueuesItem
  <2>2. CASE DropsItem
    BY <1>1, <1>2, <2>2 DEF DropsItem, Queued
  <2>3. CASE MovesOn
    BY <1>1, <1>2, <2>3 DEF MovesOn, Queued
  <2>4. CASE LosesReceiver \/ DropStream
    BY <2>4, Zenon DEF LosesReceiver, DropStream
  <2> QED
    BY <2>1, <2>2, <2>3, <2>4, QueueStepKinds
<1>3. DOMAIN carries = 1 .. taken
  BY SMTT(30) DEF JobsType, IInv, Ledger, LedgerType
<1> QED
  BY <1>1, <1>2, <1>3, SMTT(30) DEF Ahead

\* An item taken off the socket is remembered at its number; the earlier ones are
\* where they were.
LEMMA TakeKeepsAhead ==
  ASSUME IInv, JobsType, NEW k \in Kinds, TakeItem(k),
         NEW e \in Jobs \cup {Other}, carries' = Append(carries, e), hand' = hand
  PROVE  /\ carries' \in Seq(Jobs \cup {Other}) /\ Len(carries') = taken'
         /\ e \in Jobs => Ahead(e)'
         /\ \A j \in Jobs : (j \in running => j \in running') /\ Ahead(j) => Ahead(j)'
<1> USE DEF IInv, Ledger, LedgerType
<1>1. /\ taken' = taken + 1 /\ InHand' /\ ~InHand
      /\ queue' = queue /\ lost' = lost
  BY SMTT(30) DEF TakeItem, InHand, historyVars
<1>2. /\ carries' \in Seq(Jobs \cup {Other}) /\ Len(carries') = taken'
      /\ carries'[taken'] = e /\ \A n \in 1 .. taken : carries'[n] = carries[n]
      /\ DOMAIN carries = 1 .. taken /\ DOMAIN carries' = 1 .. taken'
  BY <1>1, SMTT(30) DEF JobsType
<1>3. e \in Jobs => Ahead(e)'
  BY <1>1, <1>2, SMTT(30) DEF Ahead
<1>4. Queued \subseteq Queued'
  BY <1>1, SMTT(30) DEF Queued
<1>5. ASSUME NEW j \in Jobs, j \in running => j \in running', Ahead(j)
      PROVE  Ahead(j)'
  <2>1. CASE j \in running \/ hand = j
    BY <1>5, <2>1 DEF Ahead
  <2>2. CASE \E n \in DOMAIN carries : carries[n] = j /\ n \in Queued \cup lost
    <3>1. PICK n \in 1 .. taken : carries[n] = j /\ n \in Queued \cup lost
      BY <1>2, <2>2, SMTT(30)
    <3>2. n \in DOMAIN carries' /\ carries'[n] = j /\ n \in Queued' \cup lost'
      BY <1>1, <1>2, <1>4, <3>1, SMTT(30)
    <3> QED
      BY <3>2, SMTT(30) DEF Ahead
  <2> QED
    BY <1>1, <1>5, <2>1, <2>2, SMTT(30) DEF Ahead
<1> QED
  BY <1>2, <1>3, <1>5, SMTT(30)

\* recv() puts the oldest item into the consumer's hands and leaves the rest.
LEMMA RecvKeepsAhead ==
  ASSUME IInv, JobsType, RecvEvent, NEW j \in Jobs, Ahead(j)
  PROVE  Ahead(j)'
<1> USE DEF IInv, Ledger, LedgerType
<1>1. /\ hand = NoEvent /\ queue # <<>> /\ queue' = Tail(queue)
      /\ last' = Head(queue)
      /\ hand' = IF last' = QueueFull THEN NoEvent ELSE carries[last']
      /\ UNCHANGED <<running, carries, taken, lost, pc>>
  BY DEF RecvEvent, Recv, readerVars, historyVars
<1>2. /\ Len(queue') = Len(queue) - 1 /\ Len(queue) >= 1 /\ Len(queue) \in Nat
      /\ Head(queue) = queue[1] /\ queue[1] \in Nat
      /\ \A i \in 1 .. Len(queue') : queue'[i] = queue[i + 1]
  BY <1>1, QueuedTail
<1>3. ASSUME NEW n \in Queued PROVE n \in Queued' \/ hand' = carries[n]
  <2>1. PICK i \in 1 .. Len(queue) : queue[i] = n
    BY DEF Queued
  <2>2. n \in 1 .. taken
    BY DEF Queued
  <2>3. CASE i = 1
    <3>1. last' = n /\ n # QueueFull
      BY <1>1, <1>2, <2>1, <2>2, <2>3 DEF QueueFull
    <3> QED
      BY <1>1, <3>1, SMTT(30)
  <2>4. CASE i # 1
    <3>1. i - 1 \in 1 .. Len(queue') /\ queue'[i - 1] = n
      BY <1>2, <2>1, <2>4, SMTT(30)
    <3> QED
      BY <1>1, <2>2, <3>1, ZenonT(30) DEF Queued
  <2> QED
    BY <2>3, <2>4
<1>4. hand # j
  BY <1>1, JobsAssumption
<1> QED
  BY <1>1, <1>3, <1>4, SMTT(30) DEF Ahead, InHand

\* A step that leaves the items, the running jobs and the hand alone.
LEMMA AheadStays ==
  ASSUME UNCHANGED <<queue, taken, pc, lost, carries, hand>>, NEW j \in Jobs, Ahead(j),
         j \in running => j \in running'
  PROVE  Ahead(j)'
  BY DEF Ahead, Queued, InHand

\* Every step preserves the invariant.
LEMMA NextJInv == IInv /\ JInv /\ [JobsNext]_allVars => JInv'
<1> SUFFICES ASSUME IInv, JInv, [JobsNext]_allVars PROVE JInv'
  OBVIOUS
<1> USE DEF JInv
<1>1. CASE QueueStep
  <2>1. UNCHANGED <<calls, carries, pending, taken>> /\ (open' => open)
    BY <1>1, QueueStepLeaves
  <2>2. JobsType'
    BY <2>1 DEF JobsType
  <2>3. AheadOf'
    BY <1>1, <2>1, QueueKeepsAhead DEF AheadOf, Owed
  <2> QED
    BY <2>2, <2>3, SMTT(30)
<1>2. ASSUME NEW j \in Jobs, TakeResult(j) PROVE JInv'
  <2>1. /\ UNCHANGED <<calls, pending, hand, open>> /\ carries' = Append(carries, j)
        /\ TakeItem("event") /\ "event" \in Kinds
    BY <1>2 DEF TakeResult, TakeItem, consumerVars, Kinds
  <2>2. /\ carries' \in Seq(Jobs \cup {Other}) /\ Len(carries') = taken'
        /\ Ahead(j)'
        /\ \A i \in Jobs : (i \in running => i \in running') /\ Ahead(i) => Ahead(i)'
    BY <2>1, TakeKeepsAhead
  <2>3. \A i \in Jobs : i # j /\ i \in running => i \in running'
    BY <1>2 DEF TakeResult
  <2>4. AheadOf'
    BY <2>1, <2>2, <2>3 DEF AheadOf, Owed
  <2> QED
    BY <2>1, <2>2, <2>4, SMTT(30) DEF JobsType
<1>3. CASE TakeOther
  <2>1. PICK k \in Kinds : TakeItem(k)
    BY <1>3, SMTT(30) DEF TakeOther
  <2>2. UNCHANGED <<calls, pending, hand, open, running>> /\ carries' = Append(carries, Other)
    BY <1>3, <2>1 DEF TakeOther, TakeItem, consumerVars
  <2>3. /\ carries' \in Seq(Jobs \cup {Other}) /\ Len(carries') = taken'
        /\ \A i \in Jobs : Ahead(i) => Ahead(i)'
    BY <2>1, <2>2, TakeKeepsAhead, SMTT(30)
  <2>4. AheadOf'
    BY <2>2, <2>3, SMTT(30) DEF AheadOf, Owed
  <2> QED
    BY <2>2, <2>3, <2>4 DEF JobsType
<1>4. CASE RecvEvent
  <2>1. UNCHANGED <<calls, carries, pending, taken, open>>
    BY <1>4 DEF RecvEvent, Recv, readerVars
  <2>2. AheadOf'
    BY <1>4, <2>1, RecvKeepsAhead, SMTT(30) DEF AheadOf, Owed
  <2> QED
    BY <2>1, <2>2, SMTT(30) DEF JobsType
<1>5. CASE TryComplete
  <2>1. /\ UNCHANGED <<vars, calls, running, carries>> /\ pending' = pending \ {hand}
        /\ \A j \in Jobs : calls[j] # "accepted"
    BY <1>5, SMTT(30) DEF TryComplete, TrackerFree
  <2>2. ASSUME NEW j \in Jobs, j # hand, Ahead(j) PROVE Ahead(j)'
    BY <2>1, <2>2, SMTT(30) DEF Ahead, Queued, InHand, vars
  <2>3. AheadOf'
    BY <2>1, <2>2 DEF AheadOf, Owed, vars
  <2> QED
    BY <2>1, <2>3 DEF JobsType, vars
<1>6. ASSUME NEW j \in Jobs,
             StartBgapi(j) \/ Accept(j) \/ BgapiReturns(j) \/ CallFails(j) \/ DirectBgapi(j) \/ Track(j)
      PROVE  JInv'
  <2>1. UNCHANGED <<vars, carries, hand>>
    BY <1>6, SMTT(30) DEF StartBgapi, Accept, BgapiReturns, CallFails, DirectBgapi, Track
  <2>2. PICK c \in CallStates : calls' = [calls EXCEPT ![j] = c]
    BY <1>6, SMTT(30) DEF StartBgapi, Accept, BgapiReturns, CallFails, DirectBgapi, Track, CallStates
  <2>3. pending' \subseteq Jobs /\ (\A i \in Jobs : i # j => (i \in pending' <=> i \in pending))
    BY <1>6 DEF StartBgapi, Accept, BgapiReturns, CallFails, DirectBgapi, Track, JobsType
  <2>4. JobsType'
    BY <2>1, <2>2, <2>3 DEF JobsType, vars
  <2>5. ASSUME NEW i \in Owed' PROVE i \in Owed \/ i \in running'
    <3>1. CASE i # j
      BY <2>2, <2>3, <2>5, <3>1, SMTT(30) DEF Owed, JobsType
    <3>2. CASE i = j
      BY <1>6, <3>2, SMTT(30) DEF Owed, JobsType, StartBgapi, Accept, BgapiReturns, CallFails, DirectBgapi, Track
    <3> QED
      BY <3>1, <3>2
  <2>6. \A i \in Jobs : i \in running => i \in running'
    BY <1>6 DEF StartBgapi, Accept, BgapiReturns, CallFails, DirectBgapi, Track
  <2>7. \A i \in Jobs : Ahead(i) => Ahead(i)'
    BY <2>1, <2>6, AheadStays, SMTT(30) DEF vars
  <2>8. AheadOf'
    BY <2>1, <2>5, <2>7, Zenon DEF AheadOf, Owed, Ahead, vars
  <2> QED
    BY <2>4, <2>8, SMTT(30)
<1>7. ASSUME NEW j \in Jobs, Evict(j) PROVE JInv'
  <2>1. UNCHANGED <<vars, calls, running, carries, hand>> /\ pending' \subseteq pending
    BY <1>7 DEF Evict
  <2>2. \A i \in Jobs : Ahead(i) => Ahead(i)'
    BY <2>1, AheadStays, SMTT(30) DEF vars
  <2> QED
    BY <2>1, <2>2 DEF JobsType, AheadOf, Owed, vars
<1>8. CASE UNCHANGED allVars
  <2>1. \A i \in Jobs : Ahead(i) => Ahead(i)'
    BY <1>8, AheadStays DEF allVars, vars, jobVars
  <2> QED
    BY <1>8, <2>1, SMTT(30) DEF JobsType, AheadOf, Owed, allVars, vars, jobVars
<1> QED
  BY <1>1, <1>2, <1>3, <1>4, <1>5, <1>6, <1>7, <1>8, SMTT(30) DEF JobsNext

\* The result of a pending job issued with bgapi() is ahead of the tracker or was
\* counted as dropped, for any number of jobs and however the answer, the result
\* and the consumer's offers interleave.
THEOREM PendingIsAccounted == JobsSpec => []PendingAccounted
<1>1. JInv => PendingAccounted
  BY DEF JInv, JobsType, AheadOf, Owed, Ahead, PendingAccounted
<1>2. JobsSpec => []IInv
  BY JobsRefineQueue, Inductive, PTL
<1> QED
  BY <1>1, <1>2, InitJInv, NextJInv, PTL DEF JobsSpec

=============================================================================
