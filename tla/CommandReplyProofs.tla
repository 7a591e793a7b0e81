------------------------- MODULE CommandReplyProofs -------------------------
(***************************************************************************)
(* Proofs about CommandReply, and about the adoption of its socket by a    *)
(* new process, for any set of tasks and any set of commands.              *)
(***************************************************************************)
EXTENDS AdoptReply, TLAPS

(***************************************************************************)
(* The inductive invariant.                                                *)
(***************************************************************************)
\* Who holds the mutex, and which command each task is sending.
Ownership ==
  /\ \A t \in Tasks : pc[t] \in Holding <=> writer = t
  /\ \A t \in Tasks : cmd[t] # NoCommand <=> pc[t] \in Holding \cup {"locking"}
  /\ \A s, t \in Tasks : cmd[s] = cmd[t] /\ cmd[s] # NoCommand => s = t
  /\ \A t \in Tasks : cmd[t] # NoCommand => result[cmd[t]] = "none"

\* Whose waiter is in the slot, and at which points of send_command().
Slot ==
  /\ waiting # NoCommand =>
       \E t \in Tasks : /\ writer = t
                        /\ cmd[t] = waiting
                        /\ pc[t] \in Holding \ {"installing"}
  /\ reader_dead <=> reader = "dead"
  /\ reader = "dead" => waiting = NoCommand
  /\ reader # "dead" => \A t \in Tasks : pc[t] = "writing" => waiting = cmd[t]

\* What the oneshots hold: only a command's own reply, nothing as long as the
\* waiter is in the slot, and something once the reader has let go of it.
Oneshots ==
  /\ \A c \in Commands : channel[c].state = "filled" => channel[c].of = c
  /\ \A c \in Commands : channel[c] # Empty =>
       /\ waiting # c
       /\ \/ result[c] # "none"
          \/ \E t \in Tasks : cmd[t] = c /\ pc[t] \in Holding \ {"installing"}
  /\ \A t \in Tasks :
       pc[t] \in {"writing", "waiting"} /\ waiting # cmd[t] => channel[cmd[t]] # Empty

IInv ==
  /\ TypeOK
  /\ Ownership
  /\ Slot
  /\ Oneshots
  /\ StaleAccounting
  /\ ReplyCorrelation

-----------------------------------------------------------------------------
USE ConstantsAssumption
USE DEF PC, Holding, Results, Status, ReaderReasons, EndFrames,
        Channel, Empty, Closed, Filled, clientVars, wireVars, pendingVars

\* A new connection has no waiter, nothing on the wire and no stale reply.
LEMMA InitIInv == Init => IInv
<1> SUFFICES ASSUME Init PROVE IInv
  OBVIOUS
<1>1. TypeOK
  <2>1. answered \in 0 .. Len(inflight) /\ inflight \in Seq(Commands)
    BY DEF Init
  <2>2. channel \in [Commands -> Channel]
    BY DEF Init
  <2> QED
    BY <2>1, <2>2, Zenon DEF Init, TypeOK, NewPendingReply
<1>2. Ownership /\ Slot /\ Oneshots
  BY DEF Init, NewPendingReply, Ownership, Slot, Oneshots
<1>3. StaleAccounting /\ ReplyCorrelation
  BY DEF Init, NewPendingReply, StaleAccounting, OnTheWire, ReplyCorrelation
<1> QED
  BY <1>1, <1>2, <1>3 DEF IInv

\* Every step preserves the invariant: one case per action.
LEMMA NextIInv == IInv /\ [Next]_vars => IInv'
<1> SUFFICES ASSUME IInv, [Next]_vars PROVE IInv'
  OBVIOUS
<1>1. ASSUME NEW t \in Tasks, NEW c \in Commands, SendCommand(t, c) PROVE IInv'
  <2> USE <1>1 DEF SendCommand, Unused, is_connected
  <2>1. TypeOK'
    BY SMTT(30) DEF IInv, TypeOK, Ownership
  <2>2. Ownership'
    BY SMTT(30) DEF IInv, TypeOK, Ownership
  <2>3. Slot'
    BY DEF IInv, TypeOK, Ownership, Slot, Oneshots, StaleAccounting, OnTheWire
  <2>4. Oneshots'
    BY DEF IInv, TypeOK, Ownership, Slot, Oneshots, StaleAccounting, OnTheWire
  <2>5. StaleAccounting'
    BY DEF IInv, TypeOK, Ownership, Slot, Oneshots, StaleAccounting, OnTheWire
  <2>6. ReplyCorrelation'
    BY DEF IInv, TypeOK, Ownership, Oneshots, ReplyCorrelation
  <2> QED
    BY <2>1, <2>2, <2>3, <2>4, <2>5, <2>6 DEF IInv
<1>2. ASSUME NEW t \in Tasks, LockWriter(t) PROVE IInv'
  <2> USE <1>2 DEF LockWriter
  <2>1. TypeOK'
    BY DEF IInv, TypeOK, Ownership
  <2>2. Ownership'
    BY DEF IInv, TypeOK, Ownership
  <2>3. Slot'
    BY DEF IInv, TypeOK, Ownership, Slot, Oneshots, StaleAccounting, OnTheWire
  <2>4. Oneshots'
    BY DEF IInv, TypeOK, Ownership, Slot, Oneshots, StaleAccounting, OnTheWire
  <2>5. StaleAccounting'
    BY DEF IInv, TypeOK, Ownership, Slot, Oneshots, StaleAccounting, OnTheWire
  <2>6. ReplyCorrelation'
    BY DEF IInv, TypeOK, Ownership, Oneshots, ReplyCorrelation
  <2> QED
    BY <2>1, <2>2, <2>3, <2>4, <2>5, <2>6 DEF IInv
<1>3. ASSUME NEW t \in Tasks, InstallWaiter(t) PROVE IInv'
  <2> USE <1>3 DEF InstallWaiter, Return
  <2>1. TypeOK'
    BY DEF IInv, TypeOK, Ownership
  <2>2. Ownership'
    BY DEF IInv, TypeOK, Ownership
  <2>3. Slot'
    BY DEF IInv, TypeOK, Ownership, Slot
  <2>4. Oneshots'
    BY DEF IInv, TypeOK, Ownership, Slot, Oneshots, StaleAccounting, OnTheWire
  <2>5. StaleAccounting'
    BY DEF IInv, TypeOK, Ownership, Slot, Oneshots, StaleAccounting, OnTheWire
  <2>6. ReplyCorrelation'
    BY DEF IInv, TypeOK, Ownership, Oneshots, ReplyCorrelation
  <2> QED
    BY <2>1, <2>2, <2>3, <2>4, <2>5, <2>6 DEF IInv
<1>4. ASSUME NEW t \in Tasks, WriteCommand(t) PROVE IInv'
  <2> USE <1>4 DEF WriteCommand
  <2>1. TypeOK'
    BY DEF IInv, TypeOK, Ownership
  <2>2. Ownership'
    BY DEF IInv, TypeOK, Ownership
  <2>3. Slot'
    BY DEF IInv, TypeOK, Ownership, Slot, Oneshots, StaleAccounting, OnTheWire
  <2>4. Oneshots'
    BY DEF IInv, TypeOK, Ownership, Slot, Oneshots, StaleAccounting, OnTheWire
  <2>5. StaleAccounting'
    BY DEF IInv, TypeOK, Ownership, Slot, Oneshots, StaleAccounting, OnTheWire
  <2>6. ReplyCorrelation'
    BY DEF IInv, TypeOK, Ownership, Oneshots, ReplyCorrelation
  <2> QED
    BY <2>1, <2>2, <2>3, <2>4, <2>5, <2>6 DEF IInv
<1>5. ASSUME NEW t \in Tasks, WriteFails(t) PROVE IInv'
  <2> USE <1>5 DEF WriteFails
  <2>1. TypeOK'
    BY DEF IInv, TypeOK, Ownership
  <2>2. Ownership'
    BY DEF IInv, TypeOK, Ownership
  <2>3. Slot'
    BY DEF IInv, TypeOK, Ownership, Slot, Oneshots, StaleAccounting, OnTheWire
  <2>4. Oneshots'
    BY DEF IInv, TypeOK, Ownership, Slot, Oneshots, StaleAccounting, OnTheWire
  <2>5. StaleAccounting'
    BY DEF IInv, TypeOK, Ownership, Slot, Oneshots, StaleAccounting, OnTheWire
  <2>6. ReplyCorrelation'
    BY DEF IInv, TypeOK, Ownership, Oneshots, ReplyCorrelation
  <2> QED
    BY <2>1, <2>2, <2>3, <2>4, <2>5, <2>6 DEF IInv
<1>6. ASSUME NEW t \in Tasks, ClearWaiter(t) PROVE IInv'
  <2> USE <1>6 DEF ClearWaiter, Return
  <2>1. TypeOK'
    BY DEF IInv, TypeOK, Ownership
  <2>2. Ownership'
    BY DEF IInv, TypeOK, Ownership
  <2>3. Slot'
    BY DEF IInv, TypeOK, Ownership, Slot, Oneshots, StaleAccounting, OnTheWire
  <2>4. Oneshots'
    BY DEF IInv, TypeOK, Ownership, Slot, Oneshots, StaleAccounting, OnTheWire
  <2>5. StaleAccounting'
    BY SMTT(30) DEF IInv, TypeOK, Ownership, Slot, Oneshots, StaleAccounting, OnTheWire
  <2>6. ReplyCorrelation'
    BY SMTT(30) DEF IInv, TypeOK, Ownership, Oneshots, ReplyCorrelation
  <2> QED
    BY <2>1, <2>2, <2>3, <2>4, <2>5, <2>6 DEF IInv
<1>7. ASSUME NEW t \in Tasks, ReceiveReply(t) PROVE IInv'
  <2> USE <1>7 DEF ReceiveReply, Return
  <2>1. TypeOK'
    BY DEF IInv, TypeOK, Ownership
  <2>2. Ownership'
    BY DEF IInv, TypeOK, Ownership
  <2>3. Slot'
    BY DEF IInv, TypeOK, Ownership, Slot, Oneshots, StaleAccounting, OnTheWire
  <2>4. Oneshots'
    BY DEF IInv, TypeOK, Ownership, Slot, Oneshots, StaleAccounting, OnTheWire
  <2>5. StaleAccounting'
    BY SMTT(30) DEF IInv, TypeOK, Ownership, Slot, Oneshots, StaleAccounting, OnTheWire
  <2>6. ReplyCorrelation'
    BY DEF IInv, TypeOK, Ownership, Oneshots, ReplyCorrelation
  <2> QED
    BY <2>1, <2>2, <2>3, <2>4, <2>5, <2>6 DEF IInv
<1>8. ASSUME NEW t \in Tasks, ReceiveClosed(t) PROVE IInv'
  <2> USE <1>8 DEF ReceiveClosed, Return
  <2>1. TypeOK'
    BY DEF IInv, TypeOK, Ownership
  <2>2. Ownership'
    BY SMTT(30) DEF IInv, TypeOK, Ownership
  <2>3. Slot'
    BY SMTT(30) DEF IInv, TypeOK, Ownership, Slot, Oneshots, StaleAccounting, OnTheWire
  <2>4. Oneshots'
    BY DEF IInv, TypeOK, Ownership, Slot, Oneshots, StaleAccounting, OnTheWire
  <2>5. StaleAccounting'
    BY DEF IInv, TypeOK, Ownership, Slot, Oneshots, StaleAccounting, OnTheWire
  <2>6. ReplyCorrelation'
    BY SMTT(30) DEF IInv, TypeOK, Ownership, Oneshots, ReplyCorrelation
  <2> QED
    BY <2>1, <2>2, <2>3, <2>4, <2>5, <2>6 DEF IInv
<1>9. ASSUME NEW t \in Tasks, TimeoutElapses(t) PROVE IInv'
  <2> USE <1>9 DEF TimeoutElapses
  <2>1. TypeOK'
    BY DEF IInv, TypeOK, Ownership
  <2>2. Ownership'
    BY SMTT(30) DEF IInv, TypeOK, Ownership
  <2>3. Slot'
    BY SMTT(30) DEF IInv, TypeOK, Ownership, Slot, Oneshots, StaleAccounting, OnTheWire
  <2>4. Oneshots'
    BY DEF IInv, TypeOK, Ownership, Slot, Oneshots, StaleAccounting, OnTheWire
  <2>5. StaleAccounting'
    BY DEF IInv, TypeOK, Ownership, Slot, Oneshots, StaleAccounting, OnTheWire
  <2>6. ReplyCorrelation'
    BY DEF IInv, TypeOK, Ownership, Oneshots, ReplyCorrelation
  <2> QED
    BY <2>1, <2>2, <2>3, <2>4, <2>5, <2>6 DEF IInv
<1>10. ASSUME NEW t \in Tasks, SettleTimeout(t) PROVE IInv'
  <2> USE <1>10 DEF SettleTimeout, Return
  <2>1. TypeOK'
    BY DEF IInv, TypeOK, Ownership
  <2>2. Ownership'
    BY DEF IInv, TypeOK, Ownership
  <2>3. Slot'
    BY SMTT(30) DEF IInv, TypeOK, Ownership, Slot, Oneshots, StaleAccounting, OnTheWire
  <2>4. Oneshots'
    BY DEF IInv, TypeOK, Ownership, Slot, Oneshots, StaleAccounting, OnTheWire
  <2>5. StaleAccounting'
    BY SMTT(30) DEF IInv, TypeOK, Ownership, Slot, Oneshots, StaleAccounting, OnTheWire
  <2>6. ReplyCorrelation'
    BY DEF IInv, TypeOK, Ownership, Oneshots, ReplyCorrelation
  <2> QED
    BY <2>1, <2>2, <2>3, <2>4, <2>5, <2>6, SMTT(30) DEF IInv
<1>11. ASSUME NEW t \in Tasks, Disconnect(t) PROVE IInv'
  <2> USE <1>11 DEF Disconnect
  <2>1. TypeOK'
    BY DEF IInv, TypeOK, Ownership
  <2>2. Ownership'
    BY SMTT(30) DEF IInv, TypeOK, Ownership
  <2>3. Slot'
    BY SMTT(30) DEF IInv, TypeOK, Ownership, Slot, Oneshots, StaleAccounting, OnTheWire
  <2>4. Oneshots'
    BY SMTT(30) DEF IInv, TypeOK, Ownership, Slot, Oneshots, StaleAccounting, OnTheWire
  <2>5. StaleAccounting'
    BY DEF IInv, TypeOK, Ownership, Slot, Oneshots, StaleAccounting, OnTheWire
  <2>6. ReplyCorrelation'
    BY DEF IInv, TypeOK, Ownership, Oneshots, ReplyCorrelation
  <2> QED
    BY <2>1, <2>2, <2>3, <2>4, <2>5, <2>6, SMTT(30) DEF IInv
<1>12. ASSUME NEW t \in Tasks, ShutdownWriter(t) PROVE IInv'
  <2> USE <1>12 DEF ShutdownWriter
  <2>1. TypeOK'
    BY DEF IInv, TypeOK, Ownership
  <2>2. Ownership'
    BY SMTT(30) DEF IInv, TypeOK, Ownership
  <2>3. Slot'
    BY SMTT(30) DEF IInv, TypeOK, Ownership, Slot, Oneshots, StaleAccounting, OnTheWire
  <2>4. Oneshots'
    BY SMTT(30) DEF IInv, TypeOK, Ownership, Slot, Oneshots, StaleAccounting, OnTheWire
  <2>5. StaleAccounting'
    BY SMTT(30) DEF IInv, TypeOK, Ownership, Slot, Oneshots, StaleAccounting, OnTheWire
  <2>6. ReplyCorrelation'
    BY DEF IInv, TypeOK, Ownership, Oneshots, ReplyCorrelation
  <2> QED
    BY <2>1, <2>2, <2>3, <2>4, <2>5, <2>6, SMTT(30) DEF IInv
<1>13. CASE DispatchReply
  <2> USE <1>13 DEF DispatchReply
  <2>0. /\ inflight \in Seq(Commands) /\ Len(inflight) >= 1
        /\ answered \in 1 .. Len(inflight) /\ Head(inflight) \in Commands
        /\ inflight' \in Seq(Commands) /\ Len(inflight') = Len(inflight) - 1
        /\ \A i \in 1 .. Len(inflight') : inflight'[i] = inflight[i + 1]
    BY SMTT(30) DEF IInv, TypeOK
  <2>1. TypeOK'
    <3>2. inflight' \in Seq(Commands) /\ answered' \in 0 .. Len(inflight')
      BY <2>0
    <3>3. channel' \in [Commands -> Channel]
      <4>1. Filled(Head(inflight)) \in Channel
        BY <2>0
      <4>2. CASE channel' = channel
        BY <4>2 DEF IInv, TypeOK
      <4>3. CASE channel' = [channel EXCEPT ![waiting] = Filled(Head(inflight))]
        BY <4>1, <4>3, Zenon DEF IInv, TypeOK
      <4> QED
        BY <4>2, <4>3
    <3> QED
      BY <3>2, <3>3, SMTT(30) DEF IInv, TypeOK
  <2>2. Ownership'
    BY SMTT(30) DEF IInv, TypeOK, Ownership
  <2>3. Slot'
    BY SMTT(30) DEF IInv, TypeOK, Ownership, Slot, Oneshots, StaleAccounting, OnTheWire
  <2>4. Oneshots'
    BY DEF IInv, TypeOK, Ownership, Slot, Oneshots, StaleAccounting, OnTheWire
  <2>5. StaleAccounting'
    <3> USE <2>0
    <3>1. CASE stale_replies > 0
      <4>1. OnTheWire' <=> OnTheWire
        BY <3>1 DEF OnTheWire
      <4>2. OnTheWire => Len(inflight) = stale_replies + 1 /\ inflight[Len(inflight)] = waiting
        BY DEF IInv, StaleAccounting
      <4>3. OnTheWire => inflight'[Len(inflight')] = waiting
        BY <3>1, <4>2, SMTT(30) DEF IInv, TypeOK
      <4>4. CASE OnTheWire
        BY <3>1, <4>1, <4>2, <4>3, <4>4, SMTT(30) DEF IInv, TypeOK, StaleAccounting
      <4>5. CASE ~OnTheWire
        BY <3>1, <4>1, <4>5, SMTT(30) DEF IInv, TypeOK, StaleAccounting
      <4> QED
        BY <4>4, <4>5
    <3>2. CASE stale_replies = 0
      <4>1. waiting' = NoCommand /\ stale_replies' = 0 /\ Len(inflight') = 0
        BY <3>2, SMTT(30) DEF IInv, TypeOK, StaleAccounting
      <4> QED
        BY <4>1, SMTT(30) DEF StaleAccounting, OnTheWire
    <3> QED
      BY <3>1, <3>2 DEF IInv, TypeOK
  <2>6. ReplyCorrelation'
    BY DEF IInv, TypeOK, Ownership, Oneshots, ReplyCorrelation
  <2> QED
    BY <2>1, <2>2, <2>3, <2>4, <2>5, <2>6, SMTT(30) DEF IInv
<1>14. CASE ReadEndFrame
  <2> USE <1>14 DEF ReadEndFrame, ReaderExit, ReasonOf
  <2>1. TypeOK'
    BY DEF IInv, TypeOK, Ownership
  <2>2. Ownership'
    BY DEF IInv, TypeOK, Ownership
  <2>3. Slot'
    BY DEF IInv, TypeOK, Ownership, Slot, Oneshots, StaleAccounting, OnTheWire
  <2>4. Oneshots'
    BY DEF IInv, TypeOK, Ownership, Slot, Oneshots, StaleAccounting, OnTheWire
  <2>5. StaleAccounting'
    BY DEF IInv, TypeOK, Ownership, Slot, Oneshots, StaleAccounting, OnTheWire
  <2>6. ReplyCorrelation'
    BY DEF IInv, TypeOK, Ownership, Oneshots, ReplyCorrelation
  <2> QED
    BY <2>1, <2>2, <2>3, <2>4, <2>5, <2>6 DEF IInv
<1>15. CASE ReadError
  <2> USE <1>15 DEF ReadError, ReaderExit, ReasonOf
  <2>1. TypeOK'
    BY SMTT(30) DEF IInv, TypeOK, Ownership
  <2>2. Ownership'
    BY SMTT(30) DEF IInv, TypeOK, Ownership
  <2>3. Slot'
    BY SMTT(30) DEF IInv, TypeOK, Ownership, Slot, Oneshots, StaleAccounting, OnTheWire
  <2>4. Oneshots'
    BY SMTT(30) DEF IInv, TypeOK, Ownership, Slot, Oneshots, StaleAccounting, OnTheWire
  <2>5. StaleAccounting'
    BY SMTT(30) DEF IInv, TypeOK, Ownership, Slot, Oneshots, StaleAccounting, OnTheWire
  <2>6. ReplyCorrelation'
    BY DEF IInv, TypeOK, Ownership, Oneshots, ReplyCorrelation
  <2> QED
    BY <2>1, <2>2, <2>3, <2>4, <2>5, <2>6, SMTT(30) DEF IInv
<1>16. CASE HeartbeatExpired
  <2> USE <1>16 DEF HeartbeatExpired, ReaderExit, ReasonOf
  <2>1. TypeOK'
    BY DEF IInv, TypeOK, Ownership
  <2>2. Ownership'
    BY SMTT(30) DEF IInv, TypeOK, Ownership
  <2>3. Slot'
    BY SMTT(30) DEF IInv, TypeOK, Ownership, Slot, Oneshots, StaleAccounting, OnTheWire
  <2>4. Oneshots'
    BY SMTT(30) DEF IInv, TypeOK, Ownership, Slot, Oneshots, StaleAccounting, OnTheWire
  <2>5. StaleAccounting'
    BY SMTT(30) DEF IInv, TypeOK, Ownership, Slot, Oneshots, StaleAccounting, OnTheWire
  <2>6. ReplyCorrelation'
    BY DEF IInv, TypeOK, Ownership, Oneshots, ReplyCorrelation
  <2> QED
    BY <2>1, <2>2, <2>3, <2>4, <2>5, <2>6, SMTT(30) DEF IInv
<1>17. CASE ConsumerGone
  <2> USE <1>17 DEF ConsumerGone, ReaderExit, ReasonOf
  <2>1. TypeOK'
    BY SMTT(30) DEF IInv, TypeOK, Ownership
  <2>2. Ownership'
    BY SMTT(30) DEF IInv, TypeOK, Ownership
  <2>3. Slot'
    BY SMTT(30) DEF IInv, TypeOK, Ownership, Slot, Oneshots, StaleAccounting, OnTheWire
  <2>4. Oneshots'
    BY SMTT(30) DEF IInv, TypeOK, Ownership, Slot, Oneshots, StaleAccounting, OnTheWire
  <2>5. StaleAccounting'
    BY SMTT(30) DEF IInv, TypeOK, Ownership, Slot, Oneshots, StaleAccounting, OnTheWire
  <2>6. ReplyCorrelation'
    BY DEF IInv, TypeOK, Ownership, Oneshots, ReplyCorrelation
  <2> QED
    BY <2>1, <2>2, <2>3, <2>4, <2>5, <2>6, SMTT(30) DEF IInv
<1>18. CASE FailPendingReply
  <2> USE <1>18 DEF FailPendingReply
  <2>1. TypeOK'
    BY DEF IInv, TypeOK, Ownership
  <2>2. Ownership'
    BY SMTT(30) DEF IInv, TypeOK, Ownership
  <2>3. Slot'
    BY SMTT(30) DEF IInv, TypeOK, Ownership, Slot, Oneshots, StaleAccounting, OnTheWire
  <2>4. Oneshots'
    BY SMTT(30) DEF IInv, TypeOK, Ownership, Slot, Oneshots, StaleAccounting, OnTheWire
  <2>5. StaleAccounting'
    BY SMTT(30) DEF IInv, TypeOK, Ownership, Slot, Oneshots, StaleAccounting, OnTheWire
  <2>6. ReplyCorrelation'
    BY DEF IInv, TypeOK, Ownership, Oneshots, ReplyCorrelation
  <2> QED
    BY <2>1, <2>2, <2>3, <2>4, <2>5, <2>6, SMTT(30) DEF IInv
<1>19. CASE ServerReplies
  <2> USE <1>19 DEF ServerReplies
  <2>1. TypeOK'
    BY SMTT(30) DEF IInv, TypeOK, Ownership
  <2>2. Ownership'
    BY SMTT(30) DEF IInv, TypeOK, Ownership
  <2>3. Slot'
    BY SMTT(30) DEF IInv, TypeOK, Ownership, Slot, Oneshots, StaleAccounting, OnTheWire
  <2>4. Oneshots'
    BY SMTT(30) DEF IInv, TypeOK, Ownership, Slot, Oneshots, StaleAccounting, OnTheWire
  <2>5. StaleAccounting'
    BY SMTT(30) DEF IInv, TypeOK, Ownership, Slot, Oneshots, StaleAccounting, OnTheWire
  <2>6. ReplyCorrelation'
    BY DEF IInv, TypeOK, Ownership, Oneshots, ReplyCorrelation
  <2> QED
    BY <2>1, <2>2, <2>3, <2>4, <2>5, <2>6, SMTT(30) DEF IInv
<1>20. CASE DropStream
  <2> USE <1>20 DEF DropStream
  <2>1. TypeOK'
    <3>1. /\ pc' \in [Tasks -> PC] /\ cmd' \in [Tasks -> Commands \cup {NoCommand}]
          /\ writer' \in Tasks \cup {NoTask} /\ waiting' \in Commands \cup {NoCommand}
          /\ stale_replies' \in Nat
      BY DEF IInv, TypeOK
    <3>2. /\ channel' \in [Commands -> Channel] /\ result' \in [Commands -> Results]
          /\ reply' \in [Commands -> Commands \cup {NoCommand}]
      BY DEF IInv, TypeOK
    <3>3. inflight' \in Seq(Commands) /\ answered' \in 0 .. Len(inflight')
      BY DEF IInv, TypeOK
    <3>4. /\ peer' \in EndFrames \cup {"open"} /\ reader' \in {"running", "exiting", "dead"}
          /\ status' \in Status
      BY DEF IInv, TypeOK
    <3>5. reader_dead' \in BOOLEAN /\ stream' \in BOOLEAN /\ shut' \in BOOLEAN
      BY Zenon DEF IInv, TypeOK
    <3> QED
      BY <3>1, <3>2, <3>3, <3>4, <3>5, SMTT(30) DEF TypeOK
  <2>2. Ownership'
    BY SMTT(30) DEF IInv, TypeOK, Ownership
  <2>3. Slot'
    BY SMTT(30) DEF IInv, TypeOK, Ownership, Slot, Oneshots, StaleAccounting, OnTheWire
  <2>4. Oneshots'
    BY SMTT(30) DEF IInv, TypeOK, Ownership, Slot, Oneshots, StaleAccounting, OnTheWire
  <2>5. StaleAccounting'
    BY SMTT(30) DEF IInv, TypeOK, Ownership, Slot, Oneshots, StaleAccounting, OnTheWire
  <2>6. ReplyCorrelation'
    BY SMTT(30) DEF IInv, TypeOK, Ownership, Oneshots, ReplyCorrelation
  <2> QED
    BY <2>1, <2>2, <2>3, <2>4, <2>5, <2>6, SMTT(30) DEF IInv
<1>21. ASSUME NEW f \in EndFrames, ServerEnds(f) PROVE IInv'
  BY <1>21, SMTT(30) DEF ServerEnds, IInv, TypeOK, Ownership, Slot, Oneshots, StaleAccounting, OnTheWire, ReplyCorrelation
<1>22. CASE UNCHANGED vars
  BY <1>22 DEF vars, IInv, TypeOK, Ownership, Slot, Oneshots, StaleAccounting, OnTheWire, ReplyCorrelation
<1> QED
  BY <1>1, <1>2, <1>3, <1>4, <1>5, <1>6, <1>7, <1>8, <1>9, <1>10, <1>11, <1>12, <1>13, <1>14, <1>15, <1>16, <1>17, <1>18, <1>19, <1>20, <1>21, <1>22 DEF Next, SendSteps, ReaderSteps, Environment

-----------------------------------------------------------------------------
\* The inductive invariant holds in every reachable state.
LEMMA Inductive == Spec => []IInv
BY InitIInv, NextIInv, PTL DEF Spec

\* Every variable keeps its type.
THEOREM TypeCorrect == Spec => []TypeOK
<1>1. IInv => TypeOK
  BY DEF IInv
<1> QED
  BY <1>1, Inductive, PTL

\* Every call of send_command() that returns Ok returns its own reply: the FIFO
\* discipline of the server, the writer mutex and the stale_replies counter are
\* together enough to correlate replies without correlation ids.
THEOREM RepliesCorrelated == Spec => []ReplyCorrelation
<1>1. IInv => ReplyCorrelation
  BY DEF IInv
<1> QED
  BY <1>1, Inductive, PTL

\* stale_replies counts exactly the replies of timed-out commands still to come.
THEOREM StaleRepliesCounted == Spec => []StaleAccounting
<1>1. IInv => StaleAccounting
  BY SMTT(30) DEF IInv
<1> QED
  BY <1>1, Inductive, PTL

\* An occupied slot always belongs to the holder of the writer mutex.
THEOREM PhantomFree == Spec => []NoPhantomWaiter
<1>1. IInv => NoPhantomWaiter
  BY SMTT(30) DEF IInv, Slot, NoPhantomWaiter
<1> QED
  BY <1>1, Inductive, PTL

\* No caller is left waiting on a oneshot that nobody will ever fill or drop.
THEOREM NobodyStranded == Spec => []NoStrandedWaiter
<1>1. IInv => NoStrandedWaiter
  BY DEF IInv, TypeOK, Ownership, Slot, Oneshots, NoStrandedWaiter
<1> QED
  BY <1>1, Inductive, PTL

\* No step replaces an installed waiter by another one.
THEOREM SlotNeverOverwritten == Spec => NeverOverwriteWaiter
<1>1. IInv /\ [Next]_vars => [waiting # NoCommand => waiting' \in {waiting, NoCommand}]_waiting
  <2> SUFFICES ASSUME IInv, Next, waiting # NoCommand, waiting' # waiting
               PROVE  waiting' = NoCommand
    BY SMTT(30) DEF vars
  <2>1. ASSUME NEW t \in Tasks, InstallWaiter(t) PROVE FALSE
    BY <2>1, SMTT(30) DEF InstallWaiter, IInv, TypeOK, Ownership, Slot
  <2>2. ASSUME NEW t \in Tasks, SendSteps(t), ~InstallWaiter(t) PROVE waiting' = NoCommand
    <3>1. ASSUME NEW c \in Commands, SendCommand(t, c) PROVE waiting' = waiting
      BY <3>1, SMTT(30) DEF SendCommand
    <3>2. CASE LockWriter(t) \/ WriteCommand(t) \/ WriteFails(t) \/ ReceiveReply(t) \/ ReceiveClosed(t) \/ TimeoutElapses(t)
      BY <3>2 DEF LockWriter, WriteCommand, WriteFails, ReceiveReply, ReceiveClosed, TimeoutElapses
    <3>3. CASE ClearWaiter(t) \/ SettleTimeout(t)
      BY <3>3 DEF ClearWaiter, SettleTimeout
    <3> QED
      BY <2>2, <3>1, <3>2, <3>3, Zenon DEF SendSteps
  <2>3. CASE ReaderSteps
    BY <2>3, Zenon DEF ReaderSteps, DispatchReply, ReadEndFrame, ReadError, HeartbeatExpired,
                ConsumerGone, ReaderExit, FailPendingReply
  <2>4. CASE Environment
    BY <2>4, SMTT(30) DEF Environment, ServerReplies, ServerEnds, DropStream
  <2> QED
    BY <2>1, <2>2, <2>3, <2>4 DEF Next, Disconnect, ShutdownWriter
<1> QED
  BY <1>1, Inductive, PTL DEF Spec, NeverOverwriteWaiter

-----------------------------------------------------------------------------
(***************************************************************************)
(* Refinement.  The mutex is what makes commands sequential: taking it     *)
(* begins the abstract command, the return that releases it ends it.       *)
(***************************************************************************)
\* A task past the lock has it, for a command of its own.
LEMMA Holder ==
  ASSUME IInv, NEW t \in Tasks, pc[t] \in Holding
  PROVE  cmd[t] \in Commands /\ writer = t /\ t # NoTask
BY SMTT(30) DEF IInv, TypeOK, Ownership

\* Every step is a step of the service, or leaves it as it is.
LEMMA RpcStep == IInv /\ [Next]_vars => [Rpc!Next]_(Rpc!vars)
<1> SUFFICES ASSUME IInv, [Next]_vars PROVE [Rpc!Next]_(Rpc!vars)
  BY SMTT(30)
<1> USE DEF Rpc!Next, Rpc!vars
<1>1. ASSUME NEW t \in Tasks, NEW c \in Commands, SendCommand(t, c)
      PROVE  [Rpc!Next]_(Rpc!vars)
  <2>1. CASE is_connected
    <3>1. writer # NoTask => cmd'[writer] = cmd[writer]
      BY <1>1, <2>1, SMTT(30) DEF SendCommand, is_connected, IInv, TypeOK, Ownership
    <3> QED
      BY <1>1, <2>1, <3>1, SMTT(30) DEF SendCommand, is_connected
  <2>2. CASE ~is_connected
    <3>1. Rpc!Reject(c)
      BY <1>1, <2>2, Zenon DEF Rpc!Reject, SendCommand, Unused, is_connected, IInv, TypeOK
    <3> QED
      BY <3>1, SMTT(30)
  <2> QED
    BY <2>1, <2>2, Zenon
<1>2. ASSUME NEW t \in Tasks, LockWriter(t) PROVE [Rpc!Next]_(Rpc!vars)
  <2>1. PICK c \in Commands : c = cmd[t] /\ result[c] = "none" /\ t # NoTask
    BY <1>2, SMTT(30) DEF LockWriter, IInv, TypeOK, Ownership
  <2>2. Rpc!Begin(c)
    BY <1>2, <2>1, SMTT(30) DEF Rpc!Begin, LockWriter
  <2> QED
    BY <2>2, SMTT(30)
\* A return with an error fails the active command.
<1>3. ASSUME NEW t \in Tasks, NEW r \in Results \ {"none", "ok"}, pc[t] \in Holding,
             Return(t, r), UNCHANGED reply
      PROVE  [Rpc!Next]_(Rpc!vars)
  <2>1. PICK c \in Commands : c = cmd[t] /\ writer = t /\ t # NoTask
    BY <1>3, Holder, Zenon
  <2>2. Rpc!Fail(c)
    BY <1>3, <2>1, Zenon DEF Rpc!Fail, Return, IInv, TypeOK
  <2> QED
    BY <2>2, SMTT(30)
<1>4. ASSUME NEW t \in Tasks, ReceiveReply(t) PROVE [Rpc!Next]_(Rpc!vars)
  <2>1. PICK c \in Commands : c = cmd[t] /\ writer = t /\ t # NoTask
    <3>1. pc[t] \in Holding
      BY <1>4, SMTT(30) DEF ReceiveReply, Holding
    <3> QED
      BY <3>1, Holder, Zenon
  <2>2. channel[c].of = c
    BY <1>4, <2>1, SMTT(30) DEF ReceiveReply, IInv, Oneshots
  <2>3. Rpc!Succeed(c)
    BY <1>4, <2>1, <2>2, ZenonT(30) DEF Rpc!Succeed, ReceiveReply, Return, IInv, TypeOK
  <2> QED
    BY <2>3
<1>5. ASSUME NEW t \in Tasks, InstallWaiter(t) PROVE [Rpc!Next]_(Rpc!vars)
  <2>1. CASE reader_dead
    BY <1>3, <1>5, <2>1, SMTT(30) DEF InstallWaiter
  <2>2. CASE ~reader_dead
    BY <1>5, <2>2, SMTT(30) DEF InstallWaiter
  <2> QED
    BY <2>1, <2>2, SMTT(30)
<1>6. ASSUME NEW t \in Tasks, ClearWaiter(t) \/ ReceiveClosed(t) \/ SettleTimeout(t)
      PROVE  [Rpc!Next]_(Rpc!vars)
  BY <1>3, <1>6, SMTT(30) DEF ClearWaiter, ReceiveClosed, SettleTimeout
\* Everything else leaves the mutex, the commands and the results alone.
<1>7. ASSUME UNCHANGED <<writer, cmd, result, reply>> PROVE [Rpc!Next]_(Rpc!vars)
  <2>1. writer' = writer /\ cmd' = cmd /\ result' = result /\ reply' = reply
    BY <1>7
  <2> QED
    BY <2>1, Zenon
<1>8. ASSUME NEW t \in Tasks,
             WriteCommand(t) \/ WriteFails(t) \/ TimeoutElapses(t) \/ Disconnect(t)
               \/ ShutdownWriter(t)
      PROVE  UNCHANGED <<writer, cmd, result, reply>>
  <2>1. CASE WriteCommand(t) \/ WriteFails(t)
    BY <2>1, SMTT(30) DEF WriteCommand, WriteFails
  <2>2. CASE TimeoutElapses(t)
    BY <2>2 DEF TimeoutElapses
  <2>3. CASE Disconnect(t) \/ ShutdownWriter(t)
    BY <2>3 DEF Disconnect, ShutdownWriter
  <2> QED
    BY <1>8, <2>1, <2>2, <2>3, Zenon
<1>9. ASSUME ReaderSteps \/ Environment \/ UNCHANGED vars
      PROVE  UNCHANGED <<writer, cmd, result, reply>>
  <2>1. CASE DispatchReply
    BY <2>1 DEF DispatchReply
  <2>2. CASE ReadEndFrame \/ ReadError \/ HeartbeatExpired \/ ConsumerGone
    BY <2>2 DEF ReadEndFrame, ReadError, HeartbeatExpired, ConsumerGone, ReaderExit
  <2>3. CASE FailPendingReply
    BY <2>3 DEF FailPendingReply
  <2>4. CASE Environment
    BY <2>4 DEF Environment, ServerReplies, ServerEnds, DropStream
  <2>5. CASE UNCHANGED vars
    BY <2>5 DEF vars
  <2> QED
    BY <1>9, <2>1, <2>2, <2>3, <2>4, <2>5, Zenon DEF ReaderSteps
<1> QED
  BY <1>1, <1>2, <1>4, <1>5, <1>6, <1>7, <1>8, <1>9, Zenon DEF Next, SendSteps

\* The connection implements the sequential request/response service: commands
\* are active one at a time and end once, with their own reply or an error.
THEOREM RefinesSequentialRpc == Spec => ImplementsRpc
<1>1. Init => Rpc!Init
  BY DEF Init, Rpc!Init
<1> QED
  BY <1>1, RpcStep, Inductive, PTL DEF Spec, ImplementsRpc, Rpc!Spec

-----------------------------------------------------------------------------
(***************************************************************************)
(* Adoption.  Teardown and adoption preserve the invariant wherever the    *)
(* precondition of docs/reexec.md holds: nothing is in flight.             *)
(***************************************************************************)
\* The steps of teardown_for_reexec() leave commands and replies alone.
LEMMA TeardownStep ==
  ASSUME IInv, CheckPending \/ StopReader \/ FinishTeardown
  PROVE  IInv'
<1>1. CASE CheckPending
  BY <1>1, NextIInv, Zenon DEF CheckPending
<1>2. ASSUME /\ UNCHANGED <<clientVars, pendingVars, channel, wireVars, stream, shut>>
             /\ status' = "ReexecTeardown"
             /\ reader' \in {"running", "exiting", "dead"}
             /\ reader' = "dead" <=> reader = "dead"
      PROVE  IInv'
  <2>1. TypeOK'
    BY <1>2, SMTT(30) DEF IInv, TypeOK
  <2>2. Ownership' /\ ReplyCorrelation'
    <3>1. pc' = pc /\ cmd' = cmd /\ writer' = writer /\ result' = result /\ reply' = reply
      BY <1>2
    <3>2. Ownership'
      BY <3>1, Zenon DEF IInv, Ownership
    <3>3. ReplyCorrelation'
      BY <3>1, Zenon DEF IInv, ReplyCorrelation
    <3> QED
      BY <3>2, <3>3
  <2>3. Slot'
    BY <1>2, SMTT(30) DEF IInv, Slot
  <2>4. Oneshots'
    BY <1>2 DEF IInv, Oneshots
  <2>5. StaleAccounting'
    BY <1>2 DEF IInv, StaleAccounting, OnTheWire
  <2> QED
    BY <2>1, <2>2, <2>3, <2>4, <2>5, SMTT(30) DEF IInv
<1>3. CASE StopReader
  BY <1>2, <1>3, SMTT(30) DEF StopReader, ReaderExit
<1>4. CASE FinishTeardown
  BY <1>2, <1>4, SMTT(30) DEF FinishTeardown, IInv, TypeOK
<1> QED
  BY <1>1, <1>3, <1>4

\* A process that adopts a socket with nothing in flight starts as a new one does.
LEMMA AdoptStep ==
  ASSUME IInv, Adopt, inflight = <<>>
  PROVE  IInv'
<1> USE DEF Adopt
<1>1. TypeOK'
  <2>1. result' \in [Commands -> Results]
    BY Zenon DEF IInv, TypeOK
  <2>2. channel' \in [Commands -> Channel]
    OBVIOUS
  <2>3. UNCHANGED <<reply, inflight, answered, peer, shut>>
    BY SMTT(30)
  <2> QED
    BY <2>1, <2>2, <2>3, Zenon DEF IInv, TypeOK
<1>2. Ownership'
  BY SMTT(30) DEF Ownership
<1>3. Slot' /\ Oneshots'
  BY SMTT(30) DEF Slot, Oneshots
<1>4. StaleAccounting'
  BY SMTT(30) DEF StaleAccounting, OnTheWire
<1>5. ReplyCorrelation'
  BY DEF IInv, TypeOK, ReplyCorrelation
<1> QED
  BY <1>1, <1>2, <1>3, <1>4, <1>5, SMTT(30) DEF IInv

\* The invariant holds on both sides of an adoption that finds nothing in flight.
LEMMA AdoptInductive == AdoptSpec /\ []NoneInFlight => []IInv
<1>1. AdoptInit => IInv
  BY InitIInv DEF AdoptInit
<1>2. IInv /\ NoneInFlight /\ [AdoptNext]_adoptVars => IInv'
  <2> SUFFICES ASSUME IInv, NoneInFlight, [AdoptNext]_adoptVars PROVE IInv'
    OBVIOUS
  <2>1. CASE Next \/ UNCHANGED vars
    BY <2>1, NextIInv, Zenon
  <2>2. CASE CheckPending \/ StopReader \/ FinishTeardown
    BY <2>2, TeardownStep, Zenon
  <2>3. CASE Adopt
    <3>1. inflight = <<>>
      BY <2>3 DEF Adopt, NoneInFlight
    <3> QED
      BY <2>3, <3>1, AdoptStep
  <2> QED
    BY <2>1, <2>2, <2>3, Zenon DEF AdoptNext, adoptVars
<1> QED
  BY <1>1, <1>2, PTL DEF AdoptSpec

\* The precondition of docs/reexec.md is enough: if no reply is outstanding when
\* teardown_for_reexec() returns, no caller on either side of the adoption gets
\* another command's reply, whatever the tasks of both processes do.
THEOREM AdoptionCorrelates == AdoptSpec /\ []NoneInFlight => []ReplyCorrelation
<1>1. IInv => ReplyCorrelation
  BY DEF IInv
<1> QED
  BY <1>1, AdoptInductive, PTL

\* Until the adoption, the invariant needs no such precondition.
LEMMA TeardownInductive == AdoptSpec => [](teardown # "adopted" => IInv)
<1>1. AdoptInit => (teardown # "adopted" => IInv)
  BY InitIInv DEF AdoptInit
<1>2. (teardown # "adopted" => IInv) /\ [AdoptNext]_adoptVars => (teardown # "adopted" => IInv)'
  <2> SUFFICES ASSUME teardown # "adopted" => IInv, [AdoptNext]_adoptVars, teardown' # "adopted"
               PROVE  IInv'
    OBVIOUS
  <2>1. CASE (Next /\ UNCHANGED teardown) \/ UNCHANGED adoptVars
    BY <2>1, NextIInv, Zenon DEF adoptVars
  <2>2. CASE CheckPending \/ StopReader \/ FinishTeardown
    <3>1. teardown # "adopted"
      BY <2>2 DEF CheckPending, StopReader, FinishTeardown
    <3> QED
      BY <2>2, <3>1, TeardownStep, Zenon
  <2>3. CASE Adopt
    BY <2>3, SMTT(30) DEF Adopt
  <2> QED
    BY <2>1, <2>2, <2>3, Zenon DEF AdoptNext
<1> QED
  BY <1>1, <1>2, PTL DEF AdoptSpec

\* A teardown harms no command that overtakes it: whenever commands are sent, also
\* between the pending check and the stop signal or under the drain, no caller is
\* left waiting on the reader that was stopped, and none gets another's reply.
THEOREM TeardownStrandsNobody ==
  AdoptSpec => [](teardown # "adopted" => NoStrandedWaiter /\ ReplyCorrelation)
<1>1. IInv => NoStrandedWaiter /\ ReplyCorrelation
  BY DEF IInv, TypeOK, Ownership, Slot, Oneshots, NoStrandedWaiter
<1> QED
  BY <1>1, TeardownInductive, PTL

\* In the documented flow likewise.
LEMMA QuietInductive == QuietSpec => [](teardown # "adopted" => IInv)
<1>1. [QuietNext]_adoptVars => [AdoptNext]_adoptVars
  BY Zenon DEF QuietNext
<1> QED
  BY <1>1, TeardownInductive, PTL DEF QuietSpec, AdoptSpec

\* With every task idle the slot is empty, and what is in flight is stale.
LEMMA QuietLeaves ==
  ASSUME IInv, Quiet
  PROVE  ~OnTheWire /\ (reader # "dead" => Len(inflight) = stale_replies)
<1>1. waiting = NoCommand
  BY DEF IInv, Slot, Quiet
<1> QED
  BY <1>1, SMTT(30) DEF IInv, TypeOK, StaleAccounting, OnTheWire

\* In the usage flow of docs/reexec.md the replies a teardown can leave in the
\* socket are exactly those of commands that timed out: stale_replies counts them,
\* and the pending check does not look at it.
THEOREM OnlyStaleLeftBehind == QuietSpec => []LeftBehindIsStale
<1> DEFINE J == teardown = "checked" => Quiet
<1>1. AdoptInit => J
  BY DEF AdoptInit
<1>2. J /\ [QuietNext]_adoptVars => J'
  <2> SUFFICES ASSUME J, [QuietNext]_adoptVars, teardown' = "checked" PROVE Quiet'
    OBVIOUS
  <2>1. CASE QuietNext
    BY <2>1 DEF QuietNext
  <2>2. CASE UNCHANGED adoptVars
    BY <2>2 DEF adoptVars, vars, Quiet
  <2> QED
    BY <2>1, <2>2
<1>3. (teardown # "adopted" => IInv) /\ J => LeftBehindIsStale
  BY QuietLeaves DEF LeftBehindIsStale
<1> QED
  BY <1>1, <1>2, <1>3, QuietInductive, PTL DEF QuietSpec

=============================================================================
