---------------------------- MODULE CommandReply ----------------------------
(***************************************************************************)
(* Commands and replies of one ESL connection.                             *)
(*                                                                         *)
(* Several tasks hold clones of one EslClient and call send_command() and  *)
(* disconnect(); one reader task routes what arrives on the socket.  ESL   *)
(* has no correlation ids: a reply belongs to the oldest unanswered        *)
(* command, and the client finds out which caller that is from the writer  *)
(* mutex, the `waiting` slot and the `stale_replies` counter.              *)
(*                                                                         *)
(* A critical section without an await inside is one step; every await is  *)
(* a point where other tasks and the reader run.                           *)
(***************************************************************************)
EXTENDS Integers, Sequences

CONSTANTS Tasks,      \* tasks that hold a clone of the client
          Commands,   \* the calls of send_command(), each made at most once
          NoTask,     \* the writer mutex is free
          NoCommand   \* Option::None where a command is expected

ASSUME ConstantsAssumption ==
  /\ NoTask \notin Tasks
  /\ NoCommand \notin Commands

VARIABLES
  pc,         \* where each task is inside send_command() or disconnect()
  cmd,        \* the command each task is sending
  writer,     \* holder of the tokio Mutex around the socket's write half
  waiting,    \* PendingReply.waiting: the command whose caller is the waiter
  stale_replies, reader_dead,   \* the rest of SharedState.pending_reply
  channel,    \* the oneshot each waiter listens on
  result,     \* what send_command() returned for each command
  reply,      \* the command whose reply that result carries
  inflight,   \* commands written and not yet read back, oldest first
  answered,   \* how many of them the server has answered
  peer,       \* what ends the server's stream ("open" while nothing does)
  reader,     \* life of the reader task
  stream,     \* whether the application still holds the EslEventStream
  status,     \* SharedState.status_tx
  shut        \* whether disconnect() has shut the write half down

clientVars == <<pc, cmd, writer, result, reply>>
wireVars   == <<inflight, answered, peer>>
pendingVars == <<waiting, stale_replies, reader_dead>>
vars == <<pc, cmd, writer, waiting, stale_replies, reader_dead, channel, result, reply,
          inflight, answered, peer, reader, stream, status, shut>>

(***************************************************************************)
(* Values.                                                                 *)
(***************************************************************************)
\* A oneshot holds nothing, the reply to a command, or a dropped sender.
Empty == [state |-> "empty", of |-> NoCommand]
Closed == [state |-> "closed", of |-> NoCommand]
Filled(c) == [state |-> "filled", of |-> c]
Channel == {Empty, Closed} \cup {Filled(c) : c \in Commands}

\* Frames after which the reader stops, and the reason each one publishes.
EndFrames == {"eof", "notice", "rude", "auth", "garbage"}
ReasonOf(f) ==
  CASE f = "eof"     -> "ConnectionClosed"
    [] f = "notice"  -> "ServerNotice"
    [] f = "rude"    -> "AccessDenied"
    [] f = "auth"    -> "ProtocolError"
    [] f = "garbage" -> "ProtocolError"

ReaderReasons == {"ConnectionClosed", "ServerNotice", "AccessDenied",
                  "ProtocolError", "IoError", "HeartbeatExpired"}
Status == {"Connected", "ClientRequested", "ReexecTeardown"} \cup ReaderReasons

\* The pcs at which a task holds the writer mutex.
Holding == {"installing", "writing", "writefailed", "waiting", "timedout"}
PC == Holding \cup {"idle", "locking", "closing"}
Results == {"none", "ok", "NotConnected", "ConnectionClosed", "Io", "Timeout", "Dropped"}

is_connected == status = "Connected"

NewPendingReply ==
  /\ waiting = NoCommand
  /\ stale_replies = 0
  /\ reader_dead = FALSE

TypeOK ==
  /\ pc \in [Tasks -> PC]
  /\ cmd \in [Tasks -> Commands \cup {NoCommand}]
  /\ writer \in Tasks \cup {NoTask}
  /\ waiting \in Commands \cup {NoCommand}
  /\ stale_replies \in Nat
  /\ reader_dead \in BOOLEAN
  /\ channel \in [Commands -> Channel]
  /\ result \in [Commands -> Results]
  /\ reply \in [Commands -> Commands \cup {NoCommand}]
  /\ inflight \in Seq(Commands)
  /\ answered \in 0 .. Len(inflight)
  /\ peer \in EndFrames \cup {"open"}
  /\ reader \in {"running", "exiting", "dead"}
  /\ stream \in BOOLEAN
  /\ status \in Status
  /\ shut \in BOOLEAN

Init ==
  /\ pc = [t \in Tasks |-> "idle"]
  /\ cmd = [t \in Tasks |-> NoCommand]
  /\ writer = NoTask
  /\ NewPendingReply
  /\ channel = [c \in Commands |-> Empty]
  /\ result = [c \in Commands |-> "none"]
  /\ reply = [c \in Commands |-> NoCommand]
  /\ inflight = <<>>
  /\ answered = 0
  /\ peer = "open"
  /\ reader = "running"
  /\ stream = TRUE
  /\ status = "Connected"
  /\ shut = FALSE

-----------------------------------------------------------------------------
(***************************************************************************)
(* send_command(), from entry to return.                                   *)
(***************************************************************************)
Unused == {c \in Commands : result[c] = "none" /\ \A t \in Tasks : cmd[t] # c}

\* The call returns r to its caller and the writer guard goes out of scope.
Return(t, r) ==
  /\ pc' = [pc EXCEPT ![t] = "idle"]
  /\ cmd' = [cmd EXCEPT ![t] = NoCommand]
  /\ writer' = NoTask
  /\ result' = [result EXCEPT ![cmd[t]] = r]

\* Entry: the is_connected() snapshot, then the wait for the writer mutex.
SendCommand(t, c) ==
  /\ pc[t] = "idle"
  /\ c \in Unused
  /\ \/ /\ is_connected
        /\ pc' = [pc EXCEPT ![t] = "locking"]
        /\ cmd' = [cmd EXCEPT ![t] = c]
        /\ UNCHANGED result
     \/ /\ ~is_connected
        /\ result' = [result EXCEPT ![c] = "NotConnected"]
        /\ UNCHANGED <<pc, cmd>>
  /\ UNCHANGED <<writer, pendingVars, channel, reply, wireVars, reader, stream, status, shut>>

LockWriter(t) ==
  /\ pc[t] = "locking"
  /\ writer = NoTask
  /\ writer' = t
  /\ pc' = [pc EXCEPT ![t] = "installing"]
  /\ UNCHANGED <<cmd, pendingVars, channel, result, reply, wireVars, reader, stream, status, shut>>

\* Faulty variant: the waiter is installed without the reader_dead check.
InstallWaiterUnchecked(t) ==
  /\ pc[t] = "installing"
  /\ waiting' = cmd[t]
  /\ pc' = [pc EXCEPT ![t] = "writing"]
  /\ UNCHANGED <<cmd, writer, stale_replies, reader_dead, channel, result, reply, wireVars, reader, stream, status, shut>>

\* Under the pending lock: refuse if the reader is gone, else become the waiter.
InstallWaiter(t) ==
  /\ pc[t] = "installing"
  /\ \/ /\ reader_dead
        /\ Return(t, "ConnectionClosed")
        /\ UNCHANGED waiting
     \/ /\ ~reader_dead
        /\ waiting' = cmd[t]
        /\ pc' = [pc EXCEPT ![t] = "writing"]
        /\ UNCHANGED <<cmd, writer, result>>
  /\ UNCHANGED <<stale_replies, reader_dead, channel, reply, wireVars, reader, stream, status, shut>>

\* write_all() succeeds; impossible once the write half is shut down.
WriteCommand(t) ==
  /\ pc[t] = "writing"
  /\ ~shut
  /\ inflight' = Append(inflight, cmd[t])
  /\ pc' = [pc EXCEPT ![t] = "waiting"]
  /\ UNCHANGED <<cmd, writer, pendingVars, channel, result, reply, answered, peer,
                 reader, stream, status, shut>>

\* write_all() fails before the command is complete on the wire.
WriteFails(t) ==
  /\ pc[t] = "writing"
  /\ pc' = [pc EXCEPT ![t] = "writefailed"]
  /\ UNCHANGED <<cmd, writer, pendingVars, channel, result, reply, wireVars,
                 reader, stream, status, shut>>

\* Faulty variant: the failed write counts as a timeout.
ClearWaiterCounts(t) ==
  /\ pc[t] = "writefailed"
  /\ waiting' = NoCommand
  /\ stale_replies' = stale_replies + 1
  /\ Return(t, "Io")
  /\ UNCHANGED <<reader_dead, channel, reply, wireVars, reader, stream, status, shut>>

\* The guard of a failed write empties the slot.
ClearWaiter(t) ==
  /\ pc[t] = "writefailed"
  /\ waiting' = NoCommand
  /\ Return(t, "Io")
  /\ UNCHANGED <<stale_replies, reader_dead, channel, reply, wireVars, reader, stream, status, shut>>

ReceiveReply(t) ==
  /\ pc[t] = "waiting"
  /\ channel[cmd[t]].state = "filled"
  /\ reply' = [reply EXCEPT ![cmd[t]] = channel[cmd[t]].of]
  /\ Return(t, "ok")
  /\ UNCHANGED <<pendingVars, channel, wireVars, reader, stream, status, shut>>

\* The sender was dropped: the reader exited with this waiter installed.
ReceiveClosed(t) ==
  /\ pc[t] = "waiting"
  /\ channel[cmd[t]].state = "closed"
  /\ Return(t, "ConnectionClosed")
  /\ UNCHANGED <<pendingVars, channel, reply, wireVars, reader, stream, status, shut>>

\* timeout() polls the oneshot first, so it only elapses on an empty one.  The
\* receiver is dropped here; a reply sent to it from now on is never read.
TimeoutElapses(t) ==
  /\ pc[t] = "waiting"
  /\ channel[cmd[t]] = Empty
  /\ pc' = [pc EXCEPT ![t] = "timedout"]
  /\ UNCHANGED <<cmd, writer, pendingVars, channel, result, reply, wireVars,
                 reader, stream, status, shut>>

\* Faulty variants: the late reply is not counted; the branch waits for a slot
\* that the reader has already emptied.
SettleTimeoutUncounted(t) ==
  /\ pc[t] = "timedout"
  /\ waiting' = NoCommand
  /\ Return(t, "Timeout")
  /\ UNCHANGED <<stale_replies, reader_dead, channel, reply, wireVars, reader, stream, status, shut>>

SettleTimeoutWaits(t) ==
  /\ pc[t] = "timedout"
  /\ waiting # NoCommand
  /\ waiting' = NoCommand
  /\ stale_replies' = stale_replies + 1
  /\ Return(t, "Timeout")
  /\ UNCHANGED <<reader_dead, channel, reply, wireVars, reader, stream, status, shut>>

\* The timeout branch under the pending lock, racing the reader for the slot.
SettleTimeout(t) ==
  /\ pc[t] = "timedout"
  /\ waiting' = NoCommand
  /\ stale_replies' = IF waiting # NoCommand THEN stale_replies + 1 ELSE stale_replies
  /\ Return(t, "Timeout")
  /\ UNCHANGED <<reader_dead, channel, reply, wireVars, reader, stream, status, shut>>

-----------------------------------------------------------------------------
(***************************************************************************)
(* disconnect(): publish first, then wait for the writer mutex.            *)
(***************************************************************************)
Disconnect(t) ==
  /\ pc[t] = "idle"
  /\ pc' = [pc EXCEPT ![t] = "closing"]
  /\ status' = "ClientRequested"
  /\ UNCHANGED <<cmd, writer, pendingVars, channel, result, reply, wireVars, reader, stream, shut>>

ShutdownWriter(t) ==
  /\ pc[t] = "closing"
  /\ writer = NoTask
  /\ shut' = TRUE
  /\ pc' = [pc EXCEPT ![t] = "idle"]
  /\ UNCHANGED <<cmd, writer, pendingVars, channel, result, reply, wireVars, reader, stream, status>>

-----------------------------------------------------------------------------
(***************************************************************************)
(* The reader task.                                                        *)
(***************************************************************************)
\* What a reply does to the slot and to the oneshot behind it.
DispatchReply ==
  /\ reader = "running"
  /\ answered > 0
  /\ inflight' = Tail(inflight)
  /\ answered' = answered - 1
  /\ \/ /\ stale_replies > 0
        /\ stale_replies' = stale_replies - 1
        /\ UNCHANGED <<waiting, channel>>
     \/ /\ stale_replies = 0
        /\ waiting # NoCommand
        /\ channel' = [channel EXCEPT ![waiting] = Filled(Head(inflight))]
        /\ waiting' = NoCommand
        /\ UNCHANGED stale_replies
     \/ /\ stale_replies = 0
        /\ waiting = NoCommand
        /\ UNCHANGED <<waiting, stale_replies, channel>>
  /\ UNCHANGED <<clientVars, reader_dead, peer, reader, stream, status, shut>>

\* reader_loop_inner() returned; a reason is published before anything else.
ReaderExit(reason) ==
  /\ reader = "running"
  /\ reader' = "exiting"
  /\ status' = reason
  /\ UNCHANGED <<clientVars, pendingVars, channel, wireVars, stream, shut>>

\* A frame or end of file that stops the loop, read after all that precedes it.
ReadEndFrame ==
  /\ answered = 0
  /\ peer # "open"
  /\ ReaderExit(ReasonOf(peer))

\* A read error, or a panic caught around the loop.
ReadError == ReaderExit("IoError")

\* An idle tick past the liveness threshold.
HeartbeatExpired ==
  /\ answered = 0
  /\ peer = "open"
  /\ ReaderExit("HeartbeatExpired")

\* An event finds the channel closed: the loop ends and publishes nothing.
ConsumerGone ==
  /\ ~stream
  /\ ReaderExit(status)

\* Dropping the waiter's sender closes the oneshot it listens on.
FailPendingReply ==
  /\ reader = "exiting"
  /\ reader' = "dead"
  /\ channel' = IF waiting # NoCommand THEN [channel EXCEPT ![waiting] = Closed] ELSE channel
  /\ waiting' = NoCommand
  /\ stale_replies' = 0
  /\ reader_dead' = TRUE
  /\ UNCHANGED <<clientVars, wireVars, stream, status, shut>>

-----------------------------------------------------------------------------
(***************************************************************************)
(* Environment: the switch answers commands in order, once each, until its *)
(* stream ends; the application may drop the event stream.                 *)
(***************************************************************************)
ServerReplies ==
  /\ peer = "open"
  /\ answered < Len(inflight)
  /\ answered' = answered + 1
  /\ UNCHANGED <<clientVars, pendingVars, channel, inflight, peer, reader, stream, status, shut>>

ServerEnds(f) ==
  /\ peer = "open"
  /\ peer' = f
  /\ UNCHANGED <<clientVars, pendingVars, channel, inflight, answered, reader, stream, status, shut>>

DropStream ==
  /\ stream
  /\ stream' = FALSE
  /\ UNCHANGED <<clientVars, pendingVars, channel, wireVars, reader, status, shut>>

-----------------------------------------------------------------------------
SendSteps(t) ==
  \/ \E c \in Commands : SendCommand(t, c)
  \/ LockWriter(t)
  \/ InstallWaiter(t)
  \/ WriteCommand(t)
  \/ WriteFails(t)
  \/ ClearWaiter(t)
  \/ ReceiveReply(t)
  \/ ReceiveClosed(t)
  \/ TimeoutElapses(t)
  \/ SettleTimeout(t)

ReaderSteps ==
  \/ DispatchReply
  \/ ReadEndFrame
  \/ ReadError
  \/ HeartbeatExpired
  \/ ConsumerGone
  \/ FailPendingReply

Environment ==
  \/ ServerReplies
  \/ \E f \in EndFrames : ServerEnds(f)
  \/ DropStream

Next ==
  \/ \E t \in Tasks : SendSteps(t) \/ Disconnect(t) \/ ShutdownWriter(t)
  \/ ReaderSteps
  \/ Environment

Spec == Init /\ [][Next]_vars

(***************************************************************************)
(* An application may also drop the future of send_command(), for example  *)
(* by racing it against its own timeout.  The writer guard is dropped with *)
(* it; nothing clears the slot.  A future dropped during write_all() is    *)
(* taken before its first byte was accepted.                               *)
(***************************************************************************)
CancelCall(t) ==
  /\ pc[t] \in {"locking", "writing", "waiting"}
  /\ pc' = [pc EXCEPT ![t] = "idle"]
  /\ cmd' = [cmd EXCEPT ![t] = NoCommand]
  /\ writer' = IF writer = t THEN NoTask ELSE writer
  /\ result' = [result EXCEPT ![cmd[t]] = "Dropped"]
  /\ UNCHANGED <<pendingVars, channel, reply, wireVars, reader, stream, status, shut>>

CancelSpec == Init /\ [][Next \/ \E t \in Tasks : CancelCall(t)]_vars

(***************************************************************************)
(* Fairness.  Tokio keeps polling a woken task, its Mutex hands the lock   *)
(* over in FIFO order (strong fairness of the two lock steps), timers fire *)
(* and the reader's exit path has no condition to wait for.  write_all()   *)
(* has no timeout of its own: that it completes or fails is an assumption  *)
(* about the peer and the kernel.  Nothing is assumed of the server.       *)
(***************************************************************************)
TaskFairness ==
  \A t \in Tasks :
    /\ SF_vars(LockWriter(t)) /\ SF_vars(ShutdownWriter(t))
    /\ WF_vars(InstallWaiter(t)) /\ WF_vars(WriteCommand(t) \/ WriteFails(t))
    /\ WF_vars(ClearWaiter(t)) /\ WF_vars(SettleTimeout(t))
    /\ WF_vars(ReceiveReply(t)) /\ WF_vars(ReceiveClosed(t)) /\ WF_vars(TimeoutElapses(t))

FairSpec == Spec /\ TaskFairness /\ WF_vars(FailPendingReply)

-----------------------------------------------------------------------------
(***************************************************************************)
(* Safety.                                                                 *)
(***************************************************************************)
\* A call of send_command() that returns Ok returns the reply to its own
\* command, whatever timed out, failed or was answered late before it.
ReplyCorrelation == \A c \in Commands : result[c] = "ok" => reply[c] = c

\* The waiter in the slot has its command complete on the wire.
OnTheWire == waiting # NoCommand /\ pc[writer] \in {"waiting", "timedout"}

\* While the reader lives, the replies still to come are exactly the stale ones
\* it will discard, followed by the one for the current waiter: a timeout that
\* raced a late reply or a failed write never leaves the counter off by one.
StaleAccounting ==
  reader # "dead" =>
    /\ Len(inflight) = stale_replies + (IF OnTheWire THEN 1 ELSE 0)
    /\ OnTheWire => inflight[Len(inflight)] = waiting

\* The slot is only ever occupied on behalf of the holder of the writer mutex;
\* teardown_for_reexec() reads an occupied slot as a command in flight.
NoPhantomWaiter ==
  waiting # NoCommand => writer # NoTask /\ cmd[writer] = waiting

\* Nobody waits on a reader that is gone: the reader_dead check and the exit of
\* the reader leave no caller behind with an open, empty oneshot.
NoStrandedWaiter ==
  reader = "dead" => \A t \in Tasks : pc[t] = "waiting" => channel[cmd[t]] # Empty

\* A new waiter never replaces an installed one (the comment on send_command()).
NeverOverwriteWaiter ==
  [][waiting # NoCommand => waiting' \in {waiting, NoCommand}]_waiting

\* A client-initiated disconnect stays distinguishable from a server-initiated
\* one, as the documentation of disconnect() says: once it has shut the socket
\* down, the close that follows is not published as the server's.
DisconnectDistinguishable ==
  [][shut /\ status = "ClientRequested" => status' # "ConnectionClosed"]_status

(***************************************************************************)
(* Liveness.                                                               *)
(***************************************************************************)
\* Every call of send_command() and disconnect() returns, even if the server
\* never answers: no caller is left behind by a timeout or by the reader's exit.
EveryCallReturns == \A t \in Tasks : pc[t] # "idle" ~> pc[t] = "idle"

-----------------------------------------------------------------------------
(***************************************************************************)
(* What send_command() promises its callers: SequentialRpc.  A command is  *)
(* active while its caller holds the writer mutex.                         *)
(***************************************************************************)
Rpc == INSTANCE SequentialRpc WITH
  active  <- IF writer = NoTask THEN NoCommand ELSE cmd[writer],
  outcome <- [c \in Commands |-> IF result[c] \in {"none", "ok"} THEN result[c] ELSE "failed"],
  reply   <- reply

\* The connection behaves as a sequential request/response service: one command
\* at a time, each answered with its own reply or failed, never both.
ImplementsRpc == Rpc!Spec

=============================================================================
