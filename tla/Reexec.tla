------------------------------- MODULE Reexec --------------------------------
(***************************************************************************)
(* teardown_for_reexec() and adopt_stream(): the reader of Framing is      *)
(* asked to stop, drains to the end of the message it is in, and its       *)
(* unconsumed bytes go to the process that adopts the socket.              *)
(*                                                                         *)
(* Several clones of the client may call teardown_for_reexec().  Time runs *)
(* in ticks of one second, while the drain waits for the socket.           *)
(***************************************************************************)
EXTENDS Framing

CONSTANTS Callers,        \* clones of the client that call teardown_for_reexec()
          DrainTimeout,   \* REEXEC_DRAIN_TIMEOUT_MS
          Margin,         \* what teardown waits beyond it
          MaxAdoptions    \* bound: how often the socket changes hands

ASSUME TimersAssumption == DrainTimeout \in Nat \ {0} /\ Margin \in Nat \ {0}

VARIABLES
  call,       \* where each caller is in teardown_for_reexec(), or its result
  slot,       \* SharedState.reexec is Some
  stop,       \* the stop signal was sent
  answer,     \* the result channel: ReexecResult, or its sender dropped
  reader,     \* reader_loop(): running, draining, exiting, dead
  reason,     \* what reader_loop_inner() returned
  dispatching,   \* a message was parsed and is being dispatched
  late,       \* a read has won the poll during which the stop signal came
  fed,        \* the drain has read something
  liveness,   \* liveness_timeout_ms is not zero
  status,     \* SharedState.status_tx; "none" is Connected
  read_age,   \* ticks since the drain's current read began
  wait_age,   \* ticks since the caller began to wait for the result
  adoptions   \* how often the socket was adopted

callVars == <<call, slot, stop, wait_age>>
loopVars == <<reader, reason, dispatching, late, fed, read_age>>
sharedVars == <<liveness, status, adoptions>>
allVars == <<vars, callVars, answer, loopVars, sharedVars>>

\* The errors of a drain, and of teardown_for_reexec() itself.
DrainErrors == {"closed during drain", "drain timeout", "drain read failed",
                "stopped before drain completed"}
Failures == DrainErrors \cup {"command in flight", "already called", "reader gone",
                              "timed out", "exited without result"}
Calling == {"taking", "disarming", "signalling", "awaiting", "locking"}
Reasons == {"none", "ReexecTeardown", "ConnectionClosed", "ProtocolError", "IoError",
            "HeartbeatExpired", "ServerNotice"}

ReexecTypeOK ==
  /\ TypeOK
  /\ call \in [Callers -> Calling \cup Failures \cup {"idle", "ok"}]
  /\ slot \in BOOLEAN /\ stop \in BOOLEAN
  /\ answer \in DrainErrors \cup {"empty", "residual", "closed"}
  /\ reader \in {"running", "draining", "exiting", "dead"} /\ reason \in Reasons
  /\ dispatching \in BOOLEAN /\ late \in BOOLEAN /\ fed \in BOOLEAN /\ liveness \in BOOLEAN
  /\ status \in Reasons
  /\ read_age \in 0 .. DrainTimeout /\ wait_age \in 0 .. DrainTimeout + Margin
  /\ adoptions \in 0 .. MaxAdoptions

ReexecInit ==
  /\ Init
  /\ call = [c \in Callers |-> "idle"]
  /\ slot = TRUE /\ stop = FALSE /\ answer = "empty"
  /\ reader = "running" /\ reason = "none" /\ dispatching = FALSE
  /\ late = FALSE /\ fed = FALSE
  /\ liveness \in BOOLEAN /\ status = "none"
  /\ read_age = 0 /\ wait_age = 0
  /\ adoptions = 0

-----------------------------------------------------------------------------
(***************************************************************************)
(* The caller.                                                             *)
(***************************************************************************)
Goes(c, where) == call' = [call EXCEPT ![c] = where]

\* Whether a command is in flight is up to the other clones.
CheckPending(c) ==
  /\ call[c] = "idle"
  /\ Goes(c, "taking") \/ Goes(c, "command in flight")
  /\ UNCHANGED <<vars, slot, stop, wait_age, answer, loopVars, sharedVars>>

\* Faulty variant: the channel is not taken out of its slot.
TakeChannelKeeps(c) ==
  /\ call[c] = "taking"
  /\ Goes(c, "disarming")
  /\ UNCHANGED <<vars, slot, stop, wait_age, answer, loopVars, sharedVars>>

TakeChannel(c) ==
  /\ call[c] = "taking"
  /\ Goes(c, IF slot THEN "disarming" ELSE "already called")
  /\ slot' = FALSE
  /\ UNCHANGED <<vars, stop, wait_age, answer, loopVars, sharedVars>>

DisableLiveness(c) ==
  /\ call[c] = "disarming"
  /\ Goes(c, "signalling")
  /\ liveness' = FALSE
  /\ UNCHANGED <<vars, slot, stop, wait_age, answer, loopVars, status, adoptions>>

\* The receiver of the stop signal goes away with reader_loop_inner().
SendStop(c) ==
  /\ call[c] = "signalling"
  /\ \/ /\ reader \in {"running", "draining"}
        /\ stop' = TRUE
        /\ Goes(c, "awaiting")
     \/ /\ reader \in {"exiting", "dead"}
        /\ Goes(c, "reader gone")
        /\ UNCHANGED stop
  /\ wait_age' = 0
  /\ UNCHANGED <<vars, slot, answer, loopVars, sharedVars>>

ReceiveResult(c) ==
  /\ call[c] = "awaiting"
  /\ answer # "empty"
  /\ Goes(c, CASE answer = "residual" -> "locking"
               [] answer = "closed"   -> "exited without result"
               [] OTHER               -> answer)
  /\ UNCHANGED <<vars, slot, stop, wait_age, answer, loopVars, sharedVars>>

OuterTimeout(c) ==
  /\ call[c] = "awaiting"
  /\ answer = "empty"
  /\ wait_age = DrainTimeout + Margin
  /\ Goes(c, "timed out")
  /\ UNCHANGED <<vars, slot, stop, wait_age, answer, loopVars, sharedVars>>

\* Faulty variant: the status is left to the reader.
FinishSilently(c) ==
  /\ call[c] = "locking"
  /\ Goes(c, "ok")
  /\ UNCHANGED <<vars, slot, stop, wait_age, answer, loopVars, sharedVars>>

\* The writer mutex is free, its fd is read and the status is set.
Finish(c) ==
  /\ call[c] = "locking"
  /\ Goes(c, "ok")
  /\ status' = "ReexecTeardown"
  /\ UNCHANGED <<vars, slot, stop, wait_age, answer, loopVars, liveness, adoptions>>

-----------------------------------------------------------------------------
(***************************************************************************)
(* The reader: reader_loop_inner() with the drain.                         *)
(***************************************************************************)
InLoop == reader \in {"running", "draining"}

\* reader_loop_inner() returns why; its ReexecReader is dropped, and with it a
\* sender that was not used.
Leaves(why, result) ==
  /\ reader' = "exiting"
  /\ reason' = why
  /\ answer' = IF answer # "empty" THEN answer ELSE result

\* parse_message() until it has no message; a message is then dispatched.
Parse ==
  /\ InLoop /\ ~dispatching /\ pc = "parse"
  /\ NoHeaders \/ (\E p \in lo .. hi : ParseHeaders(p)) \/ ParseBody
  /\ dispatching' = (out' # out)
  /\ read_age' = 0
  /\ UNCHANGED <<callVars, answer, reader, reason, late, fed, sharedVars>>

ParseFails ==
  /\ InLoop /\ pc = "failed"
  /\ Leaves("ProtocolError", "closed")
  /\ UNCHANGED <<vars, callVars, dispatching, late, fed, read_age, sharedVars>>

Dispatched ==
  /\ InLoop /\ dispatching
  /\ dispatching' = FALSE
  /\ UNCHANGED <<vars, callVars, answer, reader, reason, late, fed, read_age, sharedVars>>

\* A dispatch that waits for capacity is cut short by the stop signal.
DispatchStopped ==
  /\ reader = "running" /\ dispatching /\ stop
  /\ dispatching' = FALSE
  /\ reader' = "draining"
  /\ UNCHANGED <<vars, callVars, answer, reason, late, fed, read_age, sharedVars>>

\* A disconnect notice, or nobody left to take events: the dispatch breaks.
DispatchBreaks(why) ==
  /\ InLoop /\ dispatching
  /\ dispatching' = FALSE
  /\ Leaves(why, IF reader = "draining" THEN "stopped before drain completed" ELSE "closed")
  /\ UNCHANGED <<vars, callVars, late, fed, read_age, sharedVars>>

\* The select of the normal read path: the stop signal is polled first.
SeeStop ==
  /\ reader = "running" /\ ~dispatching /\ pc = "read"
  /\ stop
  /\ reader' = "draining"
  /\ read_age' = 0
  /\ UNCHANGED <<vars, callVars, answer, reason, dispatching, late, fed, sharedVars>>

\* Bytes arrive; at most one read can still win after the stop signal was sent.
ReadRunning(k) ==
  /\ reader = "running" /\ ~dispatching
  /\ ~late
  /\ late' = stop
  /\ Read(k)
  /\ UNCHANGED <<callVars, answer, reader, reason, dispatching, fed, read_age, sharedVars>>

\* An idle tick of the normal read path, with liveness on and its time passed.
IdleExpires ==
  /\ reader = "running" /\ ~dispatching /\ pc = "read"
  /\ liveness
  /\ Leaves("HeartbeatExpired", "closed")
  /\ UNCHANGED <<vars, callVars, dispatching, late, fed, read_age, sharedVars>>

\* End of file or a read error of the normal read path.
ReadEnds(why) ==
  /\ reader = "running" /\ ~dispatching /\ pc = "read"
  /\ Leaves(why, "closed")
  /\ UNCHANGED <<vars, callVars, dispatching, late, fed, read_age, sharedVars>>

\* Faulty variant: the drain stops wherever it is.
DrainCompleteAnywhere ==
  /\ reader = "draining" /\ ~dispatching /\ pc = "read"
  /\ Leaves("ReexecTeardown", "residual")
  /\ UNCHANGED <<vars, callVars, dispatching, late, fed, read_age, sharedVars>>

\* Faulty variant: the residual is sent and the loop goes on.
DrainCompleteGoesOn ==
  /\ reader = "draining" /\ ~dispatching /\ pc = "read"
  /\ state = "WaitingForHeaders"
  /\ answer' = IF answer # "empty" THEN answer ELSE "residual"
  /\ reader' = "running"
  /\ UNCHANGED <<vars, callVars, reason, dispatching, late, fed, read_age, sharedVars>>

\* drain_for_reexec() between messages: the buffered bytes are the result.
DrainComplete ==
  /\ reader = "draining" /\ ~dispatching /\ pc = "read"
  /\ state = "WaitingForHeaders"
  /\ Leaves("ReexecTeardown", "residual")
  /\ UNCHANGED <<vars, callVars, dispatching, late, fed, read_age, sharedVars>>

InDrainRead == reader = "draining" /\ ~dispatching /\ pc = "read" /\ state = "WaitingForBody"

DrainRead(k) ==
  /\ InDrainRead
  /\ Read(k)
  /\ fed' = TRUE
  /\ read_age' = 0
  /\ UNCHANGED <<callVars, answer, reader, reason, dispatching, late, sharedVars>>

\* Faulty variant: an idle read is retried.
DrainIdleRetries ==
  /\ InDrainRead
  /\ read_age = DrainTimeout
  /\ read_age' = 0
  /\ UNCHANGED <<vars, callVars, answer, reader, reason, dispatching, late, fed, sharedVars>>

\* Nothing arrived for DrainTimeout since this read began.
DrainIdle ==
  /\ InDrainRead
  /\ read_age = DrainTimeout
  /\ Leaves("none", "drain timeout")
  /\ UNCHANGED <<vars, callVars, dispatching, late, fed, read_age, sharedVars>>

DrainEnds(error) ==
  /\ InDrainRead
  /\ Leaves("none", error)
  /\ UNCHANGED <<vars, callVars, dispatching, late, fed, read_age, sharedVars>>

\* reader_loop() publishes the reason, if there is one.
Publish ==
  /\ reader = "exiting"
  /\ reader' = "dead"
  /\ status' = IF reason = "none" THEN status ELSE reason
  /\ UNCHANGED <<vars, callVars, answer, reason, dispatching, late, fed, read_age, liveness, adoptions>>

-----------------------------------------------------------------------------
(***************************************************************************)
(* Time, the other clones, and the process that takes over.                *)
(***************************************************************************)
Waiting == \E c \in Callers : call[c] = "awaiting"

\* A second passes.  Once the stop signal is sent, only the drain's read waits
\* for anything but the scheduler; its timer fires before time passes it.
Tick ==
  /\ InDrainRead /\ read_age < DrainTimeout
  /\ read_age' = read_age + 1
  /\ wait_age' = IF Waiting /\ wait_age < DrainTimeout + Margin THEN wait_age + 1 ELSE wait_age
  /\ UNCHANGED <<vars, call, slot, stop, answer, reader, reason, dispatching, late, fed, sharedVars>>

SetLiveness ==
  /\ liveness' = TRUE
  /\ UNCHANGED <<vars, callVars, answer, loopVars, status, adoptions>>

\* adopt_stream() in the new process: a fresh parser is given the residual, the
\* bytes from lo to hi, and goes on reading the socket at hi.
Adopt ==
  /\ adoptions < MaxAdoptions
  /\ \E c \in Callers : call[c] = "ok"
  /\ scan_offset' = 0 /\ strict' \in BOOLEAN
  /\ state' = "WaitingForHeaders" /\ headers' = <<0, 0>> /\ body_length' = 0
  /\ pc' = "parse"
  /\ UNCHANGED <<lo, hi, out>>
  /\ call' = [c \in Callers |-> "idle"]
  /\ slot' = TRUE /\ stop' = FALSE /\ answer' = "empty"
  /\ reader' = "running" /\ reason' = "none" /\ dispatching' = FALSE
  /\ late' = FALSE /\ fed' = FALSE
  /\ liveness' = FALSE /\ status' = "none"
  /\ read_age' = 0 /\ wait_age' = 0
  /\ adoptions' = adoptions + 1
-----------------------------------------------------------------------------
CallSteps(c) ==
  \/ CheckPending(c)
  \/ TakeChannel(c)
  \/ DisableLiveness(c)
  \/ SendStop(c)
  \/ ReceiveResult(c)
  \/ OuterTimeout(c)
  \/ Finish(c)

LoopSteps ==
  \/ Parse
  \/ ParseFails
  \/ Dispatched
  \/ DispatchStopped
  \/ \E why \in {"ServerNotice", "none"} : DispatchBreaks(why)
  \/ SeeStop
  \/ \E k \in 1 .. ReadSize : ReadRunning(k) \/ DrainRead(k)
  \/ IdleExpires
  \/ \E why \in {"ConnectionClosed", "IoError"} : ReadEnds(why)
  \/ DrainComplete
  \/ DrainIdle
  \/ \E error \in {"closed during drain", "drain read failed"} : DrainEnds(error)
  \/ Publish

ReexecNext ==
  \/ \E c \in Callers : CallSteps(c)
  \/ LoopSteps
  \/ Tick
  \/ SetLiveness
  \/ Adopt

ReexecSpec == ReexecInit /\ [][ReexecNext]_allVars

(***************************************************************************)
(* Fairness: tasks that can run do, and time goes on.  Nothing is assumed  *)
(* of the socket, nor of the caller's own timeout.                         *)
(***************************************************************************)
ReexecFairSpec ==
  /\ ReexecSpec
  /\ \A c \in Callers :
       WF_allVars(TakeChannel(c) \/ DisableLiveness(c) \/ SendStop(c)
                  \/ ReceiveResult(c) \/ Finish(c))
  /\ WF_allVars(Parse \/ ParseFails \/ SeeStop \/ DrainComplete \/ DrainIdle)
  /\ WF_allVars(Dispatched \/ DispatchStopped \/ \E why \in {"ServerNotice", "none"} : DispatchBreaks(why))
  /\ WF_allVars(Tick)

-----------------------------------------------------------------------------
\* However often the socket changes hands, the two processes together parse the
\* stream as one parser would: the drain and the residual lose no byte, repeat
\* none and cut no message.
ImplementsFraming == Spec

\* Between a successful teardown and the adoption of the socket the old process
\* takes nothing more from it.
HandsOffSocket ==
  [][(\E c \in Callers : call[c] = "ok") /\ adoptions' = adoptions => hi' = hi]_allVars

\* teardown_for_reexec() succeeds at most once per connection, whoever calls it.
OneTeardown ==
  \A c, d \in Callers : {call[c], call[d]} \subseteq {"locking", "ok"} => c = d

\* After a successful teardown every clone sees ReexecTeardown, whatever the
\* reader still publishes on its way out; and if the socket stays silent during
\* the drain, the reader's own timeout fires first and names the cause.
TeardownReported ==
  \A c \in Callers :
    /\ call[c] = "ok" => status = "ReexecTeardown"
    /\ call[c] = "timed out" => fed

\* The comment in teardown_for_reexec(): the reader's own drain timeout fires
\* first, with a descriptive error.
DrainTimeoutFirst == \A c \in Callers : call[c] # "timed out"

\* Every teardown returns because the reader answers it, whatever the socket
\* does: the caller's own timeout is not needed.
TeardownSettles == \A c \in Callers : call[c] \in Calling ~> call[c] \notin Calling

=============================================================================
