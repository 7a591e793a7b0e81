----------------------------- MODULE AdoptReply ------------------------------
(***************************************************************************)
(* Commands and replies across a re-exec: CommandReply with one call of    *)
(* teardown_for_reexec() and the process that adopts the socket.  The new  *)
(* process starts with an empty PendingReply; the socket still carries     *)
(* what the switch has to say to the old one.                              *)
(***************************************************************************)
EXTENDS CommandReply

VARIABLE teardown   \* where teardown_for_reexec() and the adoption are

adoptVars == <<vars, teardown>>

AdoptInit == Init /\ teardown = "none"

\* The pending check, under the lock of the slot alone.
CheckPending ==
  /\ teardown = "none"
  /\ teardown' = IF waiting # NoCommand THEN "failed" ELSE "checked"
  /\ UNCHANGED vars

\* The stop signal reaches the reader between messages; a reply that is still
\* in the socket stays there.
StopReader ==
  /\ teardown = "checked"
  /\ ReaderExit("ReexecTeardown")
  /\ teardown' = "stopping"

\* The writer mutex is free and the status is set: teardown_for_reexec() is Ok.
FinishTeardown ==
  /\ teardown = "stopping"
  /\ writer = NoTask
  /\ teardown' = "ok"
  /\ status' = "ReexecTeardown"
  /\ UNCHANGED <<clientVars, pendingVars, channel, wireVars, reader, stream, shut>>

\* exec() ends every task of the old process; adopt_stream() builds the rest anew.
Adopt ==
  /\ teardown = "ok"
  /\ ~shut
  /\ teardown' = "adopted"
  /\ pc' = [t \in Tasks |-> "idle"]
  /\ cmd' = [t \in Tasks |-> NoCommand]
  /\ writer' = NoTask
  /\ result' = [c \in Commands |-> IF c \in Unused \/ result[c] # "none" THEN result[c] ELSE "Dropped"]
  /\ waiting' = NoCommand /\ stale_replies' = 0 /\ reader_dead' = FALSE
  /\ channel' = [c \in Commands |-> Empty]
  /\ reader' = "running"
  /\ stream' = TRUE
  /\ status' = "Connected"
  /\ UNCHANGED <<reply, wireVars, shut>>

AdoptNext ==
  \/ Next /\ UNCHANGED teardown
  \/ CheckPending
  \/ StopReader
  \/ FinishTeardown
  \/ Adopt

AdoptSpec == AdoptInit /\ [][AdoptNext]_adoptVars

(***************************************************************************)
(* The usage flow of docs/reexec.md: no new work is accepted, and pending  *)
(* commands have completed, before teardown_for_reexec() is called.        *)
(***************************************************************************)
Quiet == \A t \in Tasks : pc[t] = "idle"

QuietNext ==
  /\ AdoptNext
  /\ teardown' # "none" /\ teardown' # "adopted" => Quiet /\ Quiet'

QuietSpec == AdoptInit /\ [][QuietNext]_adoptVars

\* The precondition of docs/reexec.md: teardown succeeds only if no command was
\* sent whose reply has not arrived.
NoneInFlight == teardown = "ok" => inflight = <<>>

\* What the pending check of that flow lets through: replies of commands that
\* timed out, and no others.
LeftBehindIsStale ==
  teardown = "checked" /\ reader = "running" => Len(inflight) = stale_replies

\* The comment in teardown_for_reexec(): a command in flight is rejected, so the
\* reader is never stopped under a caller whose command is on the wire. The code
\* does not keep it: a command may be sent between the check and the signal.
StopsBetweenCommands ==
  [][teardown = "checked" /\ teardown' = "stopping" => ~OnTheWire]_adoptVars

=============================================================================
