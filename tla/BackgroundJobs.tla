--------------------------- MODULE BackgroundJobs ---------------------------
(***************************************************************************)
(* BgJobTracker (bgjob.rs) beside the event channel it is fed from.        *)
(*                                                                         *)
(* A bgapi command is answered with a Job-UUID, and its result comes later *)
(* as an event among others.  bgapi() keeps the tracker borrowed until the *)
(* answer is in and the job inserted; try_complete() needs the same borrow *)
(* and may have to wait for it, with the event already in the caller's     *)
(* hands.  Answers and events share the socket, so a reader that waits for *)
(* channel capacity keeps the answer back too.                             *)
(***************************************************************************)
EXTENDS EventQueue

CONSTANTS Jobs,         \* the Job-UUIDs the application may come to know
          MaxDisturbed  \* bound: jobs in a session that is stopped or not listened to

NoEvent == "no event"
Other == "other"      \* an event of another type, or another client's result

ASSUME JobsAssumption == NoEvent \notin Jobs /\ Other \notin Jobs /\ MaxDisturbed \in Nat

VARIABLES
  calls,      \* job -> how far its issuer is
  running,    \* accepted jobs whose result is not on the socket yet
  carries,    \* item -> the job whose result it is, or Other
  hand,       \* the event the consumer is about to offer to try_complete()
  pending     \* BgJobTracker.pending

jobVars == <<calls, running, carries, hand, pending>>
allVars == <<vars, jobVars>>

\* idle; awaiting the answer in bgapi(), the tracker borrowed, before and after
\* the server took the command; the Job-UUID in hand from EslClient::bgapi();
\* inserted by bgapi(); inserted by track(); given up.
CallStates == {"idle", "bgapi", "accepted", "known", "issued", "tracked", "failed"}

\* No call has the tracker borrowed.
TrackerFree == \A j \in Jobs : calls[j] \notin {"bgapi", "accepted"}

JobsInit ==
  /\ Init
  /\ calls = [j \in Jobs |-> "idle"]
  /\ running = {}
  /\ carries = <<>>
  /\ hand = NoEvent
  /\ pending = {}

-----------------------------------------------------------------------------
(***************************************************************************)
(* Issuing a job.                                                          *)
(***************************************************************************)
Issued == {j \in Jobs : calls[j] # "idle"}
MayIssue == stop \/ ~open => Cardinality(Issued) < MaxDisturbed
MayDisturb == Cardinality(Issued) <= MaxDisturbed

StartBgapi(j) ==
  /\ MayIssue
  /\ calls[j] = "idle" /\ TrackerFree
  /\ calls' = [calls EXCEPT ![j] = "bgapi"]
  /\ UNCHANGED <<vars, running, carries, hand, pending>>

\* The server takes the command, names the job and starts it.
Accept(j) ==
  /\ calls[j] = "bgapi"
  /\ calls' = [calls EXCEPT ![j] = "accepted"]
  /\ running' = running \cup {j}
  /\ UNCHANGED <<vars, carries, hand, pending>>

\* The reader reaches the answer between two events; bgapi() inserts the job
\* and returns, giving the tracker back.
BgapiReturns(j) ==
  /\ calls[j] = "accepted" /\ pc = "ready"
  /\ calls' = [calls EXCEPT ![j] = "issued"]
  /\ pending' = pending \cup {j}
  /\ UNCHANGED <<vars, running, carries, hand>>

\* EslClient::bgapi(), which knows no tracker, as one step.
DirectBgapi(j) ==
  /\ MayIssue
  /\ calls[j] = "idle" /\ pc = "ready"
  /\ calls' = [calls EXCEPT ![j] = "known"]
  /\ running' = running \cup {j}
  /\ UNCHANGED <<vars, carries, hand, pending>>

Track(j) ==
  /\ calls[j] = "known" /\ TrackerFree
  /\ calls' = [calls EXCEPT ![j] = "tracked"]
  /\ pending' = pending \cup {j}
  /\ UNCHANGED <<vars, running, carries, hand>>

\* Faulty variant: the end of the reader fails no call.
CallFailsOnAnswer(j) ==
  /\ calls[j] \in {"bgapi", "accepted"} /\ pc = "ready"
  /\ calls' = [calls EXCEPT ![j] = "failed"]
  /\ UNCHANGED <<vars, running, carries, hand, pending>>

\* A refusal read like an answer, the command's timeout, the end of the reader,
\* or the caller dropping the call; the job may run all the same.
CallFails(j) ==
  /\ calls[j] \in {"bgapi", "accepted"}
  /\ calls' = [calls EXCEPT ![j] = "failed"]
  /\ UNCHANGED <<vars, running, carries, hand, pending>>

-----------------------------------------------------------------------------
(***************************************************************************)
(* Results.                                                                *)
(***************************************************************************)
\* The next item off the socket is a job's result or anything else.
TakeResult(j) ==
  /\ j \in running
  /\ TakeItem("event")
  /\ running' = running \ {j}
  /\ carries' = Append(carries, j)
  /\ UNCHANGED <<calls, hand, pending>>

TakeOther ==
  /\ \E k \in Kinds : TakeItem(k)
  /\ carries' = Append(carries, Other)
  /\ UNCHANGED <<calls, running, hand, pending>>

\* The consumer takes an item; an error is no event to offer.
RecvEvent ==
  /\ hand = NoEvent
  /\ Recv
  /\ hand' = IF last' = QueueFull THEN NoEvent ELSE carries[last']
  /\ UNCHANGED <<calls, running, carries, pending>>

\* Faulty variant: the event is looked up although a call has the tracker.
TryCompleteUnborrowed ==
  /\ hand # NoEvent
  /\ pending' = pending \ {hand}
  /\ hand' = NoEvent
  /\ UNCHANGED <<vars, calls, running, carries>>

\* Faulty variant: an event that is not one of ours is offered again.
TryCompleteReoffers ==
  /\ hand \in pending /\ TrackerFree
  /\ pending' = pending \ {hand}
  /\ hand' = NoEvent
  /\ UNCHANGED <<vars, calls, running, carries>>

\* None for whatever is not pending.
TryComplete ==
  /\ hand # NoEvent /\ TrackerFree
  /\ pending' = pending \ {hand}
  /\ hand' = NoEvent
  /\ UNCHANGED <<vars, calls, running, carries>>

\* cancel() and retain().
Evict(j) ==
  /\ j \in pending /\ TrackerFree
  /\ pending' = pending \ {j}
  /\ UNCHANGED <<vars, calls, running, carries, hand>>

-----------------------------------------------------------------------------
QueueStep ==
  /\ \/ FlushNotice \/ TrySend
     \/ FirstPoll \/ ParkedReserved \/ ParkedStopped \/ BudgetElapses
     \/ SeeStop \/ LoopEnds \/ PublishStatus \/ DropSender
     \/ MayDisturb /\ (DropStream \/ SendStop)
  /\ UNCHANGED jobVars

JobsNext ==
  \/ QueueStep
  \/ TakeOther \/ RecvEvent \/ TryComplete
  \/ \E j \in Jobs :
        \/ StartBgapi(j) \/ Accept(j) \/ BgapiReturns(j) \/ CallFails(j)
        \/ DirectBgapi(j) \/ Track(j)
        \/ TakeResult(j) \/ Evict(j)

\* The server answers, and the answer's turn on the socket comes; a call whose
\* reader is gone fails.
CallFairness ==
  \A j \in Jobs : /\ WF_allVars(Accept(j))
                  /\ SF_allVars(BgapiReturns(j))
                  /\ WF_allVars(CallFails(j) /\ pc \in {"returned", "exiting", "gone"})

JobsSpec == JobsInit /\ [][JobsNext]_allVars /\ ReaderFairness /\ CallFairness

-----------------------------------------------------------------------------
\* A job issued with bgapi() and still pending has its result ahead of it:
\* running, on its way through the channel, in the consumer's hands, or dropped
\* and counted.  No result passes the tracker by while the job is inserted.
PendingAccounted ==
  open => \A j \in pending :
    calls[j] = "issued" =>
      \/ j \in running \/ hand = j
      \/ \E n \in DOMAIN carries :
            carries[n] = j /\ (n \in Queued \cup lost \/ (n = taken /\ InHand))

\* A result that reached the socket completes its job, unless it was dropped,
\* as long as the application goes on taking and offering events and the budget's
\* timer fires: while another call has the tracker, the consumer may wait for it
\* with an event in hand, and that call for a reader that waits for the consumer.
ResultsComplete ==
  WF_vars(BudgetElapses) /\ WF_allVars(RecvEvent) /\ WF_allVars(TryComplete) =>
    \A j \in Jobs :
      (calls[j] = "issued" /\ j \in pending /\ j \notin running)
        ~> (j \notin pending \/ ~open \/ \E n \in lost : carries[n] = j)

\* bgapi() returns even if nothing takes events meanwhile: the consumer that
\* waits for the tracker, the reader that waits for the consumer and the call
\* that waits for the reader do not wait for ever, for the budget's timer fires.
BgapiEnds ==
  WF_vars(BudgetElapses) =>
    \A j \in Jobs : calls[j] \in {"bgapi", "accepted"}
                      ~> calls[j] \notin {"bgapi", "accepted"}
=============================================================================
