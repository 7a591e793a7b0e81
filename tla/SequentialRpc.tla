---------------------------- MODULE SequentialRpc ----------------------------
(***************************************************************************)
(* The service send_command() offers: a sequential request/response        *)
(* protocol.  At most one command is active; it ends once, with the reply  *)
(* that belongs to it or with an error.                                    *)
(***************************************************************************)
CONSTANTS Commands, NoCommand

VARIABLES active, outcome, reply

vars == <<active, outcome, reply>>

Init ==
  /\ active = NoCommand
  /\ outcome = [c \in Commands |-> "none"]
  /\ reply = [c \in Commands |-> NoCommand]

Begin(c) ==
  /\ active = NoCommand
  /\ outcome[c] = "none"
  /\ active' = c
  /\ UNCHANGED <<outcome, reply>>

\* Refused without touching the connection.
Reject(c) ==
  /\ c # active
  /\ outcome[c] = "none"
  /\ outcome' = [outcome EXCEPT ![c] = "failed"]
  /\ UNCHANGED <<active, reply>>

Succeed(c) ==
  /\ active = c
  /\ outcome' = [outcome EXCEPT ![c] = "ok"]
  /\ reply' = [reply EXCEPT ![c] = c]
  /\ active' = NoCommand

Fail(c) ==
  /\ active = c
  /\ outcome' = [outcome EXCEPT ![c] = "failed"]
  /\ active' = NoCommand
  /\ UNCHANGED reply

Next == \E c \in Commands : Begin(c) \/ Reject(c) \/ Succeed(c) \/ Fail(c)

Spec == Init /\ [][Next]_vars
=============================================================================
