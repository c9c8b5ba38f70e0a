---------------------------- MODULE CommandService ----------------------------
(***************************************************************************)
(* What GoveePlugH508x._send_message promises to its callers, without      *)
(* connections, locks or tasks: commands are served first in, first out,   *)
(* each gets one verdict, and a caller that does not give up is told that  *)
(* verdict.                                                                *)
(***************************************************************************)
EXTENDS Naturals, Sequences

CONSTANT MaxCmds        \* bound: how many commands are ever issued

VARIABLES
  issued,    \* number of commands issued
  pending,   \* commands without a verdict, oldest first
  verdict,   \* verdict on each command
  reply      \* what each caller is doing, or has been told

vars == <<issued, pending, verdict, reply>>

Cmds == 1..MaxCmds

Init ==
  /\ issued = 0
  /\ pending = <<>>
  /\ verdict = [c \in Cmds |-> "pending"]
  /\ reply = [c \in Cmds |-> "none"]

\* A caller issues the next command.
Issue ==
  /\ issued < MaxCmds
  /\ issued' = issued + 1
  /\ pending' = Append(pending, issued + 1)
  /\ reply' = [reply EXCEPT ![issued + 1] = "waiting"]
  /\ UNCHANGED verdict

\* The plug acknowledged the oldest command.
Acknowledge ==
  /\ pending # <<>>
  /\ pending' = Tail(pending)
  /\ verdict' = [verdict EXCEPT ![Head(pending)] = "true"]
  /\ UNCHANGED <<issued, reply>>

\* The n oldest commands are given up.
GiveUpOn(n) ==
  /\ pending' = SubSeq(pending, n + 1, Len(pending))
  /\ verdict' = [c \in Cmds |-> IF \E i \in 1..n : pending[i] = c
                                THEN "false" ELSE verdict[c]]
  /\ UNCHANGED <<issued, reply>>

Resolve == Acknowledge \/ \E n \in 1..Len(pending) : GiveUpOn(n)

\* A caller is told the verdict on its command.
Tell(c) ==
  /\ reply[c] = "waiting"
  /\ verdict[c] # "pending"
  /\ reply' = [reply EXCEPT ![c] = verdict[c]]
  /\ UNCHANGED <<issued, pending, verdict>>

\* A caller stops waiting; its command stays where it is.
Leave(c) ==
  /\ reply[c] = "waiting"
  /\ \E r \in {"false", "cancelled"} : reply' = [reply EXCEPT ![c] = r]
  /\ UNCHANGED <<issued, pending, verdict>>

Next ==
  \/ Issue
  \/ Resolve
  \/ \E c \in Cmds : Tell(c) \/ Leave(c)

Safety == Init /\ [][Next]_vars

Spec == Safety /\ WF_vars(Resolve) /\ WF_vars(\E c \in Cmds : Tell(c))
===============================================================================
