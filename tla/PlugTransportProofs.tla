------------------------- MODULE PlugTransportProofs -------------------------
(***************************************************************************)
(* Proofs about PlugTransport for every number of commands: its type       *)
(* invariant, the inductive invariant IndInv, the safety properties that   *)
(* follow from it, and that it implements the safety part of               *)
(* CommandService.                                                         *)
(***************************************************************************)
EXTENDS PlugTransport, SequenceTheorems, TLAPS

(* Every proof knows that the commands are numbers.                        *)
USE MaxCmdsAssumption DEF Cmds

\* Init gives every variable a value of its type.
LEMMA TypeInit == Init => TypeOK
  BY EmptySeq
  DEF Init, TypeOK, TaskStates, PollStates, Clients

\* Every step keeps the type of every variable: a command being written is a
\* command (TaskHolds), so what is recorded as written is one.
LEMMA TypeStep == TypeOK /\ TaskHolds /\ [Next]_vars => TypeOK'
<1> USE DEF TypeOK, vars, sendVars, pollVars, taskVars, lockVars, TaskStates,
            PollStates, Clients
<1> SUFFICES ASSUME TypeOK, TaskHolds, [Next]_vars PROVE TypeOK'
  OBVIOUS
<1>1. CASE Send
  BY <1>1, AppendProperties DEF Send
<1>2. ASSUME NEW c \in Cmds, CallerReturn(c) PROVE TypeOK'
  BY <1>2 DEF CallerReturn
<1>3. ASSUME NEW c \in Cmds, CallerTimeout(c) PROVE TypeOK'
  BY <1>3 DEF CallerTimeout
<1>4. ASSUME NEW c \in Cmds, CallerCancel(c) PROVE TypeOK'
  BY <1>4 DEF CallerCancel
<1>5. CASE CooldownEnds
  BY <1>5 DEF CooldownEnds
<1>6. CASE TaskDrain
  BY <1>6, EmptySeq, AppendProperties DEF TaskDrain, Enqueue
<1>7. CASE TaskAcquire
  BY <1>7, HeadTailProperties DEF TaskAcquire, Acquire
<1>8. CASE TaskConnectOk
  BY <1>8 DEF TaskConnectOk, Release
<1>9. CASE TaskConnectFail
  BY <1>9, EmptySeq DEF TaskConnectFail, Release, FailAll
<1>10. CASE TaskSession
  BY <1>10 DEF TaskSession
<1>11. CASE TaskAuthOk
  BY <1>11 DEF TaskAuthOk
<1>12. CASE TaskSetupFail
  BY <1>12, EmptySeq DEF TaskSetupFail, FailAll
<1>13. CASE TaskTake
  <2>1. CASE must_process # <<>>
    <3>1. Head(must_process) \in Cmds /\ Tail(must_process) \in Seq(Cmds)
      BY <2>1, HeadTailProperties
    <3>2. /\ current' = Head(must_process)
          /\ must_process' = Tail(must_process)
          /\ msgqueue' = msgqueue
          /\ task' = "writing"
          /\ UNCHANGED <<sendVars, pollVars, lockVars, task_client, fut, wire>>
      BY <1>13, <2>1 DEF TaskTake
    <3>3. QED
      BY <3>1, <3>2
  <2>2. CASE must_process = <<>>
    <3>1. /\ msgqueue # <<>>
          /\ current' = Head(msgqueue)
          /\ msgqueue' = Tail(msgqueue)
          /\ must_process' = must_process
          /\ task' = "writing"
          /\ UNCHANGED <<sendVars, pollVars, lockVars, task_client, fut, wire>>
      BY <1>13, <2>2 DEF TaskTake
    <3>2. Head(msgqueue) \in Cmds /\ Tail(msgqueue) \in Seq(Cmds)
      BY <3>1, HeadTailProperties
    <3>3. QED
      BY <3>1, <3>2
  <2>3. QED
    BY <2>1, <2>2
<1>14. CASE TaskIdle
  BY <1>14 DEF TaskIdle
<1>15. CASE TaskIdleTimeout
  BY <1>15 DEF TaskIdleTimeout
<1>16. CASE TaskWriteOk
  <2>1. current \in Cmds
    BY <1>16 DEF TaskWriteOk, TaskHolds
  <2>2. QED
    BY <1>16, <2>1, AppendProperties DEF TaskWriteOk
<1>17. CASE TaskWriteFail
  BY <1>17, EmptySeq DEF TaskWriteFail, FailAll
<1>18. CASE TaskAck
  <2>1. PICK ack \in {"true", "false"} : fut' = [fut EXCEPT ![current] = ack]
    BY <1>18 DEF TaskAck
  <2>2. fut' \in [Cmds -> {"pending", "true", "false"}]
    BY <2>1
  <2>3. QED
    BY <1>18, <2>2 DEF TaskAck
<1>19. CASE TaskTeardown
  BY <1>19 DEF TaskTeardown
<1>20. CASE TaskDone
  BY <1>20 DEF TaskDone
<1>21. CASE PollStart
  BY <1>21, AppendProperties DEF PollStart, Enqueue
<1>22. CASE PollAcquire
  BY <1>22, HeadTailProperties DEF PollAcquire, Acquire
<1>23. CASE PollConnectOk
  BY <1>23 DEF PollConnectOk, Release
<1>24. CASE PollConnectFail
  BY <1>24 DEF PollConnectFail, Release
<1>25. CASE PollAdvance
  BY <1>25 DEF PollAdvance
<1>26. CASE PollFail
  BY <1>26 DEF PollFail
<1>27. CASE PollTeardown
  BY <1>27 DEF PollTeardown
<1>28. CASE PollCancel
  <2>1. ASSUME LeaveWaiters("poll") PROVE waiters' \in Seq({"task", "poll"})
    <3>1. PICK i \in 1..Len(waiters) :
                 waiters' = SubSeq(waiters, 1, i - 1)
                              \o SubSeq(waiters, i + 1, Len(waiters))
      BY <2>1 DEF LeaveWaiters
    <3>2. /\ SubSeq(waiters, 1, i - 1) \in Seq({"task", "poll"})
          /\ SubSeq(waiters, i + 1, Len(waiters)) \in Seq({"task", "poll"})
      BY <3>1, SubSeqProperties
    <3>3. QED
      BY <3>1, <3>2, ConcatProperties
  <2>2. QED
    BY <1>28, <2>1 DEF PollCancel, Release
<1>29. CASE LinkLost
  BY <1>29 DEF LinkLost
<1>30. CASE Quiescent
  BY <1>30 DEF Quiescent
<1>31. CASE UNCHANGED vars
  BY <1>31
<1> QED
  BY <1>1, <1>2, <1>3, <1>4, <1>5, <1>6, <1>7, <1>8, <1>9, <1>10, <1>11,
     <1>12, <1>13, <1>14, <1>15, <1>16, <1>17, <1>18, <1>19, <1>20, <1>21,
     <1>22, <1>23, <1>24, <1>25, <1>26, <1>27, <1>28, <1>29, <1>30, <1>31
  DEF Next, CallerStep, TaskStep, PollStep

----------------------------------------------------------------------------
(* The queues: QueueNumbers, PendingIsBacklog and TaskHolds.               *)

\* The three parts of the inductive invariant that speak of the queues, the
\* futures and the await points that may hold commands.
QueueInv == QueueNumbers /\ PendingIsBacklog /\ TaskHolds

\* The lengths and elements of the queues are numbers.
LEMMA QueueTypes ==
  ASSUME TypeOK
  PROVE  /\ issued \in Nat /\ current \in Nat
         /\ Len(msgqueue) \in Nat /\ Len(must_process) \in Nat
         /\ \A i \in 1..Len(msgqueue) : msgqueue[i] \in Cmds
         /\ \A i \in 1..Len(must_process) : must_process[i] \in Cmds
  BY LenProperties DEF TypeOK

\* The counters the invariant compares.
LEMMA CounterTypes ==
  ASSUME TypeOK
  PROVE  /\ issued \in Nat /\ current \in Nat
         /\ Len(msgqueue) \in Nat /\ Len(must_process) \in Nat
  BY QueueTypes

\* Issuing a command appends the next number to the message queue.
LEMMA QueueSend == TypeOK /\ QueueInv /\ Send => QueueInv'
<1> SUFFICES ASSUME TypeOK, QueueInv, Send PROVE QueueInv'
  OBVIOUS
<1>0. /\ issued \in Nat /\ current \in Nat
      /\ Len(msgqueue) \in Nat /\ Len(must_process) \in Nat
  BY CounterTypes
<1>1. issued + 1 \in Cmds /\ issued' = issued + 1
  BY DEF Send, TypeOK
<1>2. /\ must_process' = must_process /\ current' = current /\ fut' = fut
      /\ task' = IF task = "none" THEN "created" ELSE task
  BY DEF Send
<1>3. /\ Len(msgqueue') = Len(msgqueue) + 1
      /\ \A i \in 1..Len(msgqueue) : msgqueue'[i] = msgqueue[i]
      /\ msgqueue'[Len(msgqueue) + 1] = issued + 1
  <2>1. msgqueue' = Append(msgqueue, issued + 1)
    BY DEF Send
  <2>2. QED
    BY <1>1, <2>1, AppendProperties, LenProperties DEF TypeOK
<1>4. QueueNumbers'
  <2>1. ASSUME NEW i \in 1..Len(msgqueue')
        PROVE  msgqueue'[i] + Len(msgqueue') = issued' + i
    <3>1. CASE i \in 1..Len(msgqueue)
      <4>1. msgqueue[i] + Len(msgqueue) = issued + i
        BY <3>1, QueueTypes DEF QueueInv, QueueNumbers
      <4>2. msgqueue[i] \in Nat /\ i \in Nat
        BY <3>1, QueueTypes
      <4>3. msgqueue'[i] = msgqueue[i]
        BY <1>3, <3>1
      <4>4. Len(msgqueue') = Len(msgqueue) + 1 /\ issued' = issued + 1
        BY <1>1, <1>3
      <4>5. QED
        BY <4>1, <4>2, <4>3, <4>4, <1>0
    <3>2. CASE i = Len(msgqueue) + 1
      BY <1>1, <1>3, <3>2, QueueTypes
    <3>3. QED
      BY <1>3, <2>1, <3>1, <3>2, QueueTypes
  <2>2. ASSUME NEW i \in 1..Len(must_process)
        PROVE  must_process[i] + Len(must_process) + Len(msgqueue')
                 = issued' + i
    <3>1. must_process[i] + Len(must_process) + Len(msgqueue) = issued + i
      BY DEF QueueInv, QueueNumbers
    <3>2. must_process[i] \in Nat /\ i \in Nat
      BY QueueTypes
    <3>3. Len(msgqueue') = Len(msgqueue) + 1 /\ issued' = issued + 1
      BY <1>1, <1>3
    <3>4. QED
      BY <3>1, <3>2, <3>3, <1>0
  <2>3. ASSUME current # 0
        PROVE  current + Len(must_process) + Len(msgqueue') = issued'
    <3>1. current + Len(must_process) + Len(msgqueue) = issued
      BY <2>3 DEF QueueInv, QueueNumbers
    <3>2. QED
      BY <1>1, <1>3, <3>1, QueueTypes
  <2>4. QED
    BY <1>2, <2>1, <2>2, <2>3 DEF QueueNumbers
<1>5. PendingIsBacklog'
  <2>1. Backlog' = Backlog + 1 /\ Backlog \in Nat
    BY <1>2, <1>3, QueueTypes DEF Backlog
  <2>2. QED
    BY <1>1, <1>2, <2>1, QueueTypes DEF QueueInv, PendingIsBacklog
<1>6. TaskHolds'
  BY <1>2, <1>3, QueueTypes DEF QueueInv, TaskHolds
<1>7. QED
  BY <1>4, <1>5, <1>6 DEF QueueInv

\* A fresh task drains the message queue into its own.
LEMMA QueueDrain == TypeOK /\ QueueInv /\ TaskDrain => QueueInv'
<1> SUFFICES ASSUME TypeOK, QueueInv, TaskDrain PROVE QueueInv'
  OBVIOUS
<1>1. /\ task = "created" /\ task' = "lock"
      /\ must_process' = msgqueue /\ msgqueue' = <<>>
      /\ UNCHANGED <<issued, current, fut>>
  BY DEF TaskDrain, sendVars
<1>2. current = 0 /\ must_process = <<>>
  BY <1>1 DEF QueueInv, TaskHolds
<1>3. Len(<<>>) = 0 /\ 1..Len(<<>>) = {}
  OBVIOUS
<1>4. QueueNumbers'
  BY <1>1, <1>2, <1>3, QueueTypes DEF QueueInv, QueueNumbers
<1>5. PendingIsBacklog'
  BY <1>1, <1>2, <1>3, QueueTypes DEF QueueInv, PendingIsBacklog, Backlog
<1>6. TaskHolds'
  BY <1>1, <1>2 DEF TaskHolds
<1>7. QED
  BY <1>4, <1>5, <1>6 DEF QueueInv

\* The numbers a task must process are the consecutive ones in front of those
\* still in the message queue.
LEMMA MustProcessNumbers ==
  ASSUME TypeOK, QueueNumbers, NEW c \in Cmds
  PROVE  InMustProcess(c) <=>
           /\ c + Len(must_process) + Len(msgqueue) > issued
           /\ c + Len(msgqueue) <= issued
<1>1. ASSUME InMustProcess(c)
      PROVE  /\ c + Len(must_process) + Len(msgqueue) > issued
             /\ c + Len(msgqueue) <= issued
  BY <1>1, QueueTypes DEF QueueNumbers, InMustProcess
<1>2. ASSUME c + Len(must_process) + Len(msgqueue) > issued,
             c + Len(msgqueue) <= issued
      PROVE  InMustProcess(c)
  <2> DEFINE i == c + Len(must_process) + Len(msgqueue) - issued
  <2>1. i \in 1..Len(must_process)
    BY <1>2, QueueTypes
  <2>2. must_process[i] + Len(must_process) + Len(msgqueue) = issued + i
    BY <2>1 DEF QueueNumbers
  <2>3. must_process[i] = c
    BY <2>1, <2>2, QueueTypes
  <2>4. QED
    BY <2>1, <2>3 DEF InMustProcess
<1>3. QED
  BY <1>1, <1>2

\* Failing the drained commands, and the one in progress if there is one,
\* leaves pending exactly what is in the message queue.
LEMMA QueueFail ==
  ASSUME TypeOK, QueueInv, TypeOK',
         fut' = [c \in Cmds |-> IF c = current \/ InMustProcess(c)
                                 THEN "false" ELSE fut[c]],
         must_process' = <<>>, current' = 0,
         UNCHANGED <<issued, msgqueue>>
  PROVE  QueueNumbers' /\ PendingIsBacklog'
<1>1. Len(<<>>) = 0 /\ 1..Len(<<>>) = {}
  OBVIOUS
<1>2. QueueNumbers'
  BY <1>1 DEF QueueInv, QueueNumbers
<1>3. ASSUME NEW c \in Cmds
      PROVE  fut'[c] = "pending" <=> c + Len(msgqueue) > issued
  <2>1. InMustProcess(c) <=>
          /\ c + Len(must_process) + Len(msgqueue) > issued
          /\ c + Len(msgqueue) <= issued
    BY MustProcessNumbers DEF QueueInv
  <2>2. c = current => c + Len(must_process) + Len(msgqueue) = issued
    BY DEF QueueInv, QueueNumbers
  <2>3. fut[c] = "pending" <=> c + Backlog > issued
    BY DEF QueueInv, PendingIsBacklog
  <2>4. current # 0 => current + Len(must_process) + Len(msgqueue) = issued
    BY DEF QueueInv, QueueNumbers
  <2>5. fut'[c] = IF c = current \/ InMustProcess(c) THEN "false" ELSE fut[c]
    OBVIOUS
  <2>6. QED
    BY <2>1, <2>2, <2>3, <2>4, <2>5, QueueTypes DEF Backlog
<1>4. PendingIsBacklog'
  BY <1>1, <1>3, QueueTypes DEF PendingIsBacklog, Backlog
<1>5. QED
  BY <1>2, <1>4

\* Taking the oldest command makes it the current one.
LEMMA QueueTake == TypeOK /\ QueueInv /\ TaskTake => QueueInv'
<1> SUFFICES ASSUME TypeOK, QueueInv, TaskTake PROVE QueueInv'
  OBVIOUS
<1>0. /\ issued \in Nat /\ current \in Nat
      /\ Len(msgqueue) \in Nat /\ Len(must_process) \in Nat
  BY CounterTypes
<1>1. /\ task \in {"process", "idle"} /\ task' = "writing"
      /\ issued' = issued /\ fut' = fut
  BY DEF TaskTake, sendVars
<1>2. current = 0
  BY <1>1 DEF QueueInv, TaskHolds
<1>3. CASE must_process # <<>>
  <2>1. /\ current' = Head(must_process)
        /\ must_process' = Tail(must_process)
        /\ msgqueue' = msgqueue
    BY <1>3 DEF TaskTake
  <2>2. /\ current' = must_process[1] /\ current' \in Cmds
        /\ 1 \in 1..Len(must_process)
        /\ Len(must_process') = Len(must_process) - 1
        /\ \A i \in 1..Len(must_process') :
             must_process'[i] = must_process[i + 1]
    BY <1>3, <2>1, HeadTailProperties, LenProperties, EmptySeq DEF TypeOK
  <2>3. current' + Len(must_process) + Len(msgqueue) = issued + 1
    BY <2>2 DEF QueueInv, QueueNumbers
  <2>4. ASSUME NEW i \in 1..Len(must_process')
        PROVE  must_process'[i] + Len(must_process') + Len(msgqueue')
                 = issued' + i
    <3>1. i \in Nat /\ i + 1 \in 1..Len(must_process)
      BY <2>2, QueueTypes
    <3>2. /\ must_process[i + 1] \in Nat
          /\ must_process[i + 1] + Len(must_process) + Len(msgqueue)
               = issued + (i + 1)
      BY <3>1, QueueTypes DEF QueueInv, QueueNumbers
    <3>3. must_process'[i] = must_process[i + 1]
      BY <2>2
    <3>4. /\ Len(must_process') = Len(must_process) - 1
          /\ Len(msgqueue') = Len(msgqueue) /\ issued' = issued
      BY <1>1, <2>1, <2>2
    <3> DEFINE x == must_process[i + 1]
               q == Len(must_process)
               m == Len(msgqueue)
    <3>5. /\ x \in Nat /\ q \in Nat /\ m \in Nat
          /\ x + q + m = issued + (i + 1)
      BY <1>0, <3>2
    <3> HIDE DEF x, q, m
    <3>6. x + (q - 1) + m = issued + i
      BY <1>0, <3>1, <3>5
    <3>7. QED
      BY <3>3, <3>4, <3>6 DEF x, q, m
  <2>5. current' + Len(must_process') + Len(msgqueue') = issued'
    <3> DEFINE x == current'
               q == Len(must_process)
               m == Len(msgqueue)
    <3>1. /\ x \in Nat /\ q \in Nat /\ m \in Nat
          /\ x + q + m = issued + 1
      BY <1>0, <2>2, <2>3, MaxCmdsAssumption DEF Cmds
    <3> HIDE DEF x, q, m
    <3>2. x + (q - 1) + m = issued
      BY <1>0, <3>1
    <3>3. QED
      BY <1>1, <2>1, <2>2, <3>2 DEF x, q, m
  <2>6. QueueNumbers'
    BY <1>1, <2>1, <2>4, <2>5 DEF QueueInv, QueueNumbers
  <2>7. Backlog' = Backlog
    <3>1. /\ Len(must_process') = Len(must_process) - 1
          /\ Len(msgqueue') = Len(msgqueue) /\ current' # 0
      BY <2>1, <2>2
    <3>2. QED
      BY <1>2, <3>1, <1>0 DEF Backlog
  <2>8. PendingIsBacklog' /\ TaskHolds'
    BY <1>1, <2>2, <2>7 DEF QueueInv, PendingIsBacklog, TaskHolds
  <2>9. QED
    BY <2>6, <2>8 DEF QueueInv
<1>4. CASE must_process = <<>>
  <2>1. /\ msgqueue # <<>>
        /\ current' = Head(msgqueue)
        /\ msgqueue' = Tail(msgqueue)
        /\ must_process' = must_process
    BY <1>4 DEF TaskTake
  <2>2. /\ current' = msgqueue[1] /\ current' \in Cmds
        /\ 1 \in 1..Len(msgqueue)
        /\ Len(msgqueue') = Len(msgqueue) - 1
        /\ \A i \in 1..Len(msgqueue') : msgqueue'[i] = msgqueue[i + 1]
    BY <2>1, HeadTailProperties, LenProperties, EmptySeq DEF TypeOK
  <2>3. Len(must_process) = 0 /\ 1..Len(must_process) = {}
    BY <1>4
  <2>4. current' + Len(msgqueue) = issued + 1
    BY <2>2 DEF QueueInv, QueueNumbers
  <2>5. ASSUME NEW i \in 1..Len(msgqueue')
        PROVE  msgqueue'[i] + Len(msgqueue') = issued' + i
    <3>1. i \in Nat /\ i + 1 \in 1..Len(msgqueue)
      BY <2>2, QueueTypes
    <3>2. /\ msgqueue[i + 1] \in Nat
          /\ msgqueue[i + 1] + Len(msgqueue) = issued + (i + 1)
      BY <3>1, QueueTypes DEF QueueInv, QueueNumbers
    <3>3. msgqueue'[i] = msgqueue[i + 1]
      BY <2>2
    <3>4. Len(msgqueue') = Len(msgqueue) - 1
      BY <2>2
    <3> DEFINE x == msgqueue[i + 1]
               m == Len(msgqueue)
    <3>5. x \in Nat /\ m \in Nat /\ x + m = issued + (i + 1)
      BY <1>0, <3>2
    <3> HIDE DEF x, m
    <3>6. x + (m - 1) = issued + i
      BY <1>0, <3>1, <3>5
    <3>7. QED
      BY <1>1, <3>3, <3>4, <3>6 DEF x, m
  <2>6. current' + Len(must_process') + Len(msgqueue') = issued'
    <3> DEFINE x == current'
               m == Len(msgqueue)
    <3>1. x \in Nat /\ m \in Nat /\ x + m = issued + 1
      BY <1>0, <2>2, <2>4, MaxCmdsAssumption DEF Cmds
    <3> HIDE DEF x, m
    <3>2. x + 0 + (m - 1) = issued
      BY <1>0, <3>1
    <3>3. QED
      BY <1>1, <2>1, <2>2, <2>3, <3>2 DEF x, m
  <2>7. QueueNumbers'
    BY <1>1, <2>1, <2>3, <2>5, <2>6 DEF QueueNumbers
  <2>8. Backlog' = Backlog
    <3>1. /\ Len(must_process') = Len(must_process)
          /\ Len(msgqueue') = Len(msgqueue) - 1 /\ current' # 0
      BY <2>1, <2>2
    <3>2. QED
      BY <1>2, <3>1, <1>0 DEF Backlog
  <2>9. PendingIsBacklog' /\ TaskHolds'
    BY <1>1, <1>4, <2>1, <2>2, <2>8 DEF QueueInv, PendingIsBacklog, TaskHolds
  <2>10. QED
    BY <2>7, <2>9 DEF QueueInv
<1>5. QED
  BY <1>3, <1>4

\* The verdict on the current command takes it, the oldest, off the backlog.
LEMMA QueueAck == TypeOK /\ QueueInv /\ TaskAck => QueueInv'
<1> SUFFICES ASSUME TypeOK, QueueInv, TaskAck PROVE QueueInv'
  OBVIOUS
<1>1. /\ task = "acking" /\ task' = "process" /\ current' = 0
      /\ UNCHANGED <<issued, msgqueue, must_process>>
  BY DEF TaskAck, sendVars
<1>2. PICK ack \in {"true", "false"} : fut' = [fut EXCEPT ![current] = ack]
  BY DEF TaskAck
<1>3. current \in Cmds
  BY <1>1 DEF TypeOK, QueueInv, TaskHolds
<1>4. /\ fut'[current] # "pending"
      /\ \A c \in Cmds \ {current} : fut'[c] = fut[c]
  BY <1>2, <1>3 DEF TypeOK
<1>5. QueueNumbers'
  BY <1>1 DEF QueueInv, QueueNumbers
<1>6. PendingIsBacklog'
  BY <1>1, <1>3, <1>4, QueueTypes
  DEF QueueInv, QueueNumbers, PendingIsBacklog, Backlog
<1>7. TaskHolds'
  BY <1>1 DEF QueueInv, TaskHolds
<1>8. QED
  BY <1>5, <1>6, <1>7 DEF QueueInv

\* Steps that leave the queues and the futures alone only move task.
LEMMA QueueFrame ==
  ASSUME QueueInv, TaskHolds',
         UNCHANGED <<issued, msgqueue, must_process, current, fut>>
  PROVE  QueueInv'
  BY DEF QueueInv, QueueNumbers, PendingIsBacklog, Backlog

\* Every step preserves the queue part of the invariant.
LEMMA QueueStep ==
  TypeOK /\ TypeOK' /\ QueueInv /\ [Next]_vars => QueueInv'
<1> SUFFICES ASSUME TypeOK, TypeOK', QueueInv, [Next]_vars PROVE QueueInv'
  OBVIOUS
<1> USE DEF sendVars, pollVars, taskVars, lockVars
<1>1. CASE Send
  BY <1>1, QueueSend
<1>2. CASE TaskDrain
  BY <1>2, QueueDrain
<1>3. CASE TaskTake
  BY <1>3, QueueTake
<1>4. CASE TaskAck
  BY <1>4, QueueAck
<1>5. CASE TaskConnectFail \/ TaskSetupFail
  <2>1. /\ task \in {"connecting", "session", "auth"}
        /\ task' \in {"done", "teardown"}
        /\ FailAll(InMustProcess)
        /\ must_process' = <<>>
        /\ UNCHANGED <<issued, msgqueue, current>>
    BY <1>5 DEF TaskConnectFail, TaskSetupFail
  <2>2. current = 0 /\ current' = 0
    BY <2>1 DEF QueueInv, TaskHolds
  <2>3. fut' = [c \in Cmds |-> IF c = current \/ InMustProcess(c)
                                THEN "false" ELSE fut[c]]
    BY <2>1, <2>2 DEF FailAll
  <2>4. TaskHolds'
    BY <2>1, <2>2 DEF TaskHolds
  <2>5. QED
    BY <2>1, <2>2, <2>3, <2>4, QueueFail DEF QueueInv
<1>6. CASE TaskWriteFail
  <2>1. /\ task' = "teardown"
        /\ fut' = [c \in Cmds |-> IF c = current \/ InMustProcess(c)
                                  THEN "false" ELSE fut[c]]
        /\ must_process' = <<>> /\ current' = 0
        /\ UNCHANGED <<issued, msgqueue>>
    BY <1>6 DEF TaskWriteFail, FailAll
  <2>2. TaskHolds'
    BY <2>1 DEF TaskHolds
  <2>3. QED
    BY <2>1, <2>2, QueueFail DEF QueueInv
<1>7. CASE \/ TaskAcquire \/ TaskConnectOk \/ TaskSession \/ TaskAuthOk
           \/ TaskIdle \/ TaskIdleTimeout \/ TaskWriteOk
           \/ TaskTeardown \/ TaskDone
  <2>1. UNCHANGED <<issued, msgqueue, must_process, current, fut>>
    BY <1>7 DEF TaskAcquire, TaskConnectOk, TaskSession, TaskAuthOk, TaskIdle,
                TaskIdleTimeout, TaskWriteOk, TaskTeardown, TaskDone
  <2>2. TaskHolds'
    BY <1>7, <2>1
    DEF TaskAcquire, TaskConnectOk, TaskSession, TaskAuthOk, TaskIdle,
        TaskIdleTimeout, TaskWriteOk, TaskTeardown, TaskDone, QueueInv,
        TaskHolds
  <2>3. QED
    BY <2>1, <2>2, QueueFrame
<1>8. CASE \/ \E c \in Cmds : \/ CallerReturn(c)
                            \/ CallerTimeout(c) \/ CallerCancel(c)
           \/ CooldownEnds \/ PollStart \/ PollStep \/ PollCancel \/ LinkLost
           \/ Quiescent \/ UNCHANGED vars
  <2>1. UNCHANGED <<issued, msgqueue, must_process, current, fut, task>>
    BY <1>8 DEF CallerReturn, CallerTimeout, CallerCancel, CooldownEnds,
                PollStart, PollStep, PollAcquire, PollConnectOk,
                PollConnectFail, PollAdvance, PollFail, PollTeardown,
                PollCancel, LinkLost, Quiescent, vars
  <2>2. TaskHolds'
    BY <2>1 DEF QueueInv, TaskHolds
  <2>3. QED
    BY <2>1, <2>2, QueueFrame
<1>9. QED
  BY <1>1, <1>2, <1>3, <1>4, <1>5, <1>6, <1>7, <1>8
  DEF Next, CallerStep, TaskStep

----------------------------------------------------------------------------
(* The lock and the connections.                                           *)

\* Every step preserves who holds the lock and who owns a connection: one
\* lemma for the steps of the task, one for those of the poll and the rest.
LEMMA LinkTaskStep ==
  ASSUME LockHolder, ConnectionOwned, TaskStep
  PROVE  LockHolder' /\ ConnectionOwned'
<1> USE DEF sendVars, pollVars, taskVars, lockVars, LockHolder,
            ConnectionOwned
<1>1. CASE TaskDrain
  BY <1>1 DEF TaskDrain
<1>2. CASE TaskAcquire
  BY <1>2 DEF TaskAcquire, Acquire
<1>3. CASE TaskConnectOk
  BY <1>3 DEF TaskConnectOk, Release
<1>4. CASE TaskConnectFail
  BY <1>4 DEF TaskConnectFail, Release
<1>5. CASE TaskSession \/ TaskAuthOk
  BY <1>5 DEF TaskSession, TaskAuthOk
<1>6. CASE TaskSetupFail
  BY <1>6 DEF TaskSetupFail
<1>7. CASE TaskTake
  BY <1>7 DEF TaskTake
<1>8. CASE TaskIdle \/ TaskIdleTimeout
  BY <1>8 DEF TaskIdle, TaskIdleTimeout
<1>9. CASE TaskWriteOk
  BY <1>9 DEF TaskWriteOk
<1>10. CASE TaskWriteFail
  BY <1>10 DEF TaskWriteFail
<1>11. CASE TaskAck
  BY <1>11 DEF TaskAck
<1>12. CASE TaskTeardown \/ TaskDone
  BY <1>12 DEF TaskTeardown, TaskDone
<1>13. QED
  BY <1>1, <1>2, <1>3, <1>4, <1>5, <1>6, <1>7, <1>8, <1>9, <1>10, <1>11,
     <1>12 DEF TaskStep

LEMMA LinkOtherStep ==
  ASSUME LockHolder, ConnectionOwned, [Next]_vars, ~TaskStep
  PROVE  LockHolder' /\ ConnectionOwned'
<1> USE DEF sendVars, pollVars, taskVars, lockVars, LockHolder,
            ConnectionOwned
<1>1. CASE Send
  BY <1>1 DEF Send
<1>2. CASE \/ \E c \in Cmds : \/ CallerReturn(c)
                            \/ CallerTimeout(c) \/ CallerCancel(c)
           \/ CooldownEnds \/ Quiescent \/ UNCHANGED vars
  BY <1>2 DEF CallerReturn, CallerTimeout, CallerCancel, CooldownEnds,
              Quiescent, vars
<1>3. CASE PollStart
  BY <1>3 DEF PollStart
<1>4. CASE PollAcquire
  BY <1>4 DEF PollAcquire, Acquire
<1>5. CASE PollConnectOk \/ PollConnectFail
  BY <1>5 DEF PollConnectOk, PollConnectFail, Release
<1>6. CASE PollAdvance \/ PollFail
  BY <1>6 DEF PollAdvance, PollFail
<1>7. CASE PollTeardown
  BY <1>7 DEF PollTeardown
<1>8. CASE PollCancel
  BY <1>8 DEF PollCancel, Release
<1>9. CASE LinkLost
  BY <1>9 DEF LinkLost
<1>10. QED
  BY <1>1, <1>2, <1>3, <1>4, <1>5, <1>6, <1>7, <1>8, <1>9
  DEF Next, CallerStep, PollStep

----------------------------------------------------------------------------
(* What is written to the plug.                                            *)

\* The three parts of the inductive invariant that speak of the wire.
WireInv == WireResolved /\ WireOrder /\ TrueMeansWritten

\* Steps that write nothing and never make a resolved future pending.
LEMMA WireFrame ==
  ASSUME WireInv, wire' = wire, caller' = caller,
         \A c \in Cmds : fut'[c] = fut[c] \/ fut'[c] = "false",
         wire \in Seq(Cmds),
         \/ task' = task /\ current' = current
         \/ task # "acking" /\ task' # "acking"
  PROVE  WireInv'
<1>1. \A i \in 1..Len(wire) : wire[i] \in Cmds
  BY LenProperties
<1>2. WireResolved'
  BY <1>1 DEF WireInv, WireResolved
<1>3. WireOrder' /\ TrueMeansWritten'
  BY DEF WireInv, WireOrder, TrueMeansWritten
<1>4. QED
  BY <1>2, <1>3 DEF WireInv

\* The command written is younger than all that were written before.
LEMMA WireWrite ==
  ASSUME TypeOK, QueueInv, WireInv, TaskWriteOk
  PROVE  WireInv'
<1>1. /\ task = "writing" /\ task' = "acking"
      /\ wire' = Append(wire, current)
      /\ current' = current /\ fut' = fut /\ caller' = caller
  BY DEF TaskWriteOk, sendVars
<1>2. current \in Cmds
  BY <1>1 DEF TypeOK, QueueInv, TaskHolds
<1>3. /\ Len(wire) \in Nat /\ Len(wire') = Len(wire) + 1
      /\ \A i \in 1..Len(wire) : wire'[i] = wire[i] /\ wire[i] \in Cmds
      /\ wire'[Len(wire) + 1] = current
  BY <1>1, <1>2, AppendProperties, LenProperties DEF TypeOK
<1>4. ASSUME NEW i \in 1..Len(wire) PROVE wire[i] < current
  <2>1. fut[wire[i]] # "pending"
    BY <1>1 DEF WireInv, WireResolved
  <2>2. ~(wire[i] + Backlog > issued)
    BY <1>3, <2>1 DEF QueueInv, PendingIsBacklog
  <2>3. current + Len(must_process) + Len(msgqueue) = issued
    BY <1>2 DEF QueueInv, QueueNumbers
  <2>4. Backlog = Len(msgqueue) + Len(must_process) + 1
    BY <1>2 DEF Backlog
  <2>5. wire[i] \in Nat
    BY <1>3
  <2>6. QED
    BY <2>2, <2>3, <2>4, <2>5, CounterTypes
<1>5. WireOrder'
  <2> SUFFICES ASSUME NEW i \in 1..Len(wire'), NEW j \in 1..Len(wire'), i < j
               PROVE  wire'[i] < wire'[j]
    BY DEF WireOrder
  <2>1. i \in 1..Len(wire)
    BY <1>3
  <2>2. CASE j \in 1..Len(wire)
    BY <1>3, <2>1, <2>2 DEF WireInv, WireOrder
  <2>3. CASE j = Len(wire) + 1
    BY <1>3, <1>4, <2>1, <2>3
  <2>4. QED
    BY <1>3, <2>2, <2>3
<1>6. WireResolved'
  <2>1. ASSUME NEW i \in 1..Len(wire')
        PROVE  \/ fut'[wire'[i]] # "pending"
               \/ task' = "acking" /\ wire'[i] = current'
    <3>1. CASE i \in 1..Len(wire)
      BY <1>1, <1>3, <3>1 DEF WireInv, WireResolved
    <3>2. CASE i = Len(wire) + 1
      BY <1>1, <1>3, <3>2
    <3>3. QED
      BY <1>3, <3>1, <3>2
  <2>2. Len(wire) + 1 \in 1..Len(wire')
    BY <1>3
  <2>3. \E i \in 1..Len(wire') : wire'[i] = current'
    BY <1>1, <1>3, <2>2
  <2>4. QED
    BY <2>1, <2>3 DEF WireResolved
<1>7. TrueMeansWritten'
  <2>1. ASSUME NEW c \in Cmds, NEW i \in 1..Len(wire), wire[i] = c
        PROVE  \E k \in 1..Len(wire') : wire'[k] = c
    <3>1. i \in 1..Len(wire') /\ wire'[i] = c
      BY <1>3, <2>1
    <3>2. QED
      BY <3>1
  <2>2. QED
    BY <1>1, <2>1 DEF WireInv, TrueMeansWritten
<1>8. QED
  BY <1>5, <1>6, <1>7 DEF WireInv

\* The verdict on the current command: it has been written.
LEMMA WireAck ==
  ASSUME TypeOK, QueueInv, WireInv, TaskAck
  PROVE  WireInv'
<1>1. /\ task = "acking" /\ task' = "process" /\ current' = 0
      /\ wire' = wire /\ caller' = caller
  BY DEF TaskAck, sendVars
<1>2. PICK ack \in {"true", "false"} : fut' = [fut EXCEPT ![current] = ack]
  BY DEF TaskAck
<1>3. current \in Cmds
  BY <1>1 DEF TypeOK, QueueInv, TaskHolds
<1>4. /\ fut'[current] # "pending"
      /\ \A c \in Cmds \ {current} : fut'[c] = fut[c]
  BY <1>2, <1>3 DEF TypeOK
<1>5. \A i \in 1..Len(wire) : wire[i] \in Cmds
  BY LenProperties DEF TypeOK
<1>6. WireResolved'
  BY <1>1, <1>4, <1>5 DEF WireInv, WireResolved
<1>7. WireOrder'
  BY <1>1 DEF WireInv, WireOrder
<1>8. TrueMeansWritten'
  <2>1. \E i \in 1..Len(wire) : wire[i] = current
    BY <1>1 DEF WireInv, WireResolved
  <2>2. QED
    BY <1>1, <1>4, <2>1 DEF WireInv, TrueMeansWritten
<1>9. QED
  BY <1>6, <1>7, <1>8 DEF WireInv

\* Every step preserves the wire part of the invariant.
LEMMA WireStep ==
  ASSUME TypeOK, QueueInv, WireInv, [Next]_vars
  PROVE  WireInv'
<1> USE DEF sendVars, pollVars, taskVars, lockVars
<1>0. wire \in Seq(Cmds)
  BY DEF TypeOK
<1>1. CASE TaskWriteOk
  BY <1>1, WireWrite
<1>2. CASE TaskAck
  BY <1>2, WireAck
<1>3. CASE TaskConnectFail \/ TaskSetupFail \/ TaskWriteFail
  <2>1. /\ task # "acking" /\ task' # "acking"
        /\ wire' = wire /\ caller' = caller
    BY <1>3 DEF TaskConnectFail, TaskSetupFail, TaskWriteFail
  <2>2. \A c \in Cmds : fut'[c] = fut[c] \/ fut'[c] = "false"
    BY <1>3 DEF TaskConnectFail, TaskSetupFail, TaskWriteFail, FailAll
  <2>3. QED
    BY <1>0, <2>1, <2>2, WireFrame
<1>4. CASE \/ TaskDrain \/ TaskAcquire \/ TaskConnectOk \/ TaskSession
           \/ TaskAuthOk \/ TaskTake \/ TaskIdle \/ TaskIdleTimeout
           \/ TaskTeardown \/ TaskDone
  <2>1. /\ task # "acking" /\ task' # "acking"
        /\ wire' = wire /\ caller' = caller /\ fut' = fut
    BY <1>4 DEF TaskDrain, TaskAcquire, TaskConnectOk, TaskSession, TaskAuthOk,
                TaskTake, TaskIdle, TaskIdleTimeout, TaskTeardown, TaskDone
  <2>2. QED
    BY <1>0, <2>1, WireFrame
<1>5. CASE \/ CooldownEnds \/ PollStart \/ PollStep \/ PollCancel
           \/ LinkLost \/ Quiescent \/ UNCHANGED vars
  <2>1. UNCHANGED <<wire, caller, fut, task, current>>
    BY <1>5 DEF CooldownEnds, PollStart, PollStep, PollAcquire, PollConnectOk,
                PollConnectFail, PollAdvance, PollFail, PollTeardown,
                PollCancel, LinkLost, Quiescent, vars
  <2>2. QED
    BY <1>0, <2>1, WireFrame
<1>6. CASE Send
  <2>1. /\ UNCHANGED <<wire, fut, current>>
        /\ task' = IF task = "none" THEN "created" ELSE task
        /\ caller' = [caller EXCEPT ![issued + 1] = "waiting"]
    BY <1>6 DEF Send
  <2>2. WireResolved' /\ WireOrder'
    BY <2>1 DEF WireInv, WireResolved, WireOrder
  <2>3. \A c \in Cmds : caller'[c] = caller[c] \/ caller'[c] = "waiting"
    BY <2>1 DEF TypeOK
  <2>4. TrueMeansWritten'
    BY <2>1, <2>3 DEF WireInv, TrueMeansWritten
  <2>5. QED
    BY <2>2, <2>4 DEF WireInv
<1>7. ASSUME NEW c \in Cmds,
             CallerReturn(c) \/ CallerTimeout(c) \/ CallerCancel(c)
      PROVE  WireInv'
  <2>1. UNCHANGED <<wire, fut, task, current>>
    BY <1>7 DEF CallerReturn, CallerTimeout, CallerCancel
  <2>2. WireResolved' /\ WireOrder'
    BY <2>1 DEF WireInv, WireResolved, WireOrder
  <2>3. \A d \in Cmds : \/ caller'[d] = caller[d]
                         \/ caller'[d] \in {"false", "cancelled"}
                         \/ caller'[d] = fut[d]
    BY <1>7 DEF CallerReturn, CallerTimeout, CallerCancel, TypeOK
  <2>4. TrueMeansWritten'
    BY <2>1, <2>3 DEF WireInv, TrueMeansWritten
  <2>5. QED
    BY <2>2, <2>4 DEF WireInv
<1>8. QED
  BY <1>1, <1>2, <1>3, <1>4, <1>5, <1>6, <1>7 DEF Next, CallerStep, TaskStep

----------------------------------------------------------------------------
(* The theorems.                                                           *)

\* IndInv is inductive: it holds initially and every step preserves it.
THEOREM Invariance == Spec => []IndInv
<1>1. Init => IndInv
  <2> SUFFICES ASSUME Init PROVE IndInv
    OBVIOUS
  <2>1. Len(<<>>) = 0 /\ 1..Len(<<>>) = {}
    OBVIOUS
  <2>2. QueueNumbers /\ PendingIsBacklog /\ TaskHolds
    BY <2>1 DEF Init, QueueNumbers, PendingIsBacklog, Backlog, TaskHolds
  <2>3. LockHolder /\ ConnectionOwned
    BY DEF Init, LockHolder, ConnectionOwned
  <2>4. WireResolved /\ WireOrder /\ TrueMeansWritten
    BY <2>1 DEF Init, WireResolved, WireOrder, TrueMeansWritten
  <2>5. QED
    BY <2>2, <2>3, <2>4, TypeInit DEF IndInv
<1>2. IndInv /\ [Next]_vars => IndInv'
  <2> SUFFICES ASSUME IndInv, [Next]_vars PROVE IndInv'
    OBVIOUS
  <2>1. TypeOK'
    BY TypeStep DEF IndInv
  <2>2. QueueInv'
    BY <2>1, QueueStep DEF IndInv, QueueInv
  <2>3. LockHolder' /\ ConnectionOwned'
    BY LinkTaskStep, LinkOtherStep DEF IndInv
  <2>4. WireInv'
    BY WireStep DEF IndInv, QueueInv, WireInv
  <2>5. QED
    BY <2>1, <2>2, <2>3, <2>4 DEF IndInv, QueueInv, WireInv
<1>3. QED
  BY <1>1, <1>2, PTL DEF Spec

\* Every variable keeps its type: the queues hold only commands and every
\* program counter stays at an await point of the code.
THEOREM TypeCorrect == Spec => []TypeOK
<1>1. IndInv => TypeOK
  BY DEF IndInv
<1>2. QED
  BY <1>1, Invariance, PTL

\* A command without a verdict always has a message task to serve it.
THEOREM NoWakeupLost == Spec => []NoLostWakeup
<1>1. IndInv => NoLostWakeup
  <2> SUFFICES ASSUME IndInv, NEW c \in 1..issued, fut[c] = "pending",
                      task = "none"
               PROVE  FALSE
    BY DEF NoLostWakeup
  <2>1. msgqueue = <<>> /\ must_process = <<>> /\ current = 0
    BY DEF IndInv, TaskHolds
  <2>2. Backlog = 0
    BY <2>1 DEF Backlog
  <2>3. c \in Cmds /\ issued \in Nat
    BY DEF IndInv, TypeOK
  <2>4. QED
    BY <2>2, <2>3 DEF IndInv, PendingIsBacklog
<1>2. QED
  BY <1>1, Invariance, PTL

\* The plug is sent the commands in issue order and none twice.
THEOREM WritesInOrder == Spec => []WireOrder
<1>1. IndInv => WireOrder
  BY DEF IndInv
<1>2. QED
  BY <1>1, Invariance, PTL

\* True is returned only for commands that were written to the plug.
THEOREM TrueIsWritten == Spec => []TrueMeansWritten
<1>1. IndInv => TrueMeansWritten
  BY DEF IndInv
<1>2. QED
  BY <1>1, Invariance, PTL

\* The message task and the poll never establish connections concurrently.
THEOREM ConnectsExclude == Spec => []SerialConnects
<1>1. IndInv => SerialConnects
  BY DEF IndInv, LockHolder, SerialConnects
<1>2. QED
  BY <1>1, Invariance, PTL

\* Only a cancelled poll can leave a connection behind.
THEOREM ConnectionsOwned == Spec => []ConnectionOwned
<1>1. IndInv => ConnectionOwned
  BY DEF IndInv
<1>2. QED
  BY <1>1, Invariance, PTL
----------------------------------------------------------------------------
(* PlugTransport implements the safety part of CommandService, and a queued *)
(* command is never failed untried.                                        *)
(*                                                                         *)
(* By the inductive invariant the commands without a verdict are           *)
(* consecutive, so their sequence is fixed by its length and by issued.    *)

(* From here on the proofs say where they need it.                         *)
HIDE MaxCmdsAssumption DEF Cmds

\* s consists of a, b and c one after the other.
Joins(s, a, b, c) ==
  /\ Len(s) = Len(a) + Len(b) + Len(c)
  /\ \A i \in 1..Len(a) : s[i] = a[i]
  /\ \A i \in 1..Len(b) : s[Len(a) + i] = b[i]
  /\ \A i \in 1..Len(c) : s[Len(a) + Len(b) + i] = c[i]

\* The length and the elements of the concatenation of three sequences.
LEMMA ThreeParts ==
  ASSUME NEW S, NEW a \in Seq(S), NEW b \in Seq(S), NEW c \in Seq(S)
  PROVE  a \o b \o c \in Seq(S) /\ Joins(a \o b \o c, a, b, c)
<1>1. Len(a) \in Nat /\ Len(b) \in Nat /\ Len(c) \in Nat
  BY LenProperties
<1>2. /\ a \o b \in Seq(S)
      /\ Len(a \o b) = Len(a) + Len(b)
      /\ \A i \in 1..(Len(a) + Len(b)) :
           (a \o b)[i] = IF i <= Len(a) THEN a[i] ELSE b[i - Len(a)]
  BY ConcatProperties
<1> DEFINE ab == a \o b
<1> HIDE DEF ab
<1>3. /\ ab \o c \in Seq(S)
      /\ Len(ab \o c) = Len(ab) + Len(c)
      /\ \A i \in 1..(Len(ab) + Len(c)) :
           (ab \o c)[i] = IF i <= Len(ab) THEN ab[i] ELSE c[i - Len(ab)]
  BY <1>2, ConcatProperties DEF ab
<1>4. \A i \in 1..Len(a) : (ab \o c)[i] = a[i]
  BY <1>1, <1>2, <1>3 DEF ab
<1>5. ASSUME NEW i \in 1..Len(b) PROVE (ab \o c)[Len(a) + i] = b[i]
  <2>1. /\ Len(a) + i \in 1..(Len(a) + Len(b)) /\ ~(Len(a) + i <= Len(a))
        /\ (Len(a) + i) - Len(a) = i
    BY <1>1
  <2>2. ab[Len(a) + i] = b[i]
    BY <1>2, <2>1 DEF ab
  <2>3. Len(a) + i \in 1..(Len(ab) + Len(c)) /\ Len(a) + i <= Len(ab)
    BY <1>1, <1>2, <2>1 DEF ab
  <2>4. QED
    BY <1>3, <2>2, <2>3
<1>6. ASSUME NEW i \in 1..Len(c) PROVE (ab \o c)[Len(a) + Len(b) + i] = c[i]
  <2>1. /\ Len(a) + Len(b) + i \in 1..(Len(ab) + Len(c))
        /\ ~(Len(a) + Len(b) + i <= Len(ab))
        /\ (Len(a) + Len(b) + i) - Len(ab) = i
    BY <1>1, <1>2 DEF ab
  <2>2. QED
    BY <1>3, <2>1
<1>7. QED
  BY <1>2, <1>3, <1>4, <1>5, <1>6 DEF ab, Joins

\* Line holds the youngest Backlog commands in issue order.
LineIsYoungest ==
  /\ Line \in Seq(Cmds)
  /\ Len(Line) = Backlog /\ Backlog \in Nat
  /\ \A i \in 1..Backlog : Line[i] + Backlog = issued + i

LEMMA LineNumbers == TypeOK /\ QueueInv => LineIsYoungest
<1> SUFFICES ASSUME TypeOK, QueueInv PROVE LineIsYoungest
  OBVIOUS
<1> DEFINE front == IF current = 0 THEN <<>> ELSE <<current>>
           n == IF current = 0 THEN 0 ELSE 1
<1>0. /\ issued \in Nat /\ current \in Nat
      /\ Len(msgqueue) \in Nat /\ Len(must_process) \in Nat
  BY CounterTypes
<1>1. msgqueue \in Seq(Cmds) /\ must_process \in Seq(Cmds)
  BY DEF TypeOK
<1>2. front \in Seq(Cmds) /\ Len(front) = n
  <2>1. CASE current = 0
    BY <2>1, EmptySeq
  <2>2. CASE current # 0
    <3>1. current \in Cmds
      BY <2>2, MaxCmdsAssumption DEF TypeOK, Cmds
    <3>2. <<current>> \in Seq(Cmds) /\ Len(<<current>>) = 1
      BY <3>1
    <3>3. QED
      BY <2>2, <3>2
  <2>3. QED
    BY <2>1, <2>2
<1>3. \A i \in 1..n : front[i] = current /\ i = 1 /\ current # 0
  OBVIOUS
<1>4. n \in Nat /\ (current # 0 => n = 1)
  OBVIOUS
<1>5. Backlog = n + Len(must_process) + Len(msgqueue) /\ Backlog \in Nat
  <2>1. CASE current = 0
    BY <1>0, <2>1 DEF Backlog
  <2>2. CASE current # 0
    BY <1>0, <2>2 DEF Backlog
  <2>3. QED
    BY <2>1, <2>2
<1>6. Line = front \o must_process \o msgqueue
  BY DEF Line
<1> HIDE DEF front, n
<1>7. /\ Line \in Seq(Cmds)
      /\ Len(Line) = Backlog
      /\ \A i \in 1..n : Line[i] = front[i]
      /\ \A i \in 1..Len(must_process) : Line[n + i] = must_process[i]
      /\ \A i \in 1..Len(msgqueue) :
           Line[n + Len(must_process) + i] = msgqueue[i]
  <2>1. Line \in Seq(Cmds) /\ Joins(Line, front, must_process, msgqueue)
    BY <1>1, <1>2, <1>6, ThreeParts, Zenon
  <2>2. QED
    BY <1>2, <1>5, <2>1 DEF Joins
<1>8. ASSUME NEW i \in 1..Backlog PROVE Line[i] + Backlog = issued + i
  <2>1. CASE i \in 1..n
    <3>1. Line[i] = current /\ i = 1 /\ current # 0
      BY <1>3, <1>7, <2>1
    <3>2. current + Len(must_process) + Len(msgqueue) = issued /\ n = 1
      BY <1>4, <3>1 DEF QueueInv, QueueNumbers
    <3>3. current + Backlog = issued + 1
      BY <1>0, <1>5, <3>2
    <3>4. QED
      BY <3>1, <3>3
  <2>2. ASSUME NEW k \in 1..Len(must_process), i = n + k
        PROVE  Line[i] + Backlog = issued + i
    <3>1. must_process[k] + Len(must_process) + Len(msgqueue) = issued + k
      BY DEF QueueInv, QueueNumbers
    <3>2. must_process[k] \in Nat /\ k \in Nat
      BY <1>0, QueueTypes, MaxCmdsAssumption DEF Cmds
    <3>3. Line[i] = must_process[k]
      BY <1>7, <2>2
    <3>4. must_process[k] + Backlog = issued + (n + k)
      BY <1>0, <1>4, <1>5, <3>1, <3>2, Z3T(30)
    <3>5. QED
      BY <2>2, <3>3, <3>4
  <2>3. ASSUME NEW k \in 1..Len(msgqueue), i = n + Len(must_process) + k
        PROVE  Line[i] + Backlog = issued + i
    <3>1. msgqueue[k] + Len(msgqueue) = issued + k
      BY DEF QueueInv, QueueNumbers
    <3>2. msgqueue[k] \in Nat /\ k \in Nat
      BY <1>0, QueueTypes, MaxCmdsAssumption DEF Cmds
    <3>3. Line[i] = msgqueue[k]
      BY <1>7, <2>3
    <3>4. msgqueue[k] + Backlog = issued + (n + Len(must_process) + k)
      BY <1>0, <1>4, <1>5, <3>1, <3>2
    <3>5. QED
      BY <2>3, <3>3, <3>4
  <2>4. \/ i \in 1..n
        \/ \E k \in 1..Len(must_process) : i = n + k
        \/ \E k \in 1..Len(msgqueue) : i = n + Len(must_process) + k
    <3>1. CASE i <= n
      BY <1>4, <3>1
    <3>2. CASE i > n /\ i <= n + Len(must_process)
      <4>1. i - n \in 1..Len(must_process) /\ i = n + (i - n)
        BY <1>0, <1>4, <3>2
      <4>2. QED
        BY <4>1
    <3>3. CASE i > n + Len(must_process)
      <4>1. /\ i - (n + Len(must_process)) \in 1..Len(msgqueue)
            /\ i = n + Len(must_process) + (i - (n + Len(must_process)))
        BY <1>0, <1>4, <1>5, <3>3
      <4>2. QED
        BY <4>1
    <3>4. QED
      BY <1>0, <1>4, <3>1, <3>2, <3>3
  <2>5. QED
    BY <2>1, <2>2, <2>3, <2>4
<1>9. QED
  BY <1>5, <1>7, <1>8 DEF LineIsYoungest

\* Two lines of the same length at the same issue count are the same.
LEMMA LineUnchanged ==
  ASSUME LineIsYoungest, LineIsYoungest', issued \in Nat,
         issued' = issued, Backlog' = Backlog
  PROVE  Line' = Line
<1>1. /\ Line \in Seq(Cmds) /\ Len(Line) = Backlog /\ Backlog \in Nat
      /\ \A i \in 1..Backlog : Line[i] + Backlog = issued + i
  BY DEF LineIsYoungest
<1>2. /\ Line' \in Seq(Cmds) /\ Len(Line') = Backlog
      /\ \A i \in 1..Backlog : Line'[i] + Backlog = issued + i
  BY DEF LineIsYoungest
<1>3. ASSUME NEW i \in 1..Backlog PROVE Line'[i] = Line[i]
  <2>1. Line'[i] \in Nat /\ Line[i] \in Nat
    BY <1>1, <1>2, LenProperties, MaxCmdsAssumption DEF Cmds
  <2>2. Line[i] + Backlog = issued + i /\ Line'[i] + Backlog = issued + i
    BY <1>1, <1>2
  <2>3. QED
    BY <1>1, <2>1, <2>2
<1>4. QED
  BY <1>1, <1>2, <1>3, SeqEqual

----------------------------------------------------------------------------
(* Steps of the transport as steps of the service.                         *)

\* Of two sequences of consecutive numbers that end at N, the shorter one is
\* a suffix of the longer, and the numbers it lacks lie between the two.
LEMMA Suffix ==
  ASSUME NEW N \in Nat, NEW n \in Nat, NEW k \in Nat,
         NEW s \in Seq(Cmds), NEW t \in Seq(Cmds),
         Len(s) = n + k, Len(t) = k,
         \A i \in 1..(n + k) : s[i] + (n + k) = N + i,
         \A i \in 1..k : t[i] + k = N + i
  PROVE  /\ t = SubSeq(s, n + 1, n + k)
         /\ \A c \in Cmds : (\E i \in 1..n : s[i] = c)
                              <=> c + (n + k) > N /\ c + k <= N
<1> DEFINE u == SubSeq(s, n + 1, n + k)
<1>1. \A i \in 1..(n + k) : s[i] \in Cmds /\ s[i] \in Nat
  BY LenProperties, MaxCmdsAssumption DEF Cmds
<1>2. ASSUME NEW i \in 1..k PROVE t[i] \in Cmds /\ t[i] \in Nat
  <2>1. i \in 1..Len(t)
    OBVIOUS
  <2>2. t[i] \in Cmds
    BY <2>1, ElementOfSeq
  <2>3. QED
    BY <2>2, MaxCmdsAssumption DEF Cmds
<1>3. u \in Seq(Cmds) /\ Len(u) = k /\ \A i \in 1..k : u[i] = s[n + i]
  <2>1. \A i \in (n + 1)..(n + k) : s[i] \in Cmds
    BY <1>1
  <2>2. n + 1 \in Int /\ n + k \in Int
    OBVIOUS
  <2>3. /\ u \in Seq(Cmds)
        /\ Len(u) = IF n + 1 <= n + k THEN (n + k) - (n + 1) + 1 ELSE 0
        /\ \A i \in 1..((n + k) - (n + 1) + 1) : u[i] = s[(n + 1) + i - 1]
    <3>1. PICK m \in Int, l \in Int : m = n + 1 /\ l = n + k
      BY <2>2
    <3>2. \A i \in m..l : s[i] \in Cmds
      BY <2>1, <3>1
    <3>3. /\ SubSeq(s, m, l) \in Seq(Cmds)
          /\ Len(SubSeq(s, m, l)) = IF m <= l THEN l - m + 1 ELSE 0
          /\ \A i \in 1..(l - m + 1) : SubSeq(s, m, l)[i] = s[m + i - 1]
      BY <3>2, SubSeqProperties
    <3> QED
      BY <3>1, <3>3
  <2> HIDE DEF u
  <2>4. (n + k) - (n + 1) + 1 = k /\ ((n + 1 <= n + k) \/ k = 0)
    OBVIOUS
  <2>5. \A i \in 1..k : (n + 1) + i - 1 = n + i
    OBVIOUS
  <2>6. Len(u) = k
    BY <2>3, <2>4
  <2>7. \A i \in 1..k : u[i] = s[n + i]
    BY <2>3, <2>4, <2>5
  <2>8. QED
    BY <2>3, <2>6, <2>7
<1> HIDE DEF u
<1>4. ASSUME NEW i \in 1..k PROVE t[i] = s[n + i]
  <2>1. n + i \in 1..(n + k)
    OBVIOUS
  <2>2. s[n + i] + (n + k) = N + (n + i) /\ t[i] + k = N + i
    BY <2>1
  <2>3. s[n + i] \in Nat /\ t[i] \in Nat
    BY <1>1, <1>2, <2>1
  <2> DEFINE x == s[n + i]
             y == t[i]
  <2>4. x + (n + k) = N + (n + i) /\ y + k = N + i /\ x \in Nat /\ y \in Nat
    BY <2>2, <2>3
  <2> HIDE DEF x, y
  <2>5. x = y
    BY <2>4
  <2>6. QED
    BY <2>5 DEF x, y
<1>5. t = u
  BY <1>3, <1>4, SeqEqual
<1>6. ASSUME NEW c \in Cmds
      PROVE  (\E i \in 1..n : s[i] = c) <=> c + (n + k) > N /\ c + k <= N
  <2>1. c \in Nat
    BY MaxCmdsAssumption DEF Cmds
  <2>2. ASSUME NEW i \in 1..n, s[i] = c
        PROVE  c + (n + k) > N /\ c + k <= N
    <3>1. i \in 1..(n + k)
      OBVIOUS
    <3>2. c + (n + k) = N + i
      BY <2>2, <3>1
    <3>3. QED
      BY <2>1, <3>2
  <2>3. ASSUME c + (n + k) > N, c + k <= N
        PROVE  \E i \in 1..n : s[i] = c
    <3> DEFINE i == c + (n + k) - N
    <3>1. i \in 1..n /\ i \in 1..(n + k) /\ c + (n + k) = N + i
      BY <2>1, <2>3
    <3> HIDE DEF i
    <3>2. s[i] + (n + k) = N + i /\ s[i] \in Nat
      BY <1>1, <3>1
    <3> DEFINE x == s[i]
    <3>3. x + (n + k) = N + i /\ x \in Nat
      BY <3>2
    <3> HIDE DEF x
    <3>4. x = c
      BY <2>1, <3>1, <3>3
    <3>5. QED
      BY <3>1, <3>4 DEF x
  <2>4. QED
    BY <2>2, <2>3
<1>7. QED
  BY <1>5, <1>6 DEF u

\* Failing the commands that leave the backlog is the service giving up on
\* the oldest ones.
LEMMA GivesUp ==
  ASSUME LineIsYoungest, LineIsYoungest', issued \in Nat,
         issued' = issued, caller' = caller,
         NEW n \in Nat \ {0}, Backlog = n + Backlog',
         fut' = [c \in Cmds |->
                   IF c + Backlog > issued /\ c + Backlog' <= issued
                   THEN "false" ELSE fut[c]]
  PROVE  Service!Resolve
<1>1. /\ Line \in Seq(Cmds) /\ Len(Line) = n + Backlog' /\ Backlog' \in Nat
      /\ \A i \in 1..(n + Backlog') : Line[i] + (n + Backlog') = issued + i
  BY DEF LineIsYoungest
<1>2. /\ Line' \in Seq(Cmds) /\ Len(Line') = Backlog'
      /\ \A i \in 1..Backlog' : Line'[i] + Backlog' = issued + i
  BY DEF LineIsYoungest
<1>3. /\ Line' = SubSeq(Line, n + 1, n + Backlog')
      /\ \A c \in Cmds : (\E i \in 1..n : Line[i] = c)
                           <=> c + (n + Backlog') > issued
                                 /\ c + Backlog' <= issued
  BY <1>1, <1>2, Suffix
<1>4. Line' = SubSeq(Line, n + 1, Len(Line))
  BY <1>1, <1>3
<1>5. fut' = [c \in Cmds |-> IF \E i \in 1..n : Line[i] = c
                             THEN "false" ELSE fut[c]]
  BY <1>3, Zenon
<1>6. Service!GiveUpOn(n)
  BY <1>4, <1>5 DEF Service!GiveUpOn, Service!Cmds, Cmds
<1> DEFINE l == Len(Line)
           b == Backlog'
<1>7. n \in 1..l
  <2>1. l = n + b /\ b \in Nat
    BY <1>1
  <2> HIDE DEF l, b
  <2>2. QED
    BY <2>1
<1>8. QED
  BY <1>6, <1>7 DEF Service!Resolve

\* The sequence of consecutive numbers that ends one later and is one longer
\* has the next number appended.
LEMMA NextAppended ==
  ASSUME NEW N \in Nat, NEW k \in Nat, N + 1 \in Cmds,
         NEW s \in Seq(Cmds), NEW t \in Seq(Cmds),
         Len(s) = k, Len(t) = k + 1,
         \A i \in 1..k : s[i] + k = N + i,
         \A i \in 1..(k + 1) : t[i] + (k + 1) = (N + 1) + i
  PROVE  t = Append(s, N + 1)
<1> DEFINE u == Append(s, N + 1)
<1>1. /\ u \in Seq(Cmds) /\ Len(u) = k + 1 /\ u[k + 1] = N + 1
      /\ \A i \in 1..k : u[i] = s[i]
  BY AppendProperties
<1> HIDE DEF u
<1>2. ASSUME NEW i \in 1..(k + 1) PROVE t[i] = u[i]
  <2>1. t[i] \in Nat /\ t[i] + (k + 1) = (N + 1) + i
    BY ElementOfSeq, MaxCmdsAssumption DEF Cmds
  <2> DEFINE x == t[i]
             y == s[i]
  <2>2. x \in Nat /\ x + (k + 1) = (N + 1) + i
    BY <2>1
  <2>3. CASE i \in 1..k
    <3>0. y \in Cmds /\ y + k = N + i /\ u[i] = y
      BY <1>1, <2>3, ElementOfSeq
    <3> HIDE DEF x, y
    <3>1. y \in Nat /\ y + k = N + i /\ u[i] = y
      BY <3>0, MaxCmdsAssumption DEF Cmds
    <3>2. x = y
      BY <2>2, <3>1
    <3>3. QED
      BY <3>1, <3>2 DEF x
  <2>4. CASE i = k + 1
    <3> HIDE DEF x
    <3>1. x = N + 1
      BY <2>2, <2>4
    <3>2. QED
      BY <1>1, <2>4, <3>1 DEF x
  <2>5. QED
    BY <2>3, <2>4
<1>3. t = u
  BY <1>1, <1>2, SeqEqual
<1>4. QED
  BY <1>3 DEF u

\* Issuing a command is the service issuing it.
LEMMA Issues ==
  ASSUME LineIsYoungest, LineIsYoungest', TypeOK, Send, Backlog' = Backlog + 1
  PROVE  Service!Issue
<1>1. /\ issued < MaxCmds /\ issued' = issued + 1 /\ fut' = fut
      /\ caller' = [caller EXCEPT ![issued + 1] = "waiting"]
  BY DEF Send
<1>2. issued \in Nat /\ issued + 1 \in Cmds
  BY <1>1, MaxCmdsAssumption DEF TypeOK, Cmds
<1>3. /\ Line \in Seq(Cmds) /\ Len(Line) = Backlog /\ Backlog \in Nat
      /\ \A i \in 1..Backlog : Line[i] + Backlog = issued + i
  BY DEF LineIsYoungest
<1>4. /\ Line' \in Seq(Cmds) /\ Len(Line') = Backlog + 1
      /\ \A i \in 1..(Backlog + 1) :
           Line'[i] + (Backlog + 1) = (issued + 1) + i
  BY <1>1 DEF LineIsYoungest
<1>5. Line' = Append(Line, issued + 1)
  BY <1>2, <1>3, <1>4, NextAppended
<1>6. QED
  BY <1>1, <1>5 DEF Service!Issue

\* A verdict on the current command is the service's verdict on the oldest.
LEMMA Acknowledges ==
  ASSUME LineIsYoungest, LineIsYoungest', TypeOK, QueueInv, TaskAck
  PROVE  Service!Resolve
<1>1. /\ task = "acking" /\ current' = 0
      /\ UNCHANGED <<issued, caller, msgqueue, must_process>>
  BY DEF TaskAck, sendVars
<1>2. PICK ack \in {"true", "false"} : fut' = [fut EXCEPT ![current] = ack]
  BY DEF TaskAck
<1>3. current # 0 /\ current \in Cmds
  BY <1>1, MaxCmdsAssumption DEF TypeOK, QueueInv, TaskHolds, Cmds
<1>4. issued \in Nat /\ current \in Nat
      /\ Len(msgqueue) \in Nat /\ Len(must_process) \in Nat
  BY CounterTypes
<1>5. Backlog = 1 + Backlog' /\ Backlog' \in Nat
  BY <1>1, <1>3, <1>4 DEF Backlog
<1>6. /\ Line \in Seq(Cmds) /\ Len(Line) = 1 + Backlog'
      /\ \A i \in 1..(1 + Backlog') : Line[i] + (1 + Backlog') = issued + i
  BY <1>5 DEF LineIsYoungest
<1>7. /\ Line' \in Seq(Cmds) /\ Len(Line') = Backlog'
      /\ \A i \in 1..Backlog' : Line'[i] + Backlog' = issued + i
  BY <1>1 DEF LineIsYoungest
<1>8. /\ Line' = SubSeq(Line, 1 + 1, 1 + Backlog')
      /\ \A c \in Cmds : (\E i \in 1..1 : Line[i] = c)
                           <=> c + (1 + Backlog') > issued
                                 /\ c + Backlog' <= issued
  BY <1>4, <1>5, <1>6, <1>7, Suffix
<1>9. Line # <<>> /\ Head(Line) = Line[1]
  BY <1>5, <1>6, EmptySeq
<1>10. Line' = Tail(Line) /\ Line' = SubSeq(Line, 1 + 1, Len(Line))
  BY <1>6, <1>8, <1>9, TailIsSubSeq
<1>11. current + Backlog' = issued
  BY <1>1, <1>3, <1>4 DEF QueueInv, QueueNumbers, Backlog
<1>12. current = Line[1]
  <2> DEFINE b == Backlog'
  <2>0. b \in Nat /\ current + b = issued
    BY <1>5, <1>11
  <2> HIDE DEF b
  <2>1. current + (1 + b) > issued /\ current + b <= issued
    BY <1>4, <2>0
  <2>2. \E i \in 1..1 : Line[i] = current
    BY <1>3, <1>8, <2>1 DEF b
  <2>3. QED
    BY <2>2
<1>13. CASE ack = "true"
  BY <1>1, <1>2, <1>9, <1>10, <1>12, <1>13
  DEF Service!Resolve, Service!Acknowledge
<1>14. CASE ack = "false"
  <2>1. fut' = [c \in Cmds |-> IF \E i \in 1..1 : Line[i] = c
                               THEN "false" ELSE fut[c]]
    <3>1. \A c \in Cmds : (\E i \in 1..1 : Line[i] = c) <=> c = current
      BY <1>12
    <3>2. fut' = [c \in Cmds |-> IF c = current THEN "false" ELSE fut[c]]
      BY <1>2, <1>14 DEF TypeOK
    <3>3. QED
      BY <3>1, <3>2, Zenon
  <2>2. Service!GiveUpOn(1)
    BY <1>1, <1>10, <2>1 DEF Service!GiveUpOn, Service!Cmds, Cmds
  <2> DEFINE l == Len(Line)
             b == Backlog'
  <2>3. 1 \in 1..l
    <3>1. l = 1 + b /\ b \in Nat
      BY <1>5, <1>6
    <3> HIDE DEF l, b
    <3>2. QED
      BY <3>1
  <2>4. QED
    BY <2>2, <2>3 DEF Service!Resolve
<1>15. QED
  BY <1>13, <1>14

\* A failure of the task's commands is the service giving up on them, or
\* nothing to it if the task held none.
LEMMA Fails ==
  ASSUME LineIsYoungest, LineIsYoungest', TypeOK, QueueInv,
         fut' = [c \in Cmds |-> IF c = current \/ InMustProcess(c)
                                 THEN "false" ELSE fut[c]],
         must_process' = <<>>, current' = 0,
         UNCHANGED <<issued, msgqueue, caller>>
  PROVE  Service!Resolve \/ UNCHANGED Service!vars
<1> DEFINE n == Len(must_process) + (IF current = 0 THEN 0 ELSE 1)
<1>1. /\ issued \in Nat /\ current \in Nat
      /\ Len(msgqueue) \in Nat /\ Len(must_process) \in Nat
  BY CounterTypes
<1>2. Len(<<>>) = 0
  OBVIOUS
<1>3. Backlog' = Len(msgqueue) /\ Backlog = n + Backlog' /\ n \in Nat
  BY <1>1, <1>2 DEF Backlog
<1>4. ASSUME NEW c \in Cmds
      PROVE  c = current \/ InMustProcess(c)
               <=> c + Backlog > issued /\ c + Backlog' <= issued
  <2>1. InMustProcess(c) <=>
          /\ c + Len(must_process) + Len(msgqueue) > issued
          /\ c + Len(msgqueue) <= issued
    BY MustProcessNumbers DEF QueueInv
  <2>2. current # 0 => current + Len(must_process) + Len(msgqueue) = issued
    BY DEF QueueInv, QueueNumbers
  <2>3. c \in Nat /\ c # 0
    BY MaxCmdsAssumption DEF Cmds
  <2>4. Backlog = Len(must_process) + Len(msgqueue)
                    + (IF current = 0 THEN 0 ELSE 1)
    BY <1>1 DEF Backlog
  <2>5. CASE current = 0
    <3>1. Backlog = Len(must_process) + Len(msgqueue)
      BY <1>1, <2>4, <2>5
    <3>2. QED
      BY <1>1, <1>3, <2>1, <2>3, <2>5, <3>1
  <2>6. CASE current # 0
    <3>1. Backlog = Len(must_process) + Len(msgqueue) + 1
      BY <1>1, <2>4, <2>6
    <3>2. QED
      BY <1>1, <1>3, <2>1, <2>2, <2>3, <2>6, <3>1
  <2>7. QED
    BY <2>5, <2>6
<1>5. fut' = [c \in Cmds |->
                IF c + Backlog > issued /\ c + Backlog' <= issued
                THEN "false" ELSE fut[c]]
  BY <1>4, Zenon
<1>6. CASE n = 0
  <2>1. Backlog' = Backlog /\ Backlog \in Nat
    BY <1>1, <1>3, <1>6
  <2>2. ASSUME NEW c \in Cmds PROVE fut'[c] = fut[c]
    <3>1. c \in Nat
      BY MaxCmdsAssumption DEF Cmds
    <3>2. ~(c + Backlog > issued /\ c + Backlog' <= issued)
      BY <1>1, <2>1, <3>1
    <3>3. QED
      BY <1>5, <3>2
  <2>3. fut' = fut
    BY <1>5, <2>2 DEF TypeOK
  <2>4. Line' = Line
    BY <1>1, <2>1, LineUnchanged
  <2>5. QED
    BY <2>3, <2>4 DEF Service!vars
<1>7. CASE n # 0
  <2> HIDE DEF n
  <2>1. n \in Nat \ {0}
    BY <1>3, <1>7
  <2>2. Service!Resolve
    BY <1>1, <1>3, <1>5, <2>1, GivesUp
  <2>3. QED
    BY <2>2
<1>8. QED
  BY <1>6, <1>7

\* A step that changes neither the commands, the verdicts, the callers nor the
\* length of the backlog is invisible to the service.
LEMMA Invisible ==
  ASSUME LineIsYoungest, LineIsYoungest', TypeOK,
         UNCHANGED <<issued, fut, caller>>, Backlog' = Backlog
  PROVE  UNCHANGED Service!vars
<1>1. issued \in Nat
  BY CounterTypes
<1>2. Line' = Line
  BY <1>1, LineUnchanged
<1>3. QED
  BY <1>2 DEF Service!vars

\* Draining and taking commands move them within the backlog.
LEMMA Moves ==
  ASSUME TypeOK, QueueInv, TaskDrain \/ TaskTake
  PROVE  UNCHANGED <<issued, fut, caller>> /\ Backlog' = Backlog
<1>0. /\ issued \in Nat /\ current \in Nat
      /\ Len(msgqueue) \in Nat /\ Len(must_process) \in Nat
  BY CounterTypes
<1>1. UNCHANGED <<issued, fut, caller>>
  BY DEF TaskDrain, TaskTake, sendVars
<1>2. current = 0
  BY DEF TaskDrain, TaskTake, QueueInv, TaskHolds
<1>3. Len(<<>>) = 0
  OBVIOUS
<1>4. CASE TaskDrain
  <2>1. must_process = <<>> /\ must_process' = msgqueue /\ msgqueue' = <<>>
        /\ current' = current
    BY <1>4 DEF TaskDrain, QueueInv, TaskHolds
  <2>2. QED
    BY <1>0, <1>1, <1>2, <1>3, <2>1 DEF Backlog
<1>5. CASE TaskTake /\ must_process # <<>>
  <2>1. /\ current' = Head(must_process) /\ msgqueue' = msgqueue
        /\ must_process' = Tail(must_process)
    BY <1>5 DEF TaskTake
  <2>2. /\ current' \in Cmds
        /\ Len(must_process') = Len(must_process) - 1
    BY <1>5, <2>1, HeadTailProperties DEF TypeOK
  <2>3. current' # 0
    BY <2>2, MaxCmdsAssumption DEF Cmds
  <2>4. QED
    BY <1>0, <1>1, <1>2, <2>1, <2>2, <2>3 DEF Backlog
<1>6. CASE TaskTake /\ must_process = <<>>
  <2>1. /\ current' = Head(msgqueue) /\ must_process' = must_process
        /\ msgqueue' = Tail(msgqueue) /\ msgqueue # <<>>
    BY <1>6 DEF TaskTake
  <2>2. /\ current' \in Cmds
        /\ Len(msgqueue') = Len(msgqueue) - 1
    BY <2>1, HeadTailProperties DEF TypeOK
  <2>3. current' # 0
    BY <2>2, MaxCmdsAssumption DEF Cmds
  <2>4. QED
    BY <1>0, <1>1, <1>2, <2>1, <2>2, <2>3 DEF Backlog
<1>7. QED
  BY <1>4, <1>5, <1>6

\* Every step of the transport is a step of the service or leaves it alone.
LEMMA StepSimulates ==
  LineIsYoungest /\ LineIsYoungest' /\ TypeOK /\ QueueInv /\ [Next]_vars
    => [Service!Next]_Service!vars
<1> SUFFICES ASSUME LineIsYoungest, LineIsYoungest', TypeOK, QueueInv,
                    [Next]_vars
             PROVE  [Service!Next]_Service!vars
  OBVIOUS
<1> USE DEF sendVars, pollVars, taskVars, lockVars
<1>0. /\ issued \in Nat /\ current \in Nat
      /\ Len(msgqueue) \in Nat /\ Len(must_process) \in Nat
  BY CounterTypes
<1>1. CASE Send
  <2>1. /\ current' = current /\ must_process' = must_process
        /\ Len(msgqueue') = Len(msgqueue) + 1
    BY <1>1, AppendProperties, MaxCmdsAssumption DEF Send, TypeOK, Cmds
  <2>2. Backlog' = Backlog + 1
    BY <1>0, <2>1 DEF Backlog
  <2>3. QED
    BY <1>1, <2>2, Issues DEF Service!Next
<1>2. ASSUME NEW c \in Cmds, CallerReturn(c)
      PROVE  [Service!Next]_Service!vars
  <2>1. Line' = Line
    BY <1>2 DEF CallerReturn, Line
  <2>2. Service!Tell(c)
    BY <1>2, <2>1 DEF CallerReturn, Service!Tell
  <2>3. QED
    BY <2>2 DEF Service!Next, Service!Cmds, Cmds
<1>3. ASSUME NEW c \in Cmds, CallerTimeout(c) \/ CallerCancel(c)
      PROVE  [Service!Next]_Service!vars
  <2>1. Line' = Line
    BY <1>3 DEF CallerTimeout, CallerCancel, Line
  <2>2. Service!Leave(c)
    BY <1>3, <2>1 DEF CallerTimeout, CallerCancel, Service!Leave
  <2>3. QED
    BY <2>2 DEF Service!Next, Service!Cmds, Cmds
<1>4. CASE TaskAck
  BY <1>4, Acknowledges DEF Service!Next
<1>5. CASE TaskConnectFail \/ TaskSetupFail
  <2>1. /\ task \in {"connecting", "session", "auth"}
        /\ FailAll(InMustProcess)
        /\ must_process' = <<>>
        /\ UNCHANGED <<issued, msgqueue, current, caller>>
    BY <1>5 DEF TaskConnectFail, TaskSetupFail
  <2>2. current = 0 /\ current' = 0
    BY <2>1 DEF QueueInv, TaskHolds
  <2>3. fut' = [c \in Cmds |-> IF c = current \/ InMustProcess(c)
                                THEN "false" ELSE fut[c]]
    BY <2>1, <2>2, MaxCmdsAssumption DEF FailAll, Cmds
  <2>4. QED
    BY <2>1, <2>2, <2>3, Fails DEF Service!Next
<1>6. CASE TaskWriteFail
  <2>1. /\ fut' = [c \in Cmds |-> IF c = current \/ InMustProcess(c)
                                  THEN "false" ELSE fut[c]]
        /\ must_process' = <<>> /\ current' = 0
        /\ UNCHANGED <<issued, msgqueue, caller>>
    BY <1>6 DEF TaskWriteFail, FailAll
  <2>2. QED
    BY <2>1, Fails DEF Service!Next
<1>7. CASE TaskDrain \/ TaskTake
  BY <1>7, Moves, Invisible
<1>8. CASE \/ TaskAcquire \/ TaskConnectOk \/ TaskSession \/ TaskAuthOk
           \/ TaskIdle \/ TaskIdleTimeout \/ TaskWriteOk
           \/ TaskTeardown \/ TaskDone
           \/ CooldownEnds \/ PollStart \/ PollStep \/ PollCancel \/ LinkLost
           \/ Quiescent \/ UNCHANGED vars
  <2>1. UNCHANGED <<issued, msgqueue, must_process, current, fut, caller>>
    BY <1>8 DEF TaskAcquire, TaskConnectOk, TaskSession, TaskAuthOk, TaskIdle,
                TaskIdleTimeout, TaskWriteOk, TaskTeardown, TaskDone,
                CooldownEnds, PollStart, PollStep, PollAcquire, PollConnectOk,
                PollConnectFail, PollAdvance, PollFail, PollTeardown,
                PollCancel, LinkLost, Quiescent, vars
  <2>2. Line' = Line
    BY <2>1 DEF Line
  <2>3. QED
    BY <2>1, <2>2 DEF Service!vars
<1>9. QED
  BY <1>1, <1>2, <1>3, <1>4, <1>5, <1>6, <1>7, <1>8
  DEF Next, CallerStep, TaskStep

----------------------------------------------------------------------------
(* Theorems.                                                               *)

\* The transport implements the safety part of the service: its steps are the
\* service's, or invisible to it, whatever the interleaving of callers,
\* message tasks and the poll.
THEOREM ImplementsServiceSafety == Spec => Service!Safety
<1>1. Init => Service!Init
  BY EmptySeq DEF Init, Service!Init, Line, Service!Cmds, Cmds
<1>2. IndInv => TypeOK /\ QueueInv /\ LineIsYoungest
  BY LineNumbers DEF IndInv, QueueInv
<1>3. IndInv /\ IndInv' /\ [Next]_vars => [Service!Next]_Service!vars
  <2>1. IndInv' => LineIsYoungest'
    BY <1>2, PTL
  <2>2. QED
    BY <1>2, <2>1, StepSimulates
<1>4. QED
  BY <1>1, <1>3, Invariance, PTL DEF Spec, Service!Safety

\* The futures still pending are those of the commands still queued, and no
\* queued command is already resolved.
THEOREM PendingAreQueued == Spec => []BacklogIsPending
<1>1. IndInv => BacklogIsPending
  <2> SUFFICES ASSUME IndInv PROVE BacklogIsPending
    OBVIOUS
  <2>1. LineIsYoungest
    BY LineNumbers DEF IndInv, QueueInv
  <2>2. QED
    BY <2>1 DEF LineIsYoungest, BacklogIsPending, IndInv, PendingIsBacklog
<1>2. QED
  BY <1>1, Invariance, PTL

\* No step fails a command that is still queued: only the message task that
\* took a command gives up on it.
THEOREM QueuedIsTried == Spec => QueuedGetsItsTry
<1>1. IndInv /\ IndInv' /\ [Next]_vars
        => [\A c \in Cmds : (\E i \in 1..Len(msgqueue) : msgqueue[i] = c)
                              => fut'[c] = "pending"]_vars
  <2> SUFFICES ASSUME IndInv, IndInv', [Next]_vars,
                      NEW c \in Cmds, NEW i \in 1..Len(msgqueue),
                      msgqueue[i] = c, vars' # vars
               PROVE  fut'[c] = "pending"
    BY DEF vars
  <2>1. TypeOK /\ QueueInv /\ LineIsYoungest /\ TypeOK' /\ QueueInv'
    BY LineNumbers DEF IndInv, QueueInv
  <2>0. /\ issued \in Nat /\ current \in Nat /\ c \in Nat /\ c # 0
        /\ Len(msgqueue) \in Nat /\ Len(must_process) \in Nat
    BY <2>1, CounterTypes, MaxCmdsAssumption DEF Cmds
  <2>2. c + Len(msgqueue) > issued
    <3>1. msgqueue[i] + Len(msgqueue) = issued + i /\ i \in Nat /\ i > 0
      BY <2>0, <2>1 DEF QueueInv, QueueNumbers
    <3>2. c + Len(msgqueue) = issued + i
      BY <3>1
    <3>3. QED
      BY <2>0, <3>1, <3>2
  <2>3. fut[c] = "pending"
    <3>1. c + Backlog > issued
      BY <2>0, <2>2 DEF Backlog
    <3>2. QED
      BY <2>1, <3>1 DEF QueueInv, PendingIsBacklog
  <2>4. ~InMustProcess(c)
    BY <2>0, <2>1, <2>2, MustProcessNumbers DEF QueueInv
  <2>5. c # current
    <3>1. ASSUME current # 0 PROVE current + Len(msgqueue) <= issued
      <4>1. current + Len(must_process) + Len(msgqueue) = issued
        BY <2>1, <3>1 DEF QueueInv, QueueNumbers
      <4>2. QED
        BY <2>0, <4>1
    <3>2. QED
      BY <2>0, <2>2, <3>1
  <2> USE DEF sendVars, pollVars, taskVars, lockVars
  <2>6. CASE \/ TaskConnectFail \/ TaskSetupFail \/ TaskWriteFail
    <3>1. fut'[c] = fut[c]
      BY <2>4, <2>5, <2>6
      DEF TaskConnectFail, TaskSetupFail, TaskWriteFail, FailAll
    <3>2. QED
      BY <2>3, <3>1
  <2>7. CASE TaskAck
    <3>1. PICK ack \in {"true", "false"} :
                 fut' = [fut EXCEPT ![current] = ack]
      BY <2>7 DEF TaskAck
    <3>2. fut'[c] = fut[c]
      BY <2>1, <2>5, <3>1 DEF TypeOK
    <3>3. QED
      BY <2>3, <3>2
  <2>8. CASE \/ Send \/ TaskDrain \/ TaskTake
             \/ \E d \in Cmds : \/ CallerReturn(d)
                                \/ CallerTimeout(d) \/ CallerCancel(d)
             \/ TaskAcquire \/ TaskConnectOk \/ TaskSession \/ TaskAuthOk
             \/ TaskIdle \/ TaskIdleTimeout \/ TaskWriteOk
             \/ TaskTeardown \/ TaskDone
             \/ CooldownEnds \/ PollStart \/ PollStep \/ PollCancel
             \/ LinkLost \/ Quiescent \/ UNCHANGED vars
    <3>1. fut' = fut
      BY <2>8
      DEF Send, TaskDrain, TaskTake, CallerReturn, CallerTimeout,
          CallerCancel, TaskAcquire, TaskConnectOk, TaskSession, TaskAuthOk,
          TaskIdle, TaskIdleTimeout, TaskWriteOk, TaskTeardown, TaskDone,
          CooldownEnds, PollStart, PollStep, PollAcquire, PollConnectOk,
          PollConnectFail, PollAdvance, PollFail, PollTeardown, PollCancel,
          LinkLost, Quiescent, vars
    <3>2. QED
      BY <2>3, <3>1
  <2>9. QED
    BY <2>6, <2>7, <2>8 DEF Next, CallerStep, TaskStep
<1>2. QED
  BY <1>1, Invariance, PTL DEF Spec, QueuedGetsItsTry
==============================================================================
