-------------------------- MODULE LightTransportProofs --------------------------
(***************************************************************************)
(* Proofs about LightTransport for every number of commands and of         *)
(* attempts: its type invariant, the order and number of its writes, and   *)
(* the safety part of the service it implements.                           *)
(***************************************************************************)
EXTENDS LightTransport, SequenceTheorems, TLAPS

(* Every proof knows that the commands are numbers.                        *)
USE MaxCmdsAssumption, AttemptsAssumption DEF Cmds

----------------------------------------------------------------------------
(* The inductive invariant.                                                *)

\* The message task has a command in hand exactly from taking it to its verdict.
TaskHolds ==
  /\ current # 0 <=> task \in {"ensure", "lock", "connecting", "writing"}
  /\ current # 0 => attempt \in 1..MAX_COMMAND_ATTEMPTS

\* The command in hand and the queued ones are the youngest, one after the other.
QueueNumbers ==
  /\ Len(msgqueue) <= issued
  /\ \A i \in 1..Len(msgqueue) : msgqueue[i] + Len(msgqueue) = issued + i
  /\ current # 0 => current + Len(msgqueue) = issued

\* Nothing queued has been written, and the command in hand only by its earlier
\* attempts, after everything else.
WrittenInTurn ==
  /\ \A i \in 1..Len(wire) : wire[i] + Len(msgqueue) <= issued
  /\ \A i \in 1..Len(wire) : wire[i] = current => Len(wire) + 1 < i + attempt

IndInv == TypeOK /\ TaskHolds /\ QueueNumbers /\ WrittenInTurn /\ WireOrder

\* The lengths of the queue and of the wire and their elements are numbers.
LEMMA Numbers ==
  ASSUME TypeOK
  PROVE  /\ issued \in Nat /\ current \in Nat /\ attempt \in Nat
         /\ Len(msgqueue) \in Nat /\ Len(wire) \in Nat
         /\ \A i \in 1..Len(msgqueue) : msgqueue[i] \in Cmds
         /\ \A i \in 1..Len(wire) : wire[i] \in Cmds
  BY LenProperties DEF TypeOK

----------------------------------------------------------------------------
(* Types.                                                                  *)

\* Init gives every variable a value of its type.
LEMMA TypeInit == Init => TypeOK
  BY EmptySeq DEF Init, TypeOK, Sides

\* A failed attempt keeps the types of what it may change.
LEMMA TypeAttempt ==
  ASSUME TypeOK, TaskHolds, current # 0, AttemptFailed
  PROVE  /\ current' \in 0..MaxCmds
         /\ attempt' \in 0..MAX_COMMAND_ATTEMPTS
         /\ verdict' \in [Cmds -> {"pending", "true", "false"}]
         /\ task' \in {"ensure", "serve"}
<1>1. current \in Cmds /\ attempt \in 1..MAX_COMMAND_ATTEMPTS
  BY DEF TypeOK, TaskHolds
<1>2. CASE attempt < MAX_COMMAND_ATTEMPTS
  BY <1>1, <1>2 DEF AttemptFailed, TypeOK
<1>3. CASE ~(attempt < MAX_COMMAND_ATTEMPTS)
  BY <1>1, <1>3 DEF AttemptFailed, TypeOK
<1>4. QED
  BY <1>2, <1>3

\* Every step keeps the type of every variable.
LEMMA TypeStep == TypeOK /\ TaskHolds /\ [Next]_vars => TypeOK'
<1> USE DEF TypeOK, vars, callVars, deliverVars, linkVars, lockVars, Sides
<1> SUFFICES ASSUME TypeOK, TaskHolds, [Next]_vars PROVE TypeOK'
  OBVIOUS
<1>1. CASE Send
  BY <1>1, AppendProperties DEF Send
<1>2. ASSUME NEW c \in Cmds, CallerReturn(c) \/ CallerCancel(c) PROVE TypeOK'
  <2>1. CASE CallerReturn(c)
    BY <2>1 DEF CallerReturn
  <2>2. CASE CallerCancel(c)
    BY <2>2 DEF CallerCancel
  <2> QED
    BY <1>2, <2>1, <2>2
<1>3. CASE Take
  <2>1. Head(msgqueue) \in Cmds /\ Tail(msgqueue) \in Seq(Cmds)
    BY <1>3, HeadTailProperties DEF Take
  <2>2. QED
    BY <1>3, <2>1 DEF Take
<1>4. CASE Idle \/ IdleTimeout \/ EnsureOpen \/ Teardown \/ TaskDone \/ LinkLost
  BY <1>4 DEF Idle, IdleTimeout, EnsureOpen, Teardown, TaskDone, LinkLost
<1>5. CASE EnsureNew
  BY <1>5, AppendProperties DEF EnsureNew, Enqueue
<1>6. CASE TaskAcquire
  BY <1>6, HeadTailProperties DEF TaskAcquire, Acquire
<1>7. CASE ConnectOk
  BY <1>7 DEF ConnectOk, Release
<1>8. CASE ConnectFail
  <2>1. current # 0
    BY <1>8 DEF ConnectFail, TaskHolds
  <2>2. QED
    BY <1>8, <2>1, TypeAttempt DEF ConnectFail, Release
<1>9. CASE WriteOk
  <2>1. current \in Cmds
    BY <1>9 DEF WriteOk, TaskHolds
  <2>2. QED
    BY <1>9, <2>1, AppendProperties DEF WriteOk
<1>10. CASE WriteFail
  <2>1. current # 0 /\ current \in Cmds
    BY <1>10 DEF WriteFail, TaskHolds
  <2>2. wire' \in Seq(Cmds)
    <3>1. Append(wire, current) \in Seq(Cmds)
      BY <2>1, AppendProperties
    <3>2. QED
      BY <1>10, <3>1 DEF WriteFail
  <2>3. leaked' \in Nat /\ client' \in {"none", "open", "lost"}
    BY <1>10 DEF WriteFail
  <2>4. QED
    BY <1>10, <2>1, <2>2, <2>3, TypeAttempt DEF WriteFail
<1>11. ASSUME NEW s \in Sides, SideStart(s) PROVE TypeOK'
  BY <1>11, AppendProperties DEF SideStart, Enqueue
<1>12. ASSUME NEW s \in Sides, SideAcquire(s) PROVE TypeOK'
  BY <1>12, HeadTailProperties DEF SideAcquire, Acquire
<1>13. ASSUME NEW s \in Sides, SideConnects(s) PROVE TypeOK'
  BY <1>13 DEF SideConnects, Release
<1>14. ASSUME NEW s \in Sides, SideEnds(s) PROVE TypeOK'
  BY <1>14 DEF SideEnds
<1>15. CASE UNCHANGED vars
  BY <1>15
<1> QED
  BY <1>1, <1>2, <1>3, <1>4, <1>5, <1>6, <1>7, <1>8, <1>9, <1>10, <1>11,
     <1>12, <1>13, <1>14, <1>15
  DEF Next, CallerStep, TaskStep, SideStep

----------------------------------------------------------------------------
(* The queue and the command in hand.                                      *)

\* Issuing a command appends the next number to the queue.
LEMMA SendNumbers ==
  ASSUME IndInv, Send
  PROVE  QueueNumbers' /\ TaskHolds' /\ WrittenInTurn' /\ WireOrder'
<1> DEFINE n == Len(msgqueue)
<1>1. /\ issued \in Nat /\ current \in Nat /\ n \in Nat
      /\ Len(wire) \in Nat /\ attempt \in Nat
  BY Numbers DEF IndInv
<1>2. /\ issued' = issued + 1 /\ issued + 1 \in Cmds
      /\ UNCHANGED <<current, attempt, wire>>
  BY <1>1 DEF Send, deliverVars, IndInv, TypeOK
<1>3. /\ Len(msgqueue') = n + 1
      /\ \A i \in 1..n : msgqueue'[i] = msgqueue[i]
      /\ msgqueue'[n + 1] = issued + 1
  <2>1. msgqueue' = Append(msgqueue, issued + 1)
    BY DEF Send
  <2>2. QED
    BY <1>2, <2>1, AppendProperties DEF IndInv, TypeOK
<1>4. TaskHolds'
  BY <1>2 DEF IndInv, TaskHolds, Send, deliverVars
<1>5. QueueNumbers'
  <2>1. ASSUME NEW i \in 1..(n + 1)
        PROVE  msgqueue'[i] + (n + 1) = (issued + 1) + i
    <3>1. CASE i \in 1..n
      <4>1. msgqueue[i] \in Nat /\ msgqueue[i] + n = issued + i
        BY <3>1, Numbers DEF IndInv, QueueNumbers
      <4>2. msgqueue'[i] = msgqueue[i]
        BY <1>3, <3>1
      <4> HIDE DEF n
      <4>3. QED
        BY <1>1, <4>1, <4>2
    <3>2. CASE i = n + 1
      BY <1>1, <1>3, <3>2
    <3>3. QED
      BY <1>1, <3>1, <3>2
  <2>2. n + 1 <= issued + 1 /\ (current # 0 => current + (n + 1) = issued + 1)
    BY <1>1 DEF IndInv, QueueNumbers
  <2>3. QED
    BY <1>2, <1>3, <2>1, <2>2 DEF QueueNumbers
<1>6. WrittenInTurn'
  <2>1. ASSUME NEW i \in 1..Len(wire)
        PROVE  wire[i] + (n + 1) <= issued + 1
    <3>1. wire[i] \in Nat /\ wire[i] + n <= issued
      BY Numbers DEF IndInv, WrittenInTurn
    <3> HIDE DEF n
    <3>2. QED
      BY <1>1, <3>1
  <2>2. QED
    BY <1>2, <1>3, <2>1 DEF IndInv, WrittenInTurn
<1>7. WireOrder'
  BY <1>2 DEF IndInv, WireOrder
<1>8. QED
  BY <1>4, <1>5, <1>6, <1>7

\* The task takes the oldest command, which has not been written yet.
LEMMA TakeNumbers ==
  ASSUME IndInv, Take
  PROVE  QueueNumbers' /\ TaskHolds' /\ WrittenInTurn' /\ WireOrder'
<1> DEFINE n == Len(msgqueue)
<1>1. issued \in Nat /\ n \in Nat /\ Len(wire) \in Nat
  BY Numbers DEF IndInv
<1>2. /\ attempt' = 1 /\ task' = "ensure"
      /\ UNCHANGED <<issued, wire>>
  BY DEF Take
<1>3. /\ n > 0
      /\ current' = msgqueue[1] /\ current' \in Cmds
      /\ Len(msgqueue') = n - 1
      /\ \A i \in 1..(n - 1) : msgqueue'[i] = msgqueue[i + 1]
  <2>1. /\ msgqueue # <<>> /\ current' = Head(msgqueue)
        /\ msgqueue' = Tail(msgqueue)
    BY DEF Take
  <2>2. QED
    BY <2>1, HeadTailProperties, LenProperties, EmptySeq DEF IndInv, TypeOK
<1>4. current' + n = issued + 1
  BY <1>1, <1>3 DEF IndInv, QueueNumbers
<1>5. TaskHolds'
  BY <1>2, <1>3 DEF TaskHolds
<1>6. QueueNumbers'
  <2>1. ASSUME NEW i \in 1..(n - 1)
        PROVE  msgqueue'[i] + (n - 1) = issued + i
    <3>1. i \in Nat /\ i + 1 \in 1..n
      BY <1>1
    <3> DEFINE x == msgqueue[i + 1]
    <3>2. x \in Nat /\ x + n = issued + (i + 1)
      BY <3>1, Numbers DEF IndInv, QueueNumbers
    <3>3. msgqueue'[i] = x
      BY <1>3
    <3> HIDE DEF n, x
    <3>4. QED
      BY <1>1, <3>1, <3>2, <3>3
  <2>2. n - 1 <= issued /\ current' + (n - 1) = issued
    <3> DEFINE x == current'
    <3>1. n <= issued /\ x \in Nat /\ x + n = issued + 1
      BY <1>3, <1>4 DEF IndInv, QueueNumbers
    <3> HIDE DEF n, x
    <3>2. n - 1 <= issued /\ x + (n - 1) = issued
      BY <1>1, <3>1
    <3>3. QED
      BY <3>2 DEF x
  <2>3. QED
    BY <1>2, <1>3, <2>1, <2>2 DEF QueueNumbers
<1>7. WrittenInTurn'
  <2>1. ASSUME NEW i \in 1..Len(wire)
        PROVE  wire[i] + (n - 1) <= issued /\ wire[i] # current'
    <3> DEFINE x == wire[i]
               y == current'
    <3>1. /\ x \in Nat /\ x + n <= issued
          /\ y \in Nat /\ y + n = issued + 1
      BY <1>3, <1>4, Numbers DEF IndInv, WrittenInTurn
    <3> HIDE DEF n, x, y
    <3>2. x + (n - 1) <= issued /\ x # y
      BY <1>1, <3>1
    <3>3. QED
      BY <3>2 DEF x, y
  <2>2. QED
    BY <1>2, <1>3, <2>1 DEF WrittenInTurn
<1>8. WireOrder'
  BY <1>2 DEF IndInv, WireOrder
<1>9. QED
  BY <1>5, <1>6, <1>7, <1>8

\* Steps that leave the queue, the command in hand and the wire alone.
LEMMA Frame ==
  ASSUME IndInv, UNCHANGED <<issued, msgqueue, current, attempt, wire>>,
         (task \in {"ensure", "lock", "connecting", "writing"})
           <=> (task' \in {"ensure", "lock", "connecting", "writing"})
  PROVE  QueueNumbers' /\ TaskHolds' /\ WrittenInTurn' /\ WireOrder'
  BY DEF IndInv, QueueNumbers, TaskHolds, WrittenInTurn, WireOrder

\* What is on the wire after a write of the command in hand: WireOrder, and
\* how many of its end are that command.
LEMMA Written ==
  ASSUME IndInv, current # 0, wire' = Append(wire, current)
  PROVE  /\ WireOrder'
         /\ Len(wire') = Len(wire) + 1
         /\ \A i \in 1..Len(wire') :
              /\ wire'[i] \in Cmds
              /\ wire'[i] + Len(msgqueue) <= issued
              /\ wire'[i] = current => Len(wire') < i + attempt
<1> DEFINE k == Len(wire)
           n == Len(msgqueue)
           m == MAX_COMMAND_ATTEMPTS
<1>0. /\ issued \in Nat /\ n \in Nat /\ k \in Nat /\ m \in Nat
      /\ attempt \in Nat /\ attempt >= 1 /\ attempt <= m
  <2>1. attempt \in 1..MAX_COMMAND_ATTEMPTS
    BY DEF IndInv, TaskHolds
  <2>2. QED
    BY <2>1, Numbers DEF IndInv
<1>1. current \in Cmds /\ current + n = issued
  BY DEF IndInv, TypeOK, QueueNumbers
<1>2. /\ Len(wire') = k + 1
      /\ \A i \in 1..k : wire'[i] = wire[i] /\ wire[i] \in Cmds
      /\ wire'[k + 1] = current
  BY <1>1, AppendProperties, Numbers DEF IndInv, TypeOK
<1>3. ASSUME NEW i \in 1..k
      PROVE  /\ wire[i] + n <= issued
             /\ wire[i] <= current
             /\ wire[i] = current => k + 1 < i + attempt
  <2>1. /\ wire[i] \in Nat /\ wire[i] + n <= issued /\ current \in Nat
        /\ wire[i] = current => k + 1 < i + attempt
    BY <1>1, Numbers DEF IndInv, WrittenInTurn
  <2> HIDE DEF n, k
  <2>2. QED
    BY <1>0, <1>1, <2>1
<1>4. ASSUME NEW i \in 1..(k + 1)
      PROVE  /\ wire'[i] \in Cmds
             /\ wire'[i] + n <= issued
             /\ wire'[i] = current => k + 1 < i + attempt
  <2>1. CASE i \in 1..k
    BY <1>2, <1>3, <2>1
  <2>2. CASE i = k + 1
    <3>1. wire'[i] = current
      BY <1>2, <2>2
    <3> HIDE DEF n, k
    <3>2. QED
      BY <1>0, <1>1, <2>2, <3>1
  <2>3. QED
    BY <1>0, <2>1, <2>2
<1>5. WireOrder'
  <2>1. ASSUME NEW i \in 1..(k + 1), NEW j \in 1..(k + 1), i < j
        PROVE  wire'[i] <= wire'[j]
    <3>1. i \in 1..k
      BY <1>0, <2>1
    <3>2. CASE j \in 1..k
      BY <1>2, <2>1, <3>1, <3>2 DEF IndInv, WireOrder
    <3>3. CASE j = k + 1
      BY <1>2, <1>3, <3>1, <3>3
    <3>4. QED
      BY <1>0, <3>2, <3>3
  <2>2. ASSUME NEW i \in 1..(k + 1), i + m <= k + 1
        PROVE  wire'[i] < wire'[i + m]
    <3>1. i \in 1..k /\ i \in Nat
      BY <1>0, <2>2
    <3>2. CASE i + m <= k
      <4>1. wire[i] < wire[i + m]
        BY <3>1, <3>2 DEF IndInv, WireOrder
      <4>2. i + m \in 1..k
        BY <1>0, <3>1, <3>2
      <4>3. wire'[i] = wire[i] /\ wire'[i + m] = wire[i + m]
        BY <1>2, <3>1, <4>2
      <4>4. QED
        BY <4>1, <4>3
    <3>3. CASE i + m = k + 1
      <4>1. /\ wire[i] <= current /\ wire[i] \in Nat /\ current \in Nat
            /\ wire[i] = current => k + 1 < i + attempt
        BY <1>1, <1>2, <1>3, <3>1
      <4>2. wire'[i] = wire[i] /\ wire'[i + m] = current
        BY <1>2, <3>1, <3>3
      <4> HIDE DEF k, m
      <4>3. ~(k + 1 < i + attempt)
        BY <1>0, <3>1, <3>3
      <4>4. wire[i] < current
        BY <4>1, <4>3
      <4>5. QED
        BY <4>2, <4>4
    <3>4. QED
      BY <1>0, <2>2, <3>1, <3>2, <3>3
  <2>3. QED
    BY <1>2, <2>1, <2>2 DEF WireOrder
<1>6. QED
  BY <1>2, <1>4, <1>5

\* After the last write of a command, or when it is given up, it is out of hand.
LEMMA Finished ==
  ASSUME IndInv, TypeOK', WireOrder', current' = 0, task' = "serve",
         UNCHANGED <<issued, msgqueue>>,
         \A i \in 1..Len(wire') : wire'[i] + Len(msgqueue) <= issued
  PROVE  QueueNumbers' /\ TaskHolds' /\ WrittenInTurn'
<1>1. \A i \in 1..Len(wire') : wire'[i] \in Cmds
  BY LenProperties DEF TypeOK
<1>2. WrittenInTurn'
  BY <1>1 DEF WrittenInTurn
<1>3. QED
  BY <1>2 DEF IndInv, QueueNumbers, TaskHolds

\* A failed attempt, whether or not its write reached the light.
LEMMA FailedAttempt ==
  ASSUME IndInv, TypeOK', current # 0, AttemptFailed, UNCHANGED <<issued, msgqueue>>,
         wire' = wire \/ wire' = Append(wire, current)
  PROVE  QueueNumbers' /\ TaskHolds' /\ WrittenInTurn' /\ WireOrder'
<1>0. /\ issued \in Nat /\ Len(msgqueue) \in Nat /\ Len(wire) \in Nat
      /\ attempt \in 1..MAX_COMMAND_ATTEMPTS
  BY Numbers DEF IndInv, TaskHolds
<1>1. /\ WireOrder'
      /\ Len(wire') \in Nat
      /\ \A i \in 1..Len(wire') :
           /\ wire'[i] + Len(msgqueue) <= issued
           /\ wire'[i] = current => Len(wire') < i + attempt
  <2>1. CASE wire' = wire
    <3>1. WireOrder'
      BY <2>1 DEF IndInv, WireOrder
    <3>2. ASSUME NEW i \in 1..Len(wire), wire[i] = current
          PROVE  Len(wire) < i + attempt
      BY <1>0, <3>2 DEF IndInv, WrittenInTurn
    <3>3. QED
      BY <1>0, <2>1, <3>1, <3>2 DEF IndInv, WrittenInTurn
  <2>2. CASE wire' = Append(wire, current)
    BY <1>0, <2>2, Written
  <2>3. QED
    BY <2>1, <2>2
<1>2. CASE attempt < MAX_COMMAND_ATTEMPTS
  <2>1. attempt' = attempt + 1 /\ task' = "ensure" /\ current' = current
    BY <1>2 DEF AttemptFailed
  <2>2. TaskHolds' /\ QueueNumbers'
    BY <1>0, <1>2, <2>1 DEF IndInv, TaskHolds, QueueNumbers
  <2>3. ASSUME NEW i \in 1..Len(wire'), wire'[i] = current
        PROVE  Len(wire') + 1 < i + (attempt + 1)
    BY <1>0, <1>1, <2>3
  <2>4. WrittenInTurn'
    BY <1>1, <2>1, <2>3 DEF WrittenInTurn
  <2>5. QED
    BY <1>1, <2>2, <2>4
<1>3. CASE ~(attempt < MAX_COMMAND_ATTEMPTS)
  <2>1. current' = 0 /\ task' = "serve"
    BY <1>3 DEF AttemptFailed
  <2>2. QED
    BY <1>1, <2>1, Finished
<1>4. QED
  BY <1>2, <1>3

----------------------------------------------------------------------------
(* The invariant.                                                          *)

\* Every step preserves IndInv.
LEMMA Step == IndInv /\ [Next]_vars => IndInv'
<1> SUFFICES ASSUME IndInv, [Next]_vars PROVE IndInv'
  OBVIOUS
<1>0. TypeOK'
  BY TypeStep DEF IndInv
<1> USE DEF vars, callVars, deliverVars, linkVars, lockVars
<1> SUFFICES QueueNumbers' /\ TaskHolds' /\ WrittenInTurn' /\ WireOrder'
  BY <1>0 DEF IndInv
<1>1. CASE Send
  BY <1>1, SendNumbers
<1>2. CASE Take
  BY <1>2, TakeNumbers
<1>3. CASE ConnectFail
  <2>1. current # 0
    BY <1>3 DEF ConnectFail, IndInv, TaskHolds
  <2>2. QED
    BY <1>0, <1>3, <2>1, FailedAttempt DEF ConnectFail
<1>4. CASE WriteFail
  <2>1. current # 0
    BY <1>4 DEF WriteFail, IndInv, TaskHolds
  <2>2. QED
    BY <1>0, <1>4, <2>1, FailedAttempt DEF WriteFail
<1>5. CASE WriteOk
  <2>1. /\ current # 0 /\ wire' = Append(wire, current)
        /\ current' = 0 /\ task' = "serve"
        /\ UNCHANGED <<issued, msgqueue>>
    BY <1>5 DEF WriteOk, IndInv, TaskHolds
  <2>2. /\ WireOrder'
        /\ \A i \in 1..Len(wire') : wire'[i] + Len(msgqueue) <= issued
    BY <2>1, Written
  <2>3. QED
    BY <1>0, <2>1, <2>2, Finished
<1>6. CASE \/ Idle \/ IdleTimeout \/ EnsureOpen \/ EnsureNew \/ TaskAcquire
           \/ ConnectOk \/ Teardown \/ TaskDone
  <2>1. /\ UNCHANGED <<issued, msgqueue, current, attempt, wire>>
        /\ (task \in {"ensure", "lock", "connecting", "writing"})
             <=> (task' \in {"ensure", "lock", "connecting", "writing"})
    BY <1>6 DEF Idle, IdleTimeout, EnsureOpen, EnsureNew, TaskAcquire, ConnectOk,
                Teardown, TaskDone
  <2>2. QED
    BY <2>1, Frame
<1>7. CASE \/ CallerStep \/ \E c \in Cmds : CallerCancel(c)
           \/ \E s \in Sides : SideStart(s) \/ SideStep(s)
           \/ LinkLost \/ UNCHANGED vars
  <2>1. UNCHANGED <<issued, msgqueue, current, attempt, wire, task>>
    BY <1>7 DEF CallerStep, CallerReturn, CallerCancel, SideStart, SideStep,
                SideAcquire, SideConnects, SideEnds, LinkLost
  <2>2. QED
    BY <2>1, Frame
<1>8. QED
  BY <1>1, <1>2, <1>3, <1>4, <1>5, <1>6, <1>7 DEF Next, TaskStep

\* IndInv is inductive: it holds initially and every step preserves it.
THEOREM Invariance == Spec => []IndInv
<1>1. Init => IndInv
  <2> SUFFICES ASSUME Init PROVE IndInv
    OBVIOUS
  <2>1. Len(<<>>) = 0 /\ 1..Len(<<>>) = {}
    OBVIOUS
  <2>2. TaskHolds /\ QueueNumbers /\ WrittenInTurn /\ WireOrder
    BY <2>1 DEF Init, TaskHolds, QueueNumbers, WrittenInTurn, WireOrder
  <2>3. QED
    BY <2>2, TypeInit DEF IndInv
<1>2. QED
  BY <1>1, Step, PTL DEF Spec

\* Every variable keeps its type: what is written is a command, and no command
\* is attempted more often than the code allows.
THEOREM TypeCorrect == Spec => []TypeOK
<1>1. IndInv => TypeOK
  BY DEF IndInv
<1>2. QED
  BY <1>1, Invariance, PTL

\* Commands reach the light in the order they were issued, none more often than
\* it is attempted, however connects and writes fail.
THEOREM WritesInOrder == Spec => []WireOrder
<1>1. IndInv => WireOrder
  BY DEF IndInv
<1>2. QED
  BY <1>1, Invariance, PTL

----------------------------------------------------------------------------
(* The service.  Line is what the refinement mapping makes of pending: the *)
(* command in hand in front of the queued ones.                            *)

InHand == IF current = 0 THEN <<>> ELSE <<current>>
Line == InHand \o msgqueue

\* Line is a sequence of commands.
LEMMA LineType ==
  ASSUME TypeOK
  PROVE  InHand \in Seq(Cmds) /\ Line \in Seq(Cmds)
<1>1. InHand \in Seq(Cmds)
  <2>1. CASE current = 0
    BY <2>1, EmptySeq DEF InHand
  <2>2. CASE current # 0
    <3>1. current \in Cmds
      BY <2>2 DEF TypeOK
    <3>2. <<current>> \in Seq(Cmds)
      BY <3>1
    <3>3. QED
      BY <2>2, <3>2 DEF InHand
  <2>3. QED
    BY <2>1, <2>2
<1>2. QED
  BY <1>1, ConcatProperties DEF Line, TypeOK

\* A command issued joins the end of the line.
LEMMA Issues ==
  ASSUME TypeOK, TypeOK', Send
  PROVE  Service!Issue
<1>1. /\ issued < MaxCmds /\ issued' = issued + 1
      /\ msgqueue' = Append(msgqueue, issued + 1)
      /\ caller' = [caller EXCEPT ![issued + 1] = "waiting"]
      /\ verdict' = verdict /\ current' = current
  BY DEF Send, deliverVars
<1>2. issued + 1 \in Cmds
  BY <1>1 DEF TypeOK
<1>3. Line' = Append(Line, issued + 1)
  <2>1. InHand' = InHand
    BY <1>1 DEF InHand
  <2>2. <<issued + 1>> \in Seq(Cmds)
    BY <1>2
  <2>3. msgqueue' = msgqueue \o <<issued + 1>>
    <3>1. msgqueue \in Seq(Cmds)
      BY DEF TypeOK
    <3>2. Append(msgqueue, issued + 1) = msgqueue \o <<issued + 1>>
      BY <1>2, <3>1, AppendIsConcat
    <3>3. QED
      BY <1>1, <3>2
  <2>4. Append(Line, issued + 1) = Line \o <<issued + 1>>
    BY <1>2, LineType, AppendIsConcat
  <2>5. (InHand \o msgqueue) \o <<issued + 1>>
          = InHand \o (msgqueue \o <<issued + 1>>)
    <3> DEFINE one == <<issued + 1>>
    <3>1. InHand \in Seq(Cmds) /\ msgqueue \in Seq(Cmds) /\ one \in Seq(Cmds)
      BY <2>2, LineType DEF TypeOK
    <3> HIDE DEF one
    <3>2. (InHand \o msgqueue) \o one = InHand \o (msgqueue \o one)
      BY <3>1, ConcatAssociative
    <3>3. QED
      BY <3>2 DEF one
  <2>6. Line' = InHand \o (msgqueue \o <<issued + 1>>)
    BY <2>1, <2>3 DEF Line
  <2>7. QED
    BY <2>4, <2>5, <2>6 DEF Line
<1>4. QED
  BY <1>1, <1>3 DEF Service!Issue, Line, InHand

\* Taking a command into hand does not change the line.
LEMMA Takes ==
  ASSUME TypeOK, TypeOK', TaskHolds, Take
  PROVE  Line' = Line
<1>1. /\ current = 0 /\ msgqueue # <<>>
      /\ current' = Head(msgqueue) /\ msgqueue' = Tail(msgqueue)
  BY DEF Take, TaskHolds
<1>2. /\ msgqueue \in Seq(Cmds)
      /\ Head(msgqueue) \in Cmds /\ Tail(msgqueue) \in Seq(Cmds)
      /\ Head(msgqueue) = msgqueue[1] /\ Len(msgqueue) \in Nat \ {0}
  BY <1>1, HeadTailProperties, LenProperties, EmptySeq DEF TypeOK
<1>3. Line = msgqueue
  BY <1>1, <1>2, ConcatEmptySeq DEF Line, InHand
<1>4. Line' = <<msgqueue[1]>> \o Tail(msgqueue)
  BY <1>1, <1>2 DEF Line, InHand
<1>5. <<msgqueue[1]>> \o Tail(msgqueue) = msgqueue
  <2>1. 1 \in 1..Len(msgqueue) /\ Len(msgqueue) \in 1..Len(msgqueue)
    BY <1>2
  <2>2. SubSeq(msgqueue, 1, Len(msgqueue))
          = <<msgqueue[1]>> \o SubSeq(msgqueue, 2, Len(msgqueue))
    BY <1>2, <2>1, SubSeqRecursiveFirst
  <2>3. SubSeq(msgqueue, 1, Len(msgqueue)) = msgqueue
    BY <1>2, SubSeqFull
  <2>4. SubSeq(msgqueue, 2, Len(msgqueue)) = Tail(msgqueue)
    BY <1>1, <1>2, TailIsSubSeq
  <2>5. QED
    BY <2>2, <2>3, <2>4
<1>6. QED
  BY <1>3, <1>4, <1>5

\* A command in hand is the first of the line, and letting it go the step to the
\* rest of it.
LEMMA LetsGo ==
  ASSUME TypeOK, current # 0, current' = 0, msgqueue' = msgqueue
  PROVE  /\ Line # <<>> /\ Len(Line) \in Nat \ {0}
         /\ Head(Line) = current /\ Line[1] = current
         /\ Line' = Tail(Line)
         /\ Line' = SubSeq(Line, 2, Len(Line))
<1>1. current \in Cmds
  BY DEF TypeOK
<1>2. <<current>> \in Seq(Cmds) /\ Len(<<current>>) = 1 /\ <<current>>[1] = current
  BY <1>1
<1>3. /\ Line = <<current>> \o msgqueue /\ Line \in Seq(Cmds)
      /\ msgqueue \in Seq(Cmds) /\ Len(msgqueue) \in Nat
  BY LineType, LenProperties DEF Line, InHand, TypeOK
<1>4. Line' = msgqueue
  BY <1>3, ConcatEmptySeq DEF Line, InHand
<1>5. /\ Len(Line) = 1 + Len(msgqueue)
      /\ \A i \in 1..(1 + Len(msgqueue)) :
           Line[i] = IF i <= 1 THEN current ELSE msgqueue[i - 1]
  <2>1. /\ Len(<<current>> \o msgqueue) = Len(<<current>>) + Len(msgqueue)
        /\ \A i \in 1..(Len(<<current>>) + Len(msgqueue)) :
             (<<current>> \o msgqueue)[i]
               = IF i <= Len(<<current>>) THEN <<current>>[i]
                 ELSE msgqueue[i - Len(<<current>>)]
    BY <1>2, <1>3, ConcatProperties
  <2>2. \A i \in 1..(1 + Len(msgqueue)) : i <= 1 => i = 1
    BY <1>3
  <2>3. QED
    BY <1>2, <1>3, <2>1, <2>2
<1>6. Line # <<>> /\ Line[1] = current /\ Head(Line) = current
  <2>1. Line[1] = current /\ Len(Line) # 0
    BY <1>3, <1>5
  <2>2. QED
    BY <1>3, <2>1, EmptySeq
<1>7. Tail(Line) = msgqueue
  <2> DEFINE t == Tail(Line)
  <2>1. /\ t \in Seq(Cmds) /\ Len(t) = Len(msgqueue)
        /\ \A i \in 1..Len(t) : t[i] = Line[i + 1]
    BY <1>3, <1>5, <1>6, HeadTailProperties
  <2> HIDE DEF t
  <2>2. ASSUME NEW i \in 1..Len(t) PROVE t[i] = msgqueue[i]
    <3>1. /\ i + 1 \in 1..(1 + Len(msgqueue)) /\ ~(i + 1 <= 1)
          /\ (i + 1) - 1 = i
      BY <1>3, <2>1
    <3>2. QED
      BY <1>5, <2>1, <3>1
  <2>3. t = msgqueue
    BY <1>3, <2>1, <2>2, SeqEqual
  <2>4. QED
    BY <2>3 DEF t
<1>8. Tail(Line) = SubSeq(Line, 2, Len(Line))
  BY <1>3, <1>6, TailIsSubSeq
<1>9. QED
  BY <1>3, <1>4, <1>5, <1>6, <1>7, <1>8

\* The light received the command in hand.
LEMMA Acknowledges ==
  ASSUME TypeOK, TaskHolds, WriteOk
  PROVE  Service!Acknowledge
<1>1. /\ current # 0 /\ current' = 0
      /\ verdict' = [verdict EXCEPT ![current] = "true"]
      /\ UNCHANGED <<issued, msgqueue, caller>>
  BY DEF WriteOk, TaskHolds, callVars
<1>2. /\ Line # <<>> /\ Head(Line) = current /\ Line' = Tail(Line)
  BY <1>1, LetsGo
<1>3. QED
  BY <1>1, <1>2 DEF Service!Acknowledge, Line, InHand

\* The last attempt failed: the command in hand is given up; any other failed
\* attempt changes nothing a caller could see.
LEMMA Fails ==
  ASSUME TypeOK, current # 0, AttemptFailed, UNCHANGED <<issued, msgqueue, caller>>
  PROVE  [Service!Next]_Service!vars
<1>1. CASE attempt < MAX_COMMAND_ATTEMPTS
  <2>1. current' = current /\ verdict' = verdict
    BY <1>1 DEF AttemptFailed
  <2>2. QED
    BY <2>1 DEF Service!vars
<1>2. CASE ~(attempt < MAX_COMMAND_ATTEMPTS)
  <2>1. /\ current' = 0
        /\ verdict' = [verdict EXCEPT ![current] = "false"]
    BY <1>2 DEF AttemptFailed
  <2>2. /\ Len(Line) \in Nat \ {0} /\ Line[1] = current
        /\ Line' = SubSeq(Line, 2, Len(Line))
    BY <2>1, LetsGo
  <2>3. verdict' = [c \in Cmds |-> IF \E i \in 1..1 : Line[i] = c
                                   THEN "false" ELSE verdict[c]]
    <3>1. \A c \in Cmds : (\E i \in 1..1 : Line[i] = c) <=> c = current
      BY <2>2
    <3>2. verdict' = [c \in Cmds |-> IF c = current THEN "false" ELSE verdict[c]]
      BY <2>1 DEF TypeOK
    <3>3. QED
      BY <3>1, <3>2
  <2>4. Service!GiveUpOn(1)
    <3>1. 1 + 1 = 2
      OBVIOUS
    <3>2. QED
      BY <2>2, <2>3, <3>1 DEF Service!GiveUpOn, Service!Cmds, Line, InHand
  <2>5. 1 \in 1..Len(Line)
    BY <2>2
  <2>6. Service!Resolve
    BY <2>4, <2>5 DEF Service!Resolve, Line, InHand
  <2>7. QED
    BY <2>6 DEF Service!Next
<1>3. QED
  BY <1>1, <1>2

\* Steps that change nothing the service has.
LEMMA Invisible ==
  ASSUME Line' = Line, UNCHANGED <<issued, verdict, caller>>
  PROVE  UNCHANGED Service!vars
  BY DEF Service!vars, Line, InHand

\* Every step of the transport is a step of the service or leaves it alone.
LEMMA StepSimulates ==
  TypeOK /\ TypeOK' /\ TaskHolds /\ [Next]_vars => [Service!Next]_Service!vars
<1> SUFFICES ASSUME TypeOK, TypeOK', TaskHolds, [Next]_vars
             PROVE  [Service!Next]_Service!vars
  OBVIOUS
<1> USE DEF vars, callVars, deliverVars, linkVars, lockVars
<1>1. CASE Send
  BY <1>1, Issues DEF Service!Next
<1>2. ASSUME NEW c \in Cmds, CallerReturn(c)
      PROVE  [Service!Next]_Service!vars
  <2>1. /\ caller[c] = "waiting" /\ verdict[c] # "pending"
        /\ caller' = [caller EXCEPT ![c] = verdict[c]]
        /\ UNCHANGED <<issued, msgqueue, current, verdict>>
    BY <1>2 DEF CallerReturn
  <2>2. Service!Tell(c)
    BY <2>1 DEF Service!Tell
  <2>3. QED
    BY <2>2 DEF Service!Next, Service!Cmds
<1>3. ASSUME NEW c \in Cmds, CallerCancel(c)
      PROVE  [Service!Next]_Service!vars
  <2>1. /\ caller[c] = "waiting"
        /\ caller' = [caller EXCEPT ![c] = "cancelled"]
        /\ UNCHANGED <<issued, msgqueue, current, verdict>>
    BY <1>3 DEF CallerCancel
  <2>2. Service!Leave(c)
    BY <2>1 DEF Service!Leave
  <2>3. QED
    BY <2>2 DEF Service!Next, Service!Cmds
<1>4. CASE Take
  BY <1>4, Takes, Invisible DEF Take
<1>5. CASE WriteOk
  BY <1>5, Acknowledges DEF Service!Next, Service!Resolve
<1>6. CASE ConnectFail \/ WriteFail
  <2>1. current # 0 /\ AttemptFailed /\ UNCHANGED <<issued, msgqueue, caller>>
    BY <1>6 DEF ConnectFail, WriteFail, TaskHolds
  <2>2. QED
    BY <2>1, Fails
<1>7. CASE \/ Idle \/ IdleTimeout \/ EnsureOpen \/ EnsureNew \/ TaskAcquire
           \/ ConnectOk \/ Teardown \/ TaskDone
           \/ \E s \in Sides : SideStart(s) \/ SideStep(s)
           \/ LinkLost \/ UNCHANGED vars
  <2>1. UNCHANGED <<issued, msgqueue, current, verdict, caller>>
    BY <1>7 DEF Idle, IdleTimeout, EnsureOpen, EnsureNew, TaskAcquire, ConnectOk,
                Teardown, TaskDone, SideStart, SideStep, SideAcquire,
                SideConnects, SideEnds, LinkLost
  <2>2. QED
    BY <2>1 DEF Service!vars
<1>8. QED
  BY <1>1, <1>2, <1>3, <1>4, <1>5, <1>6, <1>7 DEF Next, CallerStep, TaskStep

\* The lights' transport implements the safety part of the service, whatever
\* the interleaving of callers, retries, queries and probes.
THEOREM ImplementsServiceSafety == Spec => Service!Safety
<1>1. Init => Service!Init
  BY EmptySeq DEF Init, Service!Init, Service!Cmds
<1>2. IndInv => TypeOK /\ TaskHolds
  BY DEF IndInv
<1>3. IndInv /\ IndInv' /\ [Next]_vars => [Service!Next]_Service!vars
  <2>1. IndInv' => TypeOK'
    BY <1>2, PTL
  <2>2. QED
    BY <1>2, <2>1, StepSimulates
<1>4. QED
  BY <1>1, <1>3, Invariance, PTL DEF Spec, Service!Safety

\* Only a write that fails can leave a connection behind: reconnects, idle ends
\* and given up connects do not.
THEOREM LeaksAreFailedWrites == Spec => LeaksOnlyFailedWrites
<1>1. IndInv /\ [Next]_vars => [leaked' > leaked => task = "writing"]_vars
  <2> SUFFICES ASSUME IndInv, Next, task # "writing" PROVE ~(leaked' > leaked)
    BY DEF vars, linkVars
  <2>1. leaked' = leaked
    BY DEF Next, Send, CallerStep, CallerReturn, CallerCancel, TaskStep, Take, Idle,
           IdleTimeout, EnsureOpen, EnsureNew, TaskAcquire, ConnectOk, ConnectFail,
           WriteOk, WriteFail, Teardown, TaskDone, SideStart, SideStep, SideAcquire,
           SideConnects, SideEnds, LinkLost, linkVars
  <2>2. leaked \in Nat
    BY DEF IndInv, TypeOK
  <2>3. QED
    BY <2>1, <2>2
<1>2. QED
  BY <1>1, Invariance, PTL DEF Spec, LeaksOnlyFailedWrites
================================================================================
