---------------------------- MODULE PlugTransport ----------------------------
(***************************************************************************)
(* The command transport of GoveePlugH508x (plugs.py): callers queue       *)
(* commands with _send_message, one message task at a time connects to the *)
(* plug and serves the queue, and a status poll (_query_status_internal)   *)
(* opens a connection of its own.  Everything runs on one asyncio event    *)
(* loop, so an action is the code between two awaits; at an await any      *)
(* other action may run.  The BLE link and the plug are the environment:   *)
(* each awaited call may succeed, time out or raise.                       *)
(*                                                                         *)
(* Commands are numbered in the order _send_message is called.             *)
(***************************************************************************)
EXTENDS Naturals, Sequences

CONSTANT MaxCmds        \* bound: how many commands are ever issued

ASSUME MaxCmdsAssumption == MaxCmds \in Nat \ {0}

Cmds == 1..MaxCmds

VARIABLES
  issued,        \* number of _send_message calls so far
  msgqueue,      \* self._msgqueue
  must_process,  \* the message task's local must_process queue
  current,       \* command whose _send_msg is in progress, 0 if none
  fut,           \* the future of each command
  caller,        \* what each _send_message call is doing, or has returned
  last_command,  \* self._last_command_time: less than the cooldown ago?
  task,          \* the message task: its await point; "none": no task
  task_client,   \* its BleakClient
  lock,          \* holder of self._connection_lock
  waiters,       \* tasks queued on self._connection_lock, in arrival order
  poll,          \* await point of the poll's _query_status_internal
  poll_client,   \* its BleakClient
  poll_task,     \* the coordinator's poll task: alive or cancelled
  wire           \* history: commands written to the plug, in order

sendVars == <<issued, caller, last_command>>
pollVars == <<poll, poll_client, poll_task>>
taskVars == <<must_process, current, task, task_client>>
lockVars == <<lock, waiters>>
vars == <<sendVars, pollVars, taskVars, lockVars, msgqueue, fut, wire>>

TaskStates == {"none", "created", "lock", "connecting", "session", "auth",
               "process", "idle", "writing", "acking", "teardown", "done"}
PollStates == {"idle", "lock", "connecting", "session", "auth", "query",
               "teardown", "cancelled"}
Clients    == {"none", "open", "lost"}   \* "lost": no longer connected

InMustProcess(c) == \E i \in 1..Len(must_process) : must_process[i] = c

TypeOK ==
  /\ issued \in 0..MaxCmds
  /\ msgqueue \in Seq(Cmds)
  /\ must_process \in Seq(Cmds)
  /\ current \in 0..MaxCmds
  /\ fut \in [Cmds -> {"pending", "true", "false"}]
  /\ caller \in [Cmds -> {"none", "waiting", "true", "false", "cancelled"}]
  /\ last_command \in {"old", "recent"}
  /\ task \in TaskStates
  /\ task_client \in Clients
  /\ lock \in {"free", "task", "poll"}
  /\ waiters \in Seq({"task", "poll"})
  /\ poll \in PollStates
  /\ poll_client \in Clients
  /\ poll_task \in {"alive", "cancelled"}
  /\ wire \in Seq(Cmds)

Init ==
  /\ issued = 0
  /\ msgqueue = <<>>
  /\ must_process = <<>>
  /\ current = 0
  /\ fut = [c \in Cmds |-> "pending"]
  /\ caller = [c \in Cmds |-> "none"]
  /\ last_command = "old"
  /\ task = "none"
  /\ task_client = "none"
  /\ lock = "free"
  /\ waiters = <<>>
  /\ poll = "idle"
  /\ poll_client = "none"
  /\ poll_task = "alive"
  /\ wire = <<>>

----------------------------------------------------------------------------
(* Callers: _send_message.                                                 *)

\* put_nowait, then _ensure_message_task: a task that has finished but whose
\* done callback has not run yet still counts as one.
Send ==
  /\ issued < MaxCmds
  /\ issued' = issued + 1
  /\ msgqueue' = Append(msgqueue, issued + 1)
  /\ caller' = [caller EXCEPT ![issued + 1] = "waiting"]
  /\ task' = IF task = "none" THEN "created" ELSE task
  /\ UNCHANGED <<must_process, current, fut, last_command, task_client,
                 lockVars, pollVars, wire>>

\* Mutant of CallerReturn: returns without waiting for the future.
CallerReturnUnresolved(c) ==
  /\ caller[c] = "waiting"
  /\ caller' = [caller EXCEPT ![c] = fut[c]]
  /\ last_command' = IF fut[c] = "true" THEN "recent" ELSE last_command
  /\ UNCHANGED <<issued, msgqueue, fut, taskVars, lockVars, pollVars, wire>>

\* The shielded future is done: its result is returned, and a success starts
\* the advertisement cooldown.  The event loop wakes callers in the order in
\* which their futures were resolved.
CallerReturn(c) ==
  /\ caller[c] = "waiting"
  /\ fut[c] # "pending"
  /\ \A d \in 1..(c - 1) : caller[d] = "waiting" => fut[d] = "pending"
  /\ caller' = [caller EXCEPT ![c] = fut[c]]
  /\ last_command' = IF fut[c] = "true" THEN "recent" ELSE last_command
  /\ UNCHANGED <<issued, msgqueue, fut, taskVars, lockVars, pollVars, wire>>

\* wait_for gives up after 45 s (possibly in the very loop iteration in which
\* the future was resolved).  The shield keeps the command in its queue.
CallerTimeout(c) ==
  /\ caller[c] = "waiting"
  /\ caller' = [caller EXCEPT ![c] = "false"]
  /\ UNCHANGED <<issued, last_command, msgqueue, fut, taskVars, lockVars,
                 pollVars, wire>>

\* The service call awaiting _send_message is cancelled.
CallerCancel(c) ==
  /\ caller[c] = "waiting"
  /\ caller' = [caller EXCEPT ![c] = "cancelled"]
  /\ UNCHANGED <<issued, last_command, msgqueue, fut, taskVars, lockVars,
                 pollVars, wire>>

\* COMMAND_COOLDOWN_SECONDS have passed (_should_ignore_advertisement).
CooldownEnds ==
  /\ last_command = "recent"
  /\ last_command' = "old"
  /\ UNCHANGED <<issued, caller, msgqueue, fut, taskVars, lockVars,
                 pollVars, wire>>

----------------------------------------------------------------------------
(* self._connection_lock (asyncio.Lock, first come first served).  It is   *)
(* held only while establish_connection runs.                              *)

Enqueue(who) == waiters' = Append(waiters, who)

Acquire(who) ==
  /\ lock = "free"
  /\ waiters # <<>>
  /\ Head(waiters) = who
  /\ lock' = who
  /\ waiters' = Tail(waiters)

LeaveWaiters(who) ==
  \E i \in 1..Len(waiters) :
     /\ waiters[i] = who
     /\ waiters' = SubSeq(waiters, 1, i - 1)
                      \o SubSeq(waiters, i + 1, Len(waiters))

Release == lock' = "free" /\ UNCHANGED waiters

----------------------------------------------------------------------------
(* The message task: _message_task_fn.                                     *)

\* Resolve the futures of the commands for which Test holds to False.
FailAll(Test(_)) ==
  fut' = [c \in Cmds |-> IF Test(c) THEN "false" ELSE fut[c]]

\* First step: pull everything off the queue, then wait for the lock.
TaskDrain ==
  /\ task = "created"
  /\ must_process' = msgqueue
  /\ msgqueue' = <<>>
  /\ task' = "lock"
  /\ Enqueue("task")
  /\ UNCHANGED <<sendVars, pollVars, current, task_client, lock, fut, wire>>

TaskAcquire ==
  /\ task = "lock"
  /\ Acquire("task")
  /\ task' = "connecting"
  /\ UNCHANGED <<sendVars, pollVars, must_process, current, task_client,
                 msgqueue, fut, wire>>

TaskConnectOk ==
  /\ task = "connecting"
  /\ task' = "session"
  /\ task_client' = "open"
  /\ Release
  /\ UNCHANGED <<sendVars, pollVars, must_process, current, msgqueue, fut,
                 wire>>

\* Mutant of TaskConnectFail: it also fails what was queued meanwhile.
TaskConnectFailAll ==
  /\ task = "connecting"
  /\ FailAll(LAMBDA c : InMustProcess(c)
                        \/ \E i \in 1..Len(msgqueue) : msgqueue[i] = c)
  /\ must_process' = <<>>
  /\ msgqueue' = <<>>
  /\ task' = "done"
  /\ Release
  /\ UNCHANGED <<sendVars, pollVars, current, task_client, wire>>

\* establish_connection raised: the drained commands fail and the task returns.
TaskConnectFail ==
  /\ task = "connecting"
  /\ FailAll(InMustProcess)
  /\ must_process' = <<>>
  /\ task' = "done"
  /\ Release
  /\ UNCHANGED <<sendVars, pollVars, current, task_client, msgqueue, wire>>

\* The client subscribed; the E7 exchange succeeded, or SessionError selected
\* plaintext framing.
TaskSession ==
  /\ task = "session"
  /\ task' = "auth"
  /\ UNCHANGED <<sendVars, pollVars, lockVars, must_process, current,
                 task_client, msgqueue, fut, wire>>

TaskAuthOk ==
  /\ task = "auth"
  /\ task_client = "open"
  /\ task' = "process"
  /\ UNCHANGED <<sendVars, pollVars, lockVars, must_process, current,
                 task_client, msgqueue, fut, wire>>

\* Mutant of TaskSetupFail: an early return that skips the finally clause.
TaskSetupFailNoTeardown ==
  /\ task \in {"session", "auth"}
  /\ FailAll(InMustProcess)
  /\ must_process' = <<>>
  /\ task' = "done"
  /\ UNCHANGED <<sendVars, pollVars, lockVars, current, task_client,
                 msgqueue, wire>>

\* authenticate returned False (_fail_all), or start_notify, open_session or
\* authenticate raised (the finally clause): the drained commands fail.
TaskSetupFail ==
  /\ task \in {"session", "auth"}
  /\ FailAll(InMustProcess)
  /\ must_process' = <<>>
  /\ task' = "teardown"
  /\ UNCHANGED <<sendVars, pollVars, lockVars, current, task_client,
                 msgqueue, wire>>

\* Mutant of TaskTake: new commands overtake the drained ones.
TaskTakeNewFirst ==
  /\ task \in {"process", "idle"}
  /\ \/ /\ msgqueue = <<>>
        /\ must_process # <<>>
        /\ current' = Head(must_process)
        /\ must_process' = Tail(must_process)
        /\ UNCHANGED msgqueue
     \/ /\ msgqueue # <<>>
        /\ current' = Head(msgqueue)
        /\ msgqueue' = Tail(msgqueue)
        /\ UNCHANGED must_process
  /\ task' = "writing"
  /\ UNCHANGED <<sendVars, pollVars, lockVars, task_client, fut, wire>>

\* Take the next command and start writing it: first the drained commands,
\* then what has been queued since.
TaskTake ==
  /\ task \in {"process", "idle"}
  /\ \/ /\ must_process # <<>>
        /\ current' = Head(must_process)
        /\ must_process' = Tail(must_process)
        /\ UNCHANGED msgqueue
     \/ /\ must_process = <<>>
        /\ msgqueue # <<>>
        /\ current' = Head(msgqueue)
        /\ msgqueue' = Tail(msgqueue)
        /\ UNCHANGED must_process
  /\ task' = "writing"
  /\ UNCHANGED <<sendVars, pollVars, lockVars, task_client, fut, wire>>

\* Nothing to send: wait_for(self._msgqueue.get(), timeout=1) suspends.
TaskIdle ==
  /\ task = "process"
  /\ must_process = <<>>
  /\ msgqueue = <<>>
  /\ task' = "idle"
  /\ UNCHANGED <<sendVars, pollVars, lockVars, must_process, current,
                 task_client, msgqueue, fut, wire>>

\* Mutant of TaskIdleTimeout: the cancelled get() drops the command it was
\* handed.
TaskIdleTimeoutDrops ==
  /\ task = "idle"
  /\ task' = "teardown"
  /\ msgqueue' = IF msgqueue = <<>> THEN msgqueue ELSE Tail(msgqueue)
  /\ UNCHANGED <<sendVars, pollVars, lockVars, must_process, current,
                 task_client, fut, wire>>

\* The wait times out, perhaps just as a command is queued: the cancelled
\* get() leaves that command in the queue.
TaskIdleTimeout ==
  /\ task = "idle"
  /\ task' = "teardown"
  /\ UNCHANGED <<sendVars, pollVars, lockVars, must_process, current,
                 task_client, msgqueue, fut, wire>>

\* write_gatt_char (without response) completed.
TaskWriteOk ==
  /\ task = "writing"
  /\ task_client = "open"
  /\ wire' = Append(wire, current)
  /\ task' = "acking"
  /\ UNCHANGED <<sendVars, pollVars, lockVars, must_process, current,
                 task_client, msgqueue, fut>>

\* Mutant of TaskWriteFail: the exception is swallowed and an ack awaited.
TaskWriteFailSwallowed ==
  /\ task = "writing"
  /\ task' = "acking"
  /\ UNCHANGED <<sendVars, pollVars, lockVars, must_process, current,
                 task_client, msgqueue, fut, wire>>

\* send_command raised: this command and the drained ones fail.
TaskWriteFail ==
  /\ task = "writing"
  /\ FailAll(LAMBDA c : c = current \/ InMustProcess(c))
  /\ current' = 0
  /\ must_process' = <<>>
  /\ task' = "teardown"
  /\ UNCHANGED <<sendVars, pollVars, lockVars, task_client, msgqueue, wire>>

\* An ack arrived ("true") or none did within 5 s ("false").
TaskAck ==
  /\ task = "acking"
  /\ \E ack \in {"true", "false"} : fut' = [fut EXCEPT ![current] = ack]
  /\ current' = 0
  /\ task' = "process"
  /\ UNCHANGED <<sendVars, pollVars, lockVars, must_process, task_client,
                 msgqueue, wire>>

\* finally: stop_notify, disconnect and the 0.1 s pause.
TaskTeardown ==
  /\ task = "teardown"
  /\ task_client' = "none"
  /\ task' = "done"
  /\ UNCHANGED <<sendVars, pollVars, lockVars, must_process, current,
                 msgqueue, fut, wire>>

\* Mutant of TaskDone: it never restarts the task.
TaskDoneNoRestart ==
  /\ task = "done"
  /\ task' = "none"
  /\ UNCHANGED <<sendVars, pollVars, lockVars, must_process, current,
                 task_client, msgqueue, fut, wire>>

\* _message_task_done: restart if commands are waiting.
TaskDone ==
  /\ task = "done"
  /\ task' = IF msgqueue = <<>> THEN "none" ELSE "created"
  /\ UNCHANGED <<sendVars, pollVars, lockVars, must_process, current,
                 task_client, msgqueue, fut, wire>>

----------------------------------------------------------------------------
(* The status poll: _query_status_internal, one at a time.                 *)

PollStart ==
  /\ poll_task = "alive"
  /\ poll = "idle"
  /\ poll' = "lock"
  /\ Enqueue("poll")
  /\ UNCHANGED <<sendVars, taskVars, poll_client, poll_task, lock, msgqueue,
                 fut, wire>>

PollAcquire ==
  /\ poll = "lock"
  /\ Acquire("poll")
  /\ poll' = "connecting"
  /\ UNCHANGED <<sendVars, taskVars, poll_client, poll_task, msgqueue, fut,
                 wire>>

PollConnectOk ==
  /\ poll = "connecting"
  /\ poll' = "session"
  /\ poll_client' = "open"
  /\ Release
  /\ UNCHANGED <<sendVars, taskVars, poll_task, msgqueue, fut, wire>>

PollConnectFail ==
  /\ poll = "connecting"
  /\ poll' = "idle"
  /\ Release
  /\ UNCHANGED <<sendVars, taskVars, poll_client, poll_task, msgqueue, fut,
                 wire>>

\* The next exchange of the poll succeeded.
PollAdvance ==
  /\ \/ poll = "session" /\ poll' = "auth"
     \/ poll = "auth" /\ poll_client = "open" /\ poll' = "query"
     \/ poll = "query" /\ poll' = "teardown"
  /\ UNCHANGED <<sendVars, taskVars, lockVars, poll_client, poll_task,
                 msgqueue, fut, wire>>

\* authenticate returned False, or any of the calls raised.
PollFail ==
  /\ poll \in {"session", "auth", "query"}
  /\ poll' = "teardown"
  /\ UNCHANGED <<sendVars, taskVars, lockVars, poll_client, poll_task,
                 msgqueue, fut, wire>>

\* finally: stop_notify, disconnect and the 0.1 s pause.
PollTeardown ==
  /\ poll = "teardown"
  /\ poll_client' = "none"
  /\ poll' = IF poll_task = "alive" THEN "idle" ELSE "cancelled"
  /\ UNCHANGED <<sendVars, taskVars, lockVars, poll_task, msgqueue, fut, wire>>

\* The coordinator cancels the poll task (the entry is unloaded).
\* CancelledError leaves the lock's queue, or the lock; it passes the
\* "except Exception" clauses, and the finally clause still disconnects.  If
\* it arrives while that clause awaits stop_notify it skips the disconnect.
PollCancel ==
  /\ poll_task = "alive"
  /\ poll_task' = "cancelled"
  /\ \/ /\ poll = "idle"
        /\ poll' = "cancelled"
        /\ UNCHANGED <<lock, waiters>>
     \/ /\ poll = "lock"
        /\ poll' = "cancelled"
        /\ LeaveWaiters("poll")
        /\ UNCHANGED lock
     \/ /\ poll = "connecting"
        /\ poll' = "cancelled"
        /\ Release
     \/ /\ poll \in {"session", "auth", "query"}
        /\ poll' = "teardown"
        /\ UNCHANGED <<lock, waiters>>
     \/ /\ poll = "teardown"
        /\ poll' = "cancelled"
        /\ UNCHANGED <<lock, waiters>>
  /\ UNCHANGED <<sendVars, taskVars, poll_client, msgqueue, fut, wire>>

----------------------------------------------------------------------------
(* The environment and the whole system.                                   *)

\* The plug or the adapter drops a link.
LinkLost ==
  /\ \/ /\ task_client = "open"
        /\ task_client' = "lost"
        /\ UNCHANGED poll_client
     \/ /\ poll_client = "open"
        /\ poll_client' = "lost"
        /\ UNCHANGED task_client
  /\ UNCHANGED <<sendVars, lockVars, must_process, current, task, poll,
                 poll_task, msgqueue, fut, wire>>

\* Every command has been issued and answered, and the entry is unloaded.
Quiescent ==
  /\ issued = MaxCmds
  /\ \A c \in Cmds : caller[c] # "waiting"
  /\ task = "none"
  /\ poll = "cancelled"
  /\ UNCHANGED vars

TaskStep ==
  \/ TaskDrain \/ TaskAcquire \/ TaskConnectOk \/ TaskConnectFail
  \/ TaskSession \/ TaskAuthOk \/ TaskSetupFail
  \/ TaskTake \/ TaskIdle \/ TaskIdleTimeout
  \/ TaskWriteOk \/ TaskWriteFail \/ TaskAck \/ TaskTeardown \/ TaskDone

PollStep ==
  \/ PollAcquire \/ PollConnectOk \/ PollConnectFail
  \/ PollAdvance \/ PollFail \/ PollTeardown

CallerStep == \E c \in Cmds : CallerReturn(c)

Next ==
  \/ Send
  \/ CallerStep
  \/ \E c \in Cmds : CallerTimeout(c)
  \/ \E c \in Cmds : CallerCancel(c)
  \/ CooldownEnds
  \/ TaskStep
  \/ PollStart
  \/ PollStep
  \/ PollCancel
  \/ LinkLost
  \/ Quiescent

\* The event loop runs every ready continuation, and every await of the task
\* and the poll is bounded (connect, notify, reply and idle timeouts), so both
\* keep moving.  Nobody has to call, to cancel or to poll again.
Fairness ==
  /\ WF_vars(TaskStep)
  /\ WF_vars(PollStep)
  /\ WF_vars(CallerStep)

Spec == Init /\ [][Next]_vars /\ Fairness

----------------------------------------------------------------------------
(* Properties.                                                             *)

\* The commands that still need a verdict, oldest first.
Line == (IF current = 0 THEN <<>> ELSE <<current>>) \o must_process \o msgqueue

Backlog == Len(msgqueue) + Len(must_process) + (IF current = 0 THEN 0 ELSE 1)

\* The pending futures are those of the youngest Backlog commands: futures are
\* resolved in issue order, none is dropped with its caller still waiting and
\* none that is still in a queue is already resolved, so no set_result in
\* _message_task_fn can raise InvalidStateError.
BacklogIsPending ==
  /\ \A c \in Cmds : fut[c] = "pending" <=> c + Backlog > issued
  /\ \A i \in 1..Len(Line) : Line[i] + Len(Line) = issued + i

\* While a command lacks its verdict a message task exists, whatever the order
\* of _send_message, the idle timeout and _message_task_done.
NoLostWakeup ==
  (\E c \in 1..issued : fut[c] = "pending") => task # "none"

\* The plug is sent the commands in the order they were issued and none twice,
\* across connections, failures and restarts of the message task.
WireOrder ==
  \A i, j \in 1..Len(wire) : i < j => wire[i] < wire[j]

\* _send_message returns True only for a command that was written to the plug.
TrueMeansWritten ==
  \A c \in Cmds : (fut[c] = "true" \/ caller[c] = "true")
                    => \E i \in 1..Len(wire) : wire[i] = c

\* The message task and the poll never run establish_connection at the same
\* time: "Use connection lock to prevent concurrent connection attempts".
SerialConnects == ~(task = "connecting" /\ poll = "connecting")

\* A BleakClient outlives the code that opened it only if the poll was
\* cancelled: every other way out, early returns and exceptions included,
\* passes through the disconnect of a finally clause.
ConnectionOwned ==
  /\ task_client # "none" =>
       task \in {"session", "auth", "process", "idle", "writing", "acking",
                 "teardown"}
  /\ poll_client # "none" =>
       poll \in {"session", "auth", "query", "teardown", "cancelled"}

\* "Anything that was queued while the connection was failing deserves another
\* try": a command is failed only by the message task that took it.
QueuedGetsItsTry ==
  [][\A c \in Cmds : (\E i \in 1..Len(msgqueue) : msgqueue[i] = c)
                       => fut'[c] = "pending"]_vars

\* The transport implements the command service, its liveness included: every
\* command gets a verdict and every caller that waits is told.
Service == INSTANCE CommandService
             WITH pending <- Line, verdict <- fut, reply <- caller
ImplementsService == Service!Spec

\* The inductive invariant behind the safety properties: the issue numbers of
\* what each queue holds, which await points can hold commands, who holds the
\* lock, and that what was written is resolved or being acknowledged.
QueueNumbers ==
  /\ \A i \in 1..Len(msgqueue) : msgqueue[i] + Len(msgqueue) = issued + i
  /\ \A i \in 1..Len(must_process) :
       must_process[i] + Len(must_process) + Len(msgqueue) = issued + i
  /\ current # 0 => current + Len(must_process) + Len(msgqueue) = issued

PendingIsBacklog ==
  \A c \in Cmds : fut[c] = "pending" <=> c + Backlog > issued

TaskHolds ==
  /\ current # 0 <=> task \in {"writing", "acking"}
  /\ must_process # <<>> =>
       task \in {"lock", "connecting", "session", "auth", "process",
                 "writing", "acking"}
  /\ task = "none" => msgqueue = <<>>

LockHolder ==
  /\ task = "connecting" <=> lock = "task"
  /\ poll = "connecting" <=> lock = "poll"

WireResolved ==
  /\ \A i \in 1..Len(wire) :
       fut[wire[i]] # "pending" \/ (task = "acking" /\ wire[i] = current)
  /\ task = "acking" => \E i \in 1..Len(wire) : wire[i] = current

IndInv ==
  /\ TypeOK
  /\ QueueNumbers
  /\ PendingIsBacklog
  /\ TaskHolds
  /\ LockHolder
  /\ WireResolved
  /\ WireOrder
  /\ TrueMeansWritten
  /\ ConnectionOwned

=============================================================================
