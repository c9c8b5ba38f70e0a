---------------------------- MODULE LightTransport ----------------------------
(***************************************************************************)
(* The command transport of GoveePlugH6xxx (light.py), which the lights    *)
(* use: as in PlugTransport callers queue commands for one message task,   *)
(* but a command is delivered by up to MAX_COMMAND_ATTEMPTS writes, each   *)
(* on a live connection, nobody waits for an ack and no caller gives up by *)
(* itself.  The status query of the H6163 and the colour probe open        *)
(* connections of their own behind the same lock.                          *)
(***************************************************************************)
EXTENDS Naturals, Sequences

CONSTANTS
  MAX_COMMAND_ATTEMPTS,
  MaxCmds        \* bound: how many commands are ever issued

ASSUME AttemptsAssumption == MAX_COMMAND_ATTEMPTS \in Nat \ {0}
ASSUME MaxCmdsAssumption == MaxCmds \in Nat \ {0}

VARIABLES
  issued,     \* number of _send_message calls so far
  msgqueue,   \* self._msgqueue
  current,    \* the command _deliver works on, 0 if none
  attempt,    \* its attempt
  verdict,    \* what _deliver made of each command
  caller,     \* what each _send_message call is doing, or has returned
  task,       \* the message task: its await point; "none": no task
  client,     \* its BleakClient
  leaked,     \* connected clients nobody refers to any more
  lock,       \* holder of self._connection_lock
  waiters,    \* tasks queued on it, in arrival order
  side,       \* await points of the status query and of the colour probe
  wire        \* history: writes that reached the light, in order

callVars == <<issued, msgqueue, caller>>
deliverVars == <<current, attempt, verdict>>
linkVars == <<client, leaked>>
lockVars == <<lock, waiters>>
vars == <<callVars, deliverVars, task, linkVars, lockVars, side, wire>>

Cmds == 1..MaxCmds
Sides == {"query", "probe"}

TypeOK ==
  /\ issued \in 0..MaxCmds
  /\ msgqueue \in Seq(Cmds)
  /\ current \in 0..MaxCmds
  /\ attempt \in 0..MAX_COMMAND_ATTEMPTS
  /\ verdict \in [Cmds -> {"pending", "true", "false"}]
  /\ caller \in [Cmds -> {"none", "waiting", "true", "false", "cancelled"}]
  /\ task \in {"none", "created", "serve", "ensure", "lock", "connecting",
               "writing", "idle", "teardown", "done"}
  /\ client \in {"none", "open", "lost"}
  /\ leaked \in Nat
  /\ lock \in {"free", "task"} \cup Sides
  /\ waiters \in Seq({"task"} \cup Sides)
  /\ side \in [Sides -> {"idle", "lock", "connecting", "connected"}]
  /\ wire \in Seq(Cmds)

Init ==
  /\ issued = 0
  /\ msgqueue = <<>>
  /\ current = 0
  /\ attempt = 0
  /\ verdict = [c \in Cmds |-> "pending"]
  /\ caller = [c \in Cmds |-> "none"]
  /\ task = "none"
  /\ client = "none"
  /\ leaked = 0
  /\ lock = "free"
  /\ waiters = <<>>
  /\ side = [s \in Sides |-> "idle"]
  /\ wire = <<>>

----------------------------------------------------------------------------
(* Callers.                                                                *)

Send ==
  /\ issued < MaxCmds
  /\ issued' = issued + 1
  /\ msgqueue' = Append(msgqueue, issued + 1)
  /\ caller' = [caller EXCEPT ![issued + 1] = "waiting"]
  /\ task' = IF task = "none" THEN "created" ELSE task
  /\ UNCHANGED <<deliverVars, linkVars, lockVars, side, wire>>

CallerReturn(c) ==
  /\ caller[c] = "waiting"
  /\ verdict[c] # "pending"
  /\ caller' = [caller EXCEPT ![c] = verdict[c]]
  /\ UNCHANGED <<issued, msgqueue, deliverVars, task, linkVars, lockVars,
                 side, wire>>

\* A cancelled caller cancels its future; the command stays in the queue and
\* _deliver finds the future done.
CallerCancel(c) ==
  /\ caller[c] = "waiting"
  /\ caller' = [caller EXCEPT ![c] = "cancelled"]
  /\ UNCHANGED <<issued, msgqueue, deliverVars, task, linkVars, lockVars,
                 side, wire>>

----------------------------------------------------------------------------
(* self._connection_lock.                                                  *)

Enqueue(who) == waiters' = Append(waiters, who)

Acquire(who) ==
  /\ lock = "free"
  /\ waiters # <<>>
  /\ Head(waiters) = who
  /\ lock' = who
  /\ waiters' = Tail(waiters)

Release == lock' = "free" /\ UNCHANGED waiters

----------------------------------------------------------------------------
(* The message task.                                                       *)

\* Mutant of Take: starts where the last command left off.
TakeKeepAttempt ==
  /\ task \in {"created", "serve", "idle"}
  /\ msgqueue # <<>>
  /\ current' = Head(msgqueue)
  /\ msgqueue' = Tail(msgqueue)
  /\ attempt' = IF attempt = 0 THEN 1 ELSE attempt + 1
  /\ task' = "ensure"
  /\ UNCHANGED <<issued, caller, verdict, linkVars, lockVars, side, wire>>

\* The next command, drained or waited for.
Take ==
  /\ task \in {"created", "serve", "idle"}
  /\ msgqueue # <<>>
  /\ current' = Head(msgqueue)
  /\ msgqueue' = Tail(msgqueue)
  /\ attempt' = 1
  /\ task' = "ensure"
  /\ UNCHANGED <<issued, caller, verdict, linkVars, lockVars, side, wire>>

Idle ==
  /\ task = "serve"
  /\ msgqueue = <<>>
  /\ task' = "idle"
  /\ UNCHANGED <<callVars, deliverVars, linkVars, lockVars, side, wire>>

\* Mutant of IdleTimeout: the loop goes on with the connection it has.
IdleTimeoutServes ==
  /\ task = "idle"
  /\ task' = "serve"
  /\ UNCHANGED <<callVars, deliverVars, linkVars, lockVars, side, wire>>

\* Perhaps just as a command is queued: the cancelled get() leaves it there.
IdleTimeout ==
  /\ task = "idle"
  /\ task' = "teardown"
  /\ UNCHANGED <<callVars, deliverVars, linkVars, lockVars, side, wire>>

\* _ensure_client: a live client is used ...
EnsureOpen ==
  /\ task = "ensure"
  /\ client = "open"
  /\ task' = "writing"
  /\ UNCHANGED <<callVars, deliverVars, linkVars, lockVars, side, wire>>

\* ... a dead one is disconnected, and a new one needs the lock.
EnsureNew ==
  /\ task = "ensure"
  /\ client # "open"
  /\ client' = "none"
  /\ task' = "lock"
  /\ Enqueue("task")
  /\ UNCHANGED <<callVars, deliverVars, leaked, lock, side, wire>>

TaskAcquire ==
  /\ task = "lock"
  /\ Acquire("task")
  /\ task' = "connecting"
  /\ UNCHANGED <<callVars, deliverVars, linkVars, side, wire>>

ConnectOk ==
  /\ task = "connecting"
  /\ client' = "open"
  /\ task' = "writing"
  /\ Release
  /\ UNCHANGED <<callVars, deliverVars, leaked, side, wire>>

\* The except clause of _deliver: try again, or give up on the command.
AttemptFailed ==
  IF attempt < MAX_COMMAND_ATTEMPTS
  THEN /\ attempt' = attempt + 1
       /\ task' = "ensure"
       /\ UNCHANGED <<current, verdict>>
  ELSE /\ verdict' = [verdict EXCEPT ![current] = "false"]
       /\ current' = 0
       /\ task' = "serve"
       /\ UNCHANGED attempt

\* establish_connection raised or took longer than CONNECT_TIMEOUT_SECONDS.
ConnectFail ==
  /\ task = "connecting"
  /\ AttemptFailed
  /\ Release
  /\ UNCHANGED <<callVars, linkVars, side, wire>>

WriteOk ==
  /\ task = "writing"
  /\ client = "open"
  /\ wire' = Append(wire, current)
  /\ verdict' = [verdict EXCEPT ![current] = "true"]
  /\ current' = 0
  /\ task' = "serve"
  /\ UNCHANGED <<callVars, attempt, linkVars, lockVars, side>>

\* Mutant of WriteFail: the failed attempt is not counted.
WriteFailUncounted ==
  /\ task = "writing"
  /\ \/ UNCHANGED wire
     \/ client = "open" /\ wire' = Append(wire, current)
  /\ leaked' = IF client = "open" THEN leaked + 1 ELSE leaked
  /\ client' = "none"
  /\ task' = "ensure"
  /\ UNCHANGED <<callVars, deliverVars, lockVars, side>>

\* The write raised, perhaps after the light applied it.  The client is
\* forgotten without a disconnect, whether or not it is still connected.
WriteFail ==
  /\ task = "writing"
  /\ \/ UNCHANGED wire
     \/ client = "open" /\ wire' = Append(wire, current)
  /\ leaked' = IF client = "open" THEN leaked + 1 ELSE leaked
  /\ client' = "none"
  /\ AttemptFailed
  /\ UNCHANGED <<callVars, lockVars, side>>

\* Mutant of Teardown: the client is not disconnected.
TeardownForgets ==
  /\ task = "teardown"
  /\ leaked' = IF client = "open" THEN leaked + 1 ELSE leaked
  /\ client' = "none"
  /\ task' = "done"
  /\ UNCHANGED <<callVars, deliverVars, lockVars, side, wire>>

Teardown ==
  /\ task = "teardown"
  /\ client' = "none"
  /\ task' = "done"
  /\ UNCHANGED <<callVars, deliverVars, leaked, lockVars, side, wire>>

\* Mutant of TaskDone: it never restarts the task.
TaskDoneNoRestart ==
  /\ task = "done"
  /\ task' = "none"
  /\ UNCHANGED <<callVars, deliverVars, linkVars, lockVars, side, wire>>

\* _message_task_done: restart if commands are waiting.
TaskDone ==
  /\ task = "done"
  /\ task' = IF msgqueue = <<>> THEN "none" ELSE "created"
  /\ UNCHANGED <<callVars, deliverVars, linkVars, lockVars, side, wire>>

----------------------------------------------------------------------------
(* async_query_status of the H6163 and async_probe_color_read: one          *)
(* connection each, disconnected by their finally clauses.                  *)

SideStart(s) ==
  /\ side[s] = "idle"
  /\ side' = [side EXCEPT ![s] = "lock"]
  /\ Enqueue(s)
  /\ UNCHANGED <<callVars, deliverVars, task, linkVars, lock, wire>>

SideAcquire(s) ==
  /\ side[s] = "lock"
  /\ Acquire(s)
  /\ side' = [side EXCEPT ![s] = "connecting"]
  /\ UNCHANGED <<callVars, deliverVars, task, linkVars, wire>>

\* Connected, or not: the query and the probe return without another attempt.
SideConnects(s) ==
  /\ side[s] = "connecting"
  /\ \E to \in {"connected", "idle"} : side' = [side EXCEPT ![s] = to]
  /\ Release
  /\ UNCHANGED <<callVars, deliverVars, task, linkVars, wire>>

SideEnds(s) ==
  /\ side[s] = "connected"
  /\ side' = [side EXCEPT ![s] = "idle"]
  /\ UNCHANGED <<callVars, deliverVars, task, linkVars, lockVars, wire>>

\* The bulb drops an idle connection.
LinkLost ==
  /\ client = "open"
  /\ client' = "lost"
  /\ UNCHANGED <<callVars, deliverVars, task, leaked, lockVars, side, wire>>

----------------------------------------------------------------------------
TaskStep ==
  \/ Take \/ Idle \/ IdleTimeout
  \/ EnsureOpen \/ EnsureNew \/ TaskAcquire \/ ConnectOk \/ ConnectFail
  \/ WriteOk \/ WriteFail \/ Teardown \/ TaskDone

SideStep(s) == SideAcquire(s) \/ SideConnects(s) \/ SideEnds(s)

CallerStep == \E c \in Cmds : CallerReturn(c)

Next ==
  \/ Send \/ CallerStep
  \/ \E c \in Cmds : CallerCancel(c)
  \/ TaskStep
  \/ \E s \in Sides : SideStart(s) \/ SideStep(s)
  \/ LinkLost

\* The event loop runs every ready continuation and every await of the task,
\* the query and the probe is bounded.
Spec ==
  /\ Init /\ [][Next]_vars
  /\ WF_vars(TaskStep)
  /\ WF_vars(CallerStep)
  /\ \A s \in Sides : WF_vars(SideStep(s))

----------------------------------------------------------------------------
(* Properties.                                                             *)

\* Commands reach the light in the order in which they were issued, across
\* retries and connections, and none more often than it is attempted.
WireOrder ==
  /\ \A i, j \in 1..Len(wire) : i < j => wire[i] <= wire[j]
  /\ \A i \in 1..Len(wire) :
       i + MAX_COMMAND_ATTEMPTS <= Len(wire)
         => wire[i] < wire[i + MAX_COMMAND_ATTEMPTS]

\* Only a failed write can leave a connection behind: every other way through
\* the task, reconnects included, disconnects the client it had.
LeaksOnlyFailedWrites == [][leaked' > leaked => task = "writing"]_vars

\* The light gives its connection back: no later than some retries and an idle
\* wait after the last command the task disconnects and ends.  Nothing else
\* ends it: the entry's unload stops the coordinator only (__init__.py:160).
TaskRests == <>[](task = "none" /\ client = "none")

\* The lights' transport makes the same promise as the plugs': first in first
\* out, one verdict each, and, under the fairness of Spec, no caller waits
\* for ever although its await has no timeout.
Service == INSTANCE CommandService
             WITH pending <- (IF current = 0 THEN <<>> ELSE <<current>>)
                               \o msgqueue,
                  reply <- caller
ImplementsService == Service!Spec
==============================================================================
