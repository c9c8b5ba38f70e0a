----------------------------- MODULE Coordinator -----------------------------
(***************************************************************************)
(* GoveePlugDataUpdateCoordinator (coordinator.py) and the life of its     *)
(* config entry (__init__.py): deferred creation of the device API, the    *)
(* polling loop with backoff, the one-time startup poll, unload and reload *)
(* (a change of the options reloads the entry).                            *)
(*                                                                         *)
(* The device API is seen from its caller: a query runs for a while, may   *)
(* have parsed a state before it disconnects, and then returns True or     *)
(* False or raises.  Commands are the business of PlugState.               *)
(***************************************************************************)
EXTENDS Naturals, Sequences

CONSTANTS
  DISCOVERY_TICKS,  \* STARTUP_DISCOVERY_TICKS
  POLL_ATTEMPTS,    \* STARTUP_POLL_ATTEMPTS
  MaxFailures       \* bound: _consecutive_failures is counted up to here

POLLING_INTERVAL == 30
MAX_BACKOFF_INTERVAL == 300
BACKOFF_MULTIPLIER == 2

ASSUME StartupAssumption ==
  DISCOVERY_TICKS \in Nat \ {0} /\ POLL_ATTEMPTS \in Nat \ {0}
\* From MaxFailures on the backoff is at its maximum: counting on is no use.
ASSUME FailuresAssumption ==
  /\ MaxFailures \in Nat
  /\ POLLING_INTERVAL * BACKOFF_MULTIPLIER ^ MaxFailures
       >= MAX_BACKOFF_INTERVAL
\* Arithmetic, for the provers, which do not know powers.
ASSUME PowersAssumption ==
  \A n \in 0..MaxFailures : BACKOFF_MULTIPLIER ^ n \in Nat \ {0}
VARIABLES
  entry,           \* the config entry: "unloaded", "loaded" or "unloading"
  supportedModel,  \* does the registry know the entry's model?
  enable_polling,  \* the option the coordinator was created with
  api,             \* self.api is set
  ble_device,      \* self.ble_device is set
  task,            \* where self._polling_task is
  cancelled,       \* _polling_enabled is False and the task is cancelled
  ticks,           \* startup: rounds spent waiting for the device
  attempt,         \* startup: number of the current attempt
  outcome,         \* what the query in progress is about to return
  consecutive_failures, current_backoff,
  status_query_supported, status_query_failures,
  known,           \* the API holds a state
  shown,           \* the entities have written a state
  reachable,       \* adapter and scanner work and know the device
  results          \* history: what the last queries returned, at most three

entryVars == <<entry, supportedModel, enable_polling>>
apiVars == <<api, ble_device>>
startupVars == <<ticks, attempt>>
backoffVars == <<consecutive_failures, current_backoff>>
queryVars == <<status_query_supported, status_query_failures>>
stateVars == <<known, shown>>
vars == <<entryVars, apiVars, task, cancelled, startupVars, outcome,
          backoffVars, queryVars, stateVars, reachable, results>>

Outcomes == {"state", "empty", "false", "raised"}

TypeOK ==
  /\ entry \in {"unloaded", "loaded", "unloading"}
  /\ supportedModel \in BOOLEAN
  /\ enable_polling \in BOOLEAN
  /\ api \in BOOLEAN
  /\ ble_device \in BOOLEAN
  /\ task \in {"none", "ready", "sleeping", "querying", "closing", "done"}
  /\ cancelled \in BOOLEAN
  /\ ticks \in 0..DISCOVERY_TICKS
  /\ attempt \in 0..POLL_ATTEMPTS
  /\ outcome \in Outcomes \cup {"none"}
  /\ consecutive_failures \in 0..MaxFailures
  /\ current_backoff \in POLLING_INTERVAL..MAX_BACKOFF_INTERVAL
  /\ status_query_supported \in BOOLEAN
  /\ status_query_failures \in 0..3
  /\ known \in BOOLEAN
  /\ shown \in BOOLEAN
  /\ reachable \in BOOLEAN
  /\ results \in Seq(Outcomes) /\ Len(results) <= 3

Init ==
  /\ entry = "unloaded"
  /\ supportedModel \in BOOLEAN
  /\ enable_polling = FALSE
  /\ api = FALSE
  /\ ble_device = FALSE
  /\ task = "none"
  /\ cancelled = FALSE
  /\ ticks = 0
  /\ attempt = 0
  /\ outcome = "none"
  /\ consecutive_failures = 0
  /\ current_backoff = POLLING_INTERVAL
  /\ status_query_supported = TRUE
  /\ status_query_failures = 0
  /\ known = FALSE
  /\ shown = FALSE
  /\ reachable \in BOOLEAN
  /\ results = <<>>

----------------------------------------------------------------------------
(* Setup, unload, reload.                                                  *)

\* async_setup_entry with a new coordinator, up to async_start.  An unknown
\* model is an error if the device is there, and is found out later if not.
SetupEntry ==
  /\ entry = "unloaded"
  /\ entry' = "loaded"
  /\ ble_device' \in BOOLEAN
  /\ ble_device' => supportedModel
  /\ api' = ble_device'
  /\ enable_polling' \in BOOLEAN
  /\ task' = "ready"
  /\ cancelled' = FALSE
  /\ ticks' = 0
  /\ attempt' = 0
  /\ outcome' = "none"
  /\ consecutive_failures' = 0
  /\ current_backoff' = POLLING_INTERVAL
  /\ status_query_supported' = TRUE
  /\ status_query_failures' = 0
  /\ known' = FALSE
  /\ shown' = FALSE
  /\ results' = <<>>
  /\ UNCHANGED <<supportedModel, reachable>>

\* async_unload_entry: the platforms are gone, async_shutdown cancels the task.
UnloadEntry ==
  /\ entry = "loaded"
  /\ entry' = "unloading"
  /\ cancelled' = TRUE
  /\ UNCHANGED <<supportedModel, enable_polling, apiVars, task, startupVars,
                 outcome, backoffVars, queryVars, stateVars, reachable, results>>

\* Mutant of ShutdownReturns: does not await the cancelled task.
ShutdownReturnsAtOnce ==
  /\ entry = "unloading"
  /\ entry' = "unloaded"
  /\ UNCHANGED <<supportedModel, enable_polling, apiVars, task, cancelled,
                 startupVars, outcome, backoffVars, queryVars, stateVars,
                 reachable, results>>

\* async_shutdown has awaited the task.
ShutdownReturns ==
  /\ entry = "unloading"
  /\ task = "done"
  /\ entry' = "unloaded"
  /\ task' = "none"
  /\ UNCHANGED <<supportedModel, enable_polling, apiVars, cancelled,
                 startupVars, outcome, backoffVars, queryVars, stateVars,
                 reachable, results>>

----------------------------------------------------------------------------
(* Advertisements and the adapter.                                         *)

\* _async_handle_bluetooth_event: the first one creates the API if setup found
\* no device; ble_device stays set when that fails.  It may carry a state.
Advert(carriesState) ==
  /\ entry # "unloaded"
  /\ ble_device' = TRUE
  /\ api' = (api \/ (~ble_device /\ supportedModel))
  /\ known' = (known \/ (api' /\ carriesState))
  /\ shown' = IF entry = "loaded" THEN known' ELSE shown
  /\ UNCHANGED <<entryVars, task, cancelled, startupVars, outcome, backoffVars,
                 queryVars, reachable, results>>

AdapterChanges ==
  /\ reachable' = ~reachable
  /\ UNCHANGED <<entryVars, apiVars, task, cancelled, startupVars, outcome,
                 backoffVars, queryVars, stateVars, results>>

----------------------------------------------------------------------------
(* The polling loop, one round of it per wake-up.                          *)

Wakes == task \in {"ready", "sleeping"} /\ ~cancelled
InRound == Wakes /\ enable_polling

\* The backoff after n failures in a row.
Backoff(n) ==
  LET interval == POLLING_INTERVAL * BACKOFF_MULTIPLIER ^ n
  IN  IF interval < MAX_BACKOFF_INTERVAL THEN interval
                                         ELSE MAX_BACKOFF_INTERVAL

CountFailure ==
  /\ consecutive_failures' = IF consecutive_failures < MaxFailures
                             THEN consecutive_failures + 1 ELSE MaxFailures
  /\ current_backoff' = Backoff(consecutive_failures')

ResetBackoff ==
  /\ consecutive_failures' = 0
  /\ current_backoff' = POLLING_INTERVAL

SkipUndiscovered ==
  /\ InRound
  /\ ~api \/ ~ble_device
  /\ task' = "sleeping"
  /\ UNCHANGED <<entryVars, apiVars, cancelled, startupVars, outcome,
                 backoffVars, queryVars, stateVars, reachable, results>>

\* Mutant of SkipUnreachable: leaves the loop.
SkipUnreachableStops ==
  /\ InRound
  /\ api /\ ble_device
  /\ ~reachable
  /\ CountFailure
  /\ task' = "done"
  /\ UNCHANGED <<entryVars, apiVars, cancelled, startupVars, outcome,
                 queryVars, stateVars, reachable, results>>

SkipUnreachable ==
  /\ InRound
  /\ api /\ ble_device
  /\ ~reachable
  /\ CountFailure
  /\ task' = "sleeping"
  /\ UNCHANGED <<entryVars, apiVars, cancelled, startupVars, outcome,
                 queryVars, stateVars, reachable, results>>

SkipUnsupported ==
  /\ InRound
  /\ api /\ ble_device
  /\ reachable
  /\ ~status_query_supported
  /\ ResetBackoff
  /\ task' = "sleeping"
  /\ UNCHANGED <<entryVars, apiVars, cancelled, startupVars, outcome,
                 queryVars, stateVars, reachable, results>>

PollQueries ==
  /\ InRound
  /\ api /\ ble_device
  /\ reachable
  /\ status_query_supported
  /\ task' = "querying"
  /\ UNCHANGED <<entryVars, apiVars, cancelled, startupVars, outcome,
                 backoffVars, queryVars, stateVars, reachable, results>>

\* The query has its result, parsed or not, and goes on to disconnect.
QueryEnds(o) ==
  /\ task = "querying"
  /\ ~cancelled
  /\ task' = "closing"
  /\ outcome' = o
  /\ known' = (known \/ o = "state")
  /\ results' = LET all == Append(results, o)
                IN  IF Len(all) > 3 THEN Tail(all) ELSE all
  /\ UNCHANGED <<entryVars, apiVars, cancelled, startupVars, backoffVars,
                 queryVars, shown, reachable>>

\* Mutant of PollSucceeds: the delay of the last outage stays.
PollSucceedsKeepsBackoff ==
  /\ task = "closing" /\ ~cancelled /\ enable_polling
  /\ outcome # "raised"
  /\ status_query_failures' = 0
  /\ shown' = known
  /\ task' = "sleeping"
  /\ UNCHANGED <<entryVars, apiVars, cancelled, startupVars, outcome,
                 backoffVars, status_query_supported, known, reachable, results>>

\* Mutant of PollSucceeds: failures of the query add up over successes.
PollSucceedsNoReset ==
  /\ task = "closing" /\ ~cancelled /\ enable_polling
  /\ outcome # "raised"
  /\ ResetBackoff
  /\ shown' = known
  /\ task' = "sleeping"
  /\ UNCHANGED <<entryVars, apiVars, cancelled, startupVars, outcome,
                 queryVars, known, reachable, results>>

\* The query returned; whether True or False is not looked at.
PollSucceeds ==
  /\ task = "closing" /\ ~cancelled /\ enable_polling
  /\ outcome # "raised"
  /\ ResetBackoff
  /\ status_query_failures' = 0
  /\ shown' = known
  /\ task' = "sleeping"
  /\ UNCHANGED <<entryVars, apiVars, cancelled, startupVars, outcome,
                 status_query_supported, known, reachable, results>>

\* Mutant of PollRaises: off by one.
PollRaisesFour ==
  /\ task = "closing" /\ ~cancelled /\ enable_polling
  /\ outcome = "raised"
  /\ status_query_failures' = status_query_failures + 1
  /\ status_query_supported' = (status_query_failures' <= 3)
  /\ IF status_query_supported' THEN CountFailure ELSE UNCHANGED backoffVars
  /\ task' = "sleeping"
  /\ UNCHANGED <<entryVars, apiVars, cancelled, startupVars, outcome,
                 stateVars, reachable, results>>

\* The query raised: the third time in a row it is taken as unsupported.
PollRaises ==
  /\ task = "closing" /\ ~cancelled /\ enable_polling
  /\ outcome = "raised"
  /\ status_query_failures' = status_query_failures + 1
  /\ status_query_supported' = (status_query_failures' < 3)
  /\ IF status_query_supported' THEN CountFailure ELSE UNCHANGED backoffVars
  /\ task' = "sleeping"
  /\ UNCHANGED <<entryVars, apiVars, cancelled, startupVars, outcome,
                 stateVars, reachable, results>>

----------------------------------------------------------------------------
(* The startup poll.                                                       *)

\* Waiting for the device to be discovered, in vain after the last tick.
StartupWaits ==
  /\ Wakes /\ ~enable_polling
  /\ attempt = 0
  /\ ~api \/ ~ble_device \/ ticks = DISCOVERY_TICKS
  /\ IF ticks < DISCOVERY_TICKS
     THEN ticks' = ticks + 1 /\ task' = "sleeping"
     ELSE task' = "done" /\ UNCHANGED ticks
  /\ UNCHANGED <<entryVars, apiVars, cancelled, attempt, outcome, backoffVars,
                 queryVars, stateVars, reachable, results>>

\* The device is there, or an attempt has failed and its delay is over.
StartupQueries ==
  /\ Wakes /\ ~enable_polling
  /\ attempt # 0 \/ (api /\ ble_device /\ ticks < DISCOVERY_TICKS)
  /\ IF attempt < POLL_ATTEMPTS
     THEN attempt' = attempt + 1 /\ task' = "querying"
     ELSE task' = "done" /\ UNCHANGED attempt
  /\ UNCHANGED <<entryVars, apiVars, cancelled, ticks, outcome, backoffVars,
                 queryVars, stateVars, reachable, results>>

\* Mutant of StartupReturns: the listeners are not told.
StartupReturnsSilently ==
  /\ task = "closing" /\ ~cancelled /\ ~enable_polling
  /\ task' = IF outcome \in {"state", "empty"} THEN "done" ELSE "sleeping"
  /\ UNCHANGED <<entryVars, apiVars, cancelled, startupVars, outcome,
                 backoffVars, queryVars, stateVars, reachable, results>>

\* True ends the startup poll; False or an error is tried again.
StartupReturns ==
  /\ task = "closing" /\ ~cancelled /\ ~enable_polling
  /\ IF outcome \in {"state", "empty"}
     THEN shown' = known /\ task' = "done"
     ELSE task' = "sleeping" /\ UNCHANGED shown
  /\ UNCHANGED <<entryVars, apiVars, cancelled, startupVars, outcome,
                 backoffVars, queryVars, known, reachable, results>>

----------------------------------------------------------------------------
(* The cancellation is delivered wherever the task waits; a query first     *)
(* passes its finally clause.                                               *)

TaskCancelled ==
  /\ cancelled
  /\ task \notin {"none", "done"}
  /\ task' = IF task = "querying" THEN "closing" ELSE "done"
  /\ UNCHANGED <<entryVars, apiVars, cancelled, startupVars, outcome,
                 backoffVars, queryVars, stateVars, reachable, results>>

----------------------------------------------------------------------------
PollRound ==
  \/ SkipUndiscovered \/ SkipUnreachable \/ SkipUnsupported \/ PollQueries

Query == \E o \in Outcomes : QueryEnds(o)

TaskStep ==
  \/ PollRound \/ Query \/ PollSucceeds \/ PollRaises
  \/ StartupWaits \/ StartupQueries \/ StartupReturns
  \/ TaskCancelled

Next ==
  \/ SetupEntry \/ UnloadEntry \/ ShutdownReturns
  \/ \E carriesState \in BOOLEAN : Advert(carriesState)
  \/ AdapterChanges
  \/ TaskStep

\* The event loop runs every task that can run, and sleeps and queries end.
Spec == Init /\ [][Next]_vars /\ WF_vars(TaskStep) /\ WF_vars(ShutdownReturns)

----------------------------------------------------------------------------
(* Properties.                                                             *)

\* Nothing of a coordinator survives its entry: when async_shutdown has
\* returned, its task is gone, also if it was in the middle of a query, so that
\* a reloaded entry does not compete with its predecessor.
NothingSurvives == entry = "unloaded" => task = "none"

\* The query is taken as unsupported when and only when it raised three times
\* in a row, whatever outages of the adapter come in between.
ThreeFailuresLatch ==
  ~status_query_supported =>
    results = [i \in 1..3 |-> "raised"] /\ status_query_failures = 3

\* Entities show the API's state, from an advertisement or a poll, except while
\* the query that brought it is still disconnecting.
StateIsShown ==
  entry = "loaded" /\ known /\ ~shown => task = "closing" /\ outcome = "state"

\* As long as it is loaded with a device and a working adapter, the loop goes
\* on asking, unless it concluded that there is nothing to ask.
Pollable == entry = "loaded" /\ enable_polling /\ api /\ reachable
PollsContinue ==
  <>[](Pollable /\ status_query_supported) => []<>(task = "querying")

\* After an outage the delay goes back to the polling interval.
Answers == Len(results) > 0 => results[Len(results)] # "raised"
BackoffRecovers ==
  <>[](Pollable /\ Answers) => <>[](current_backoff = POLLING_INTERVAL)

\* README, "active status polling with exponential backoff": a poll that failed
\* to get through to the plug (async_query_status returned False) makes the next
\* one wait longer.
FailedPollsBackOff ==
  [][task = "closing" /\ task' = "sleeping" /\ enable_polling
       /\ outcome = "false"
       => \/ current_backoff' > current_backoff
          \/ current_backoff = MAX_BACKOFF_INTERVAL]_vars
==============================================================================
