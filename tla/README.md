# Verification of the Govee BLE integration

TLA+ models of `custom_components/govee_ble_plugs`, the Home Assistant
integration for Govee plugs, lights and sensors, with the TLC configurations that
check them on small instances and TLAPS proofs for every value of the constants.
`PROJECT.json` lists the components, the runs, a mutant for every property, the
lines of source each definition stands for, the hazards and the theorems. Paths
below are relative to `custom_components/govee_ble_plugs/`.

Everything in the integration runs on one asyncio event loop. A model's action is
therefore the code between two awaits, and at an await any other task, callback or
frame may come first. Timeouts are choices: an awaited call with a timeout may
succeed, time out or raise.

## 1. Inventory

| Component | State | Operations | Hard about it |
|---|---|---|---|
| Plug command transport, `plugs.py` `GoveePlugH508x` | `_msgqueue`, a future per command, the message task with its local `must_process`, `_connection_lock`, a `BleakClient`, `_last_command_time` | `_send_message`, `_message_task_fn`, `_message_task_done`, `_ensure_message_task` | callers that give up behind a shield, a task that ends while a command is queued, writes that raise, one lock for two connections |
| Status poll, `_query_status_internal` | its own client | connect, open session, authenticate, collect, disconnect | runs beside the message task, is cancelled on unload |
| Plug state, `GoveePlugH5080/5082/5083/5086` | `_is_on` per relay, the cooldown | `async_turn_on/off`, `handle_bluetooth_event`, `async_query_status`, the parsers | optimistic state against delayed or repeated advertisements and overtaken poll replies |
| BLE session, `session.py` with `crypto.py` | frame queue, keys, encrypted or not | `open`, `authenticate`, `fetch_token`, `send_command`, `request_and_collect` | re-keying with frames on the air, late replies, legacy firmware |
| Coordinator, `coordinator.py` | `_api`, backoff, failure counters, the unsupported latch, the task | `_async_polling_loop`, `_async_startup_poll`, `_handle_bluetooth_event`, `async_start`, `async_shutdown` | outages, late discovery, unloading in the middle of a query |
| Entry life, `__init__.py` | the loaded entry and its coordinator | setup, unload, reload on changed options | old and new coordinator of one plug |
| Migration of the old domain, `__init__.py`, `config_flow.py` | entries of both domains, scheduled imports and removals | `async_setup`, `async_step_import` | crash between two steps, a flow open for the same device |
| Config flow and pairing, `config_flow.py`, `GoveePlugPairer` | the flow's discovery, selection and pairer, the token future | user, bluetooth and link steps, `begin`, `_fetch_token`, `finish` | two flows, an answer that comes after the flow has gone, retry after a failure |
| Light command transport, `light.py` `GoveePlugH6xxx` | queue, futures, message task, lock, client | as for plugs, with up to three writes per command; status query, colour probe | a write that raised may have been applied; nobody times out |
| Light entity and light commands, `light.py`, `devices/generic_light.py`, `devices/codecs/` | brightness, colour, mode, effect, `is_on`, the last brightness | `async_turn_on` (up to three commands), `async_turn_off`, segment services, `async_query_status` | calls that overlap, commands skipped for what is shown, replies older than an acknowledged command |
| Platforms, `switch.py`, `light.py`, `sensor.py`, `entity.py` | the entities of an entry, Home Assistant's entity registry | platform set-up before and after discovery | made once, from the API or from the configured model |
| Schema migration of entries, `async_migrate_entry` | `minor_version`, the registry | sweep and stamp | two saves, a crash in between, the user's own changes |
| Sensor decoding and power monitoring, `devices/codecs/sensor.py`, `GoveePlugH5086` | the readings | `parse_th_broadcast`, `_parse_power_response` | packed fields, the mark of a failed reading, offsets tried in order |
| Registry and definitions, `devices/registry.py`, `devices/definitions/` | none | lookup by model, API creation | definition and API class that disagree |
| Generic appliances, `devices/generic_appliance.py` | `is_on` | on, off | none beyond the transport they inherit |
| AES and RC4, `crypto.py` | none | pure functions | none |

How they interact. An entity calls its API (`plugs.py`, `light.py`), whose commands
go through the transport, whose message task opens a BLE session. The coordinator
feeds advertisements to the API and polls it; the poll opens a session of its own
behind the same lock. The entry's life creates and shuts down the coordinator, but
not the API's message task. The config flow opens a session to fetch the token and
makes the entry, the migration makes entries from old ones.

What makes each component correct, in a line:

- transport: first in first out, nothing written twice, one verdict for each
  command, every caller told, no connection left open, never two connects at once;
- plug state: a confirmed command is not reverted, a report shows the relays, with
  polling every error heals;
- session: both ends use the same keys once authenticated, acks are neither stale
  nor shared, a token is real, everything ends;
- coordinator: nothing survives the entry, the loop survives outages, the backoff is
  exponential, state reaches the entities;
- lights: as the transport, with retries on fresh connections;
- entries: no device lost, no entry overwritten, the migration ends;
- light entity: whatever overlapped, it shows the lamp at rest, and a call on its own
  is obeyed;
- platforms: the entities are those of the device, the user's choice for the power
  factor survives, a reading shown is one that was taken.

## 2. Modules

| Module | Models | Notes |
|---|---|---|
| `CommandService` | what `_send_message` promises | abstract: a line of pending commands, verdicts, replies |
| `PlugTransport` | plug transport and status poll | implements `CommandService` by the mapping `pending <- Line`, `verdict <- fut`, `reply <- caller` |
| `LightTransport` | light transport, query and probe | implements `CommandService` too |
| `PlugState` | the four plug models | over the command service, not over the transport: a command is resolved with either verdict at any moment |
| `Coordinator` | coordinator and entry life | the API's query is a call that runs, may parse a state, disconnects and returns |
| `BleSession` | one connection, `GoveeBleSession` and the keys of `GoveeSession` | the device is the one of `tests/test_session.py` |
| `ConfigEntries` | migration, config flow, pairing, Home Assistant's store | Home Assistant is external |
| `LightCodec` | the frames of the lights and what a lamp makes of them | operators over integers in place of bytes; the lamp is external |
| `LightEntity` | `GoveePlugLight` over `GoveePlugH6163` and `GenericLightApi` | over the command service, with a status query |
| `SensorCodec` | broadcasts of the thermo-hygrometers, power frames of the H5086 | decoders as operators; what the devices send is external |
| `Platforms` | platforms, entity registry, schema migration, readings | uses `SensorCodec` |
| `PlugTransportProofs`, `LightTransportProofs`, `PlugStateProofs`, `CoordinatorProofs`, `BleSessionProofs`, `LightEntityProofs`, `ConfigEntriesProofs`, `PlatformsProofs` | | theorems |
| `MC*` | | instances for TLC |

### PlugTransport

Commands are numbered as `_send_message` is called. `task` and `poll` are the await
points of `_message_task_fn` and `_query_status_internal`; `must_process`, `msgqueue`
and `current` are where a command can be: drained when the task started, still
queued, or being written. `fut` holds the futures, `caller` what each `_send_message`
is doing: waiting, timed out (`CallerTimeout`, told "false" while its command stays
queued), cancelled, or told the verdict (`CallerReturn`). `lock` and `waiters` are the
fair `asyncio.Lock`; it covers `establish_connection` only. `TaskTeardown` is the
finally clause, `TaskDone` the done callback that restarts the task when
something was queued meanwhile. A failing connect or setup fails what was drained
(`FailAll` over `must_process`), never what was queued afterwards. `PollCancel` is the
cancellation by the coordinator at any of the poll's awaits, also inside its
finally clause, the one way to leave a client open. `Quiescent` is the rest state in
which nobody has anything to do.

### PlugState

`relay` is the plug, `is_on` what the entity shows. `source` and `writer` are history:
which kind of event set `is_on` last, and which command. Advertisements travel in a
bag of copies and may be heard late, again, or never; each state parser is modelled by
the bits it reads (`Payload` operators), for all four models and for both kinds of
reply. Assumption named in the module: when the cooldown ends no advertisement
from before the command is still to come (`CooldownEnds`, which is what
`plugs.py:19-21` chooses the cooldown for). The power readings of the
H5086 are in `SensorCodec` and `Platforms`.

### Coordinator

`task` is the await point of the loop, the startup poll or their end; `outcome` what the
running query will return or raise. `async_shutdown`'s flag `_polling_enabled` and the
cancellation of the task are one step, since no await lies between them. The failure
count stops at `MaxFailures`, from which on the delay is the maximum
(`FailuresAssumption`).

### BleSession

`pc` is the exchange the client is in, `to_device` and `from_device` are the frames on
the air, each with the keys it was written with. A frame read with other keys is
garbage and matches no reply. The role (`control`, `poll`, `pair`), the firmware
(`legacy` or cipher) and whether the link loses frames are chosen at the start.

### LightTransport

As `PlugTransport`, with the `attempt` of the command in progress, a client forgotten after a failed
write (`leaked` counts those that may still be connected), and two side connections
(`Sides`: the status query of the H6163 and the colour probe) at the same lock.

### ConfigEntries

A flow is a record: the form it shows, what its step is doing, unique ID, choices, the
device its pairer talks to and what became of the token. Home Assistant keeps
`entries` and `old`, saves them at any time, restarts (after a save) or crashes (back to
what was saved). Assumption: the entry returned by a step is added before anything else
runs; the removal the import schedules (`config_flow.py:77-82`) therefore comes later. A
removed flow's coroutine runs on to no avail ("gone"). A device is a plug, an H6163 (whose
link step has a pairer of its own), another light or of another make.

### LightCodec and LightEntity

`LightCodec` has the frames of the three drivers (the H6163, and the generic one with the RGBIC
or the common codec): a segment mask is the pair of bytes the code computes, and `LampAfter` what
a lamp does on receiving a frame. A service call (`call`) computes its commands in `Begin`, from
what is shown before its first await (`Plan`), and sends one after the other (`Continue`).
`Resolve` gives the oldest command its verdict; `false` leaves open whether the lamp executed it
(`Execute` before it, or not). The API changes what it shows after each acknowledged command
(`Acknowledged`), the entity at the end of the call (`Ended`), `Parsed` with each status reply.
Histories: `told` (every command executed is known to be, no reply is older than the lamp) and
`followed` (every command of the calls since the last quiet moment was executed).

### SensorCodec and Platforms

The entry has one model, a representative of each family or one nobody knows. `SetupEntry` is
migration, set-up and the platforms' set-up, with the device known already or not; `disk` is what
Home Assistant saved of the entry's version and of the registry, each by an action of its own,
`Crash` goes back to it. `torn` is set by the crashes that lose the user's choice or half of the
migration. Broadcasts in `air` may be lost, heard again or in another order;
`Broadcast` and `PowerFrame` encode a reading as the devices do, so that `ShownWasMeasured`
relates what is decoded to what was measured: positive and negative temperatures, the borders of
the packed fields and of the gates, failed readings.

## 3. Runs

| Run | Instance | Distinct states | Shows |
|---|---|---|---|
| `transport` (pass) | 3 commands | 315,904 | `TypeOK`, `NoLostWakeup`, `WireOrder`, `TrueMeansWritten`, `ConnectionOwned`, `QueuedGetsItsTry`, `ImplementsService`. Three commands through callers, message task, poll and a failing link: nothing is lost, reordered, resolved twice or left waiting, and the transport implements CommandService. |
| `state` (pass) | 4 models, polling, 2 commands or 1 and a press | 949,368 | `TypeOK`, `ConfirmedIsShown`, `ReportedIsShown`, `PollingHeals`. Commands that may contradict each other, a button press, delayed, repeated and lost advertisements, polls: a confirmed command is never reverted, what a plug reported is decoded to its relays, and with polling an entity that disagrees with its plug recovers. |
| `coordinator` (pass) | 2 ticks, 2 attempts, failures up to 4 | 14,668 | `TypeOK`, `NothingSurvives`, `ThreeFailuresLatch`, `StateIsShown`, `PollsContinue`, `BackoffRecovers`. Polling with backoff and latch, startup poll, late discovery, unload and reload at any moment: nothing survives the entry, state reaches the entities, the loop goes on and recovers. |
| `coordinator_backoff` (violation) | the same | stops at the violation | `FailedPollsBackOff`. A poll that could not reach the plug returns False, which the loop takes for success: it resets the backoff instead of backing off. |
| `session` (pass) | 3 roles, both firmwares, lossy or not, 3 commands, 3 token requests | 5,416 | `TypeOK`, `KeysAgree`, `AnswersAreGenuine`, `ComesUp`, `Settles`. Control, poll and pairing connections to cipher and legacy plugs over good and lossy links with late replies: keys agree, acks are fresh and never shared, tokens are real, a good link comes up, every session settles. |
| `light` (pass) | 2 commands, 2 attempts | 94,864 | `TypeOK`, `WireOrder`, `TaskRests`, `LeaksOnlyFailedWrites`, `ImplementsService`. Two commands over a link that drops at any moment, writes that fail before or after they were applied, queries and probes at the same lock: order, no leak but one, the task ends, and the promise of CommandService. |
| `light_entity` (pass) | 3 drivers, 2 calls, 1 query, segments 7 and 8 | 4,890,749 | `TypeOK`, `OnOffIsShown`, `SettingsAreShown`, `AloneIsObeyed`. Two overlapping service calls and a status query, commands that fail before or after the lamp executed them: the entity shows the lamp, and a call on its own is obeyed although it skips what is shown already. |
| `platforms` (pass) | 8 models, 4 stops, 3 toggles, 3 readings | 19,500 | `TypeOK`, `PowerFactorAsChosen`, `EntitiesFit`, `ShownWasMeasured`. Entries old and new, set up before and after discovery, with reloads, restarts and crashes, the user's changes and broadcasts that fail or repeat. |
| `platform_ports` (violation) | an H5082 | stops at the violation | `PortsFit`. An H5082 that was not in range at set-up gets one unnamed switch instead of its two. |
| `config` (pass) | a plug, an H6163, a light; 2 old entries of the plug; 2 flows; 1 crash | 481,462 | `TypeOK`, `MigratedNotLost`, `SubmitsAreAnswered`, `NeverReplaced`, `MigrationEnds`. Two flows beside the import of two old entries, with restarts and a crash: no device lost, no entry overwritten, the migration ends, submitted forms are answered. |
| `config_pairs` (violation) | the same and a device of another make | stops at the violation | `PairsSelected`. A user flow pairs with the device the scanner listed last, whichever device the user selected. |
| `config_link` (violation) | the same | stops at the violation | `NoOpLinkSucceeds`. The link step of an H6163 raises, always: its pairer cannot be made. |

Bounds. Three commands are one in progress, one drained and one queued behind it, the
smallest number for every position in `PlugTransport`; the theorems hold for any number.
Two commands are enough to contradict each other in `PlugState` and for one to wait while
another is retried in `LightTransport`. Three commands in `BleSession` let an ack be late
by two. Two attempts and two ticks stand for the three, five and twelve of the code:
the loops differ in the first, a middle and the last round only as far as their counters
go. `MaxFailures = 4` is the first count with the maximal delay. Two old entries for one
device cover the duplicate; two flows cover every pair of a flow with a flow or an
import; one crash at any moment after any save covers the crashes of the import. Two service
calls in `LightEntity` are a call and one that overlaps it anywhere or follows it, from a lamp that is on
or off and that the entity knows or does not; three that overlap are beyond the bound. Segments
7 and 8 are the last bit of the one mask byte and the first of the other. Four stops
are enough for a migration, a torn save, a crash and the set-up after it. The readings of
`MCPlatforms` are both sides of zero and of each gate.

`CHECK_DEADLOCK FALSE` is set for `PlugState`, `BleSession`, `LightEntity` and `Platforms`, whose
runs may come to a rest: all commands, calls, stops or readings used up; a session that has ended.

### Violations

Four statements of the repository that the code does not keep:

| Run | Statement | What happens |
|---|---|---|
| `coordinator_backoff` | README.md:46, polling with exponential backoff | a poll that fails returns False, and the loop takes any return for success (`coordinator.py:207-216`) |
| `config_pairs` | `config_flow.py:132`, the discovery of the selected address | the pairer gets `self._ble_device`, the device the scanner listed last |
| `config_link` | `devices/definitions/lights.py:49`, the H6163 "keeps the existing (no-op) link step" | `_h6163_pair` reads `GoveePlugH6163.MSG_GET_AUTH_KEY`, which no class of that hierarchy defines: the step raises AttributeError and no H6163 can be set up |
| `platform_ports` | `devices/capabilities.py:18`, `ports` mirrors `port_names()` | the H5082 is registered with one unnamed port, so a set-up before discovery makes one switch, which works the left outlet and stays in the registry |

### Observations

What the models show of the code without a run of its own; the properties are stated so that
they do not promise the opposite.

- Transport: the lock covers `establish_connection` only (`plugs.py:170-188`), so a poll connects
  while the message task still holds its connection, although README.md:48 calls the connections of a
  device serialized. A crash or a cancellation inside the poll's finally clause leaves its client open.
- Session: an ack that comes after its command timed out answers the next command
  (`session.py:167`); it never answers two (`AnswersAreGenuine`).
- Plug state: a button pressed during the command cooldown is never noticed if polling is off
  (`plugs.py:380`); `PollingHeals` speaks of polling only.
- Coordinator: the startup poll stops on a poll that returned True although no state was parsed
  (`coordinator.py:302`). The creation of the API is not tried again for a model nobody knows.
- Entry life: unload does not stop the API's message task (`__init__.py:160`); after a reload two
  transports with a lock each may serve one device until the old task comes to rest (`TaskRests`).
- Config flow: `strings.json:25` says "please try again", but a second submission awaits the result
  of the first attempt again.
- Light entity: the effect "Normal" is sent but ends no scene on the lamp, though the entity shows it (`light.py:705`).
  A turn-off that overlaps a white call with a brightness leaves the lamp off and shown as on
  (`Crosses`): the brightness command that comes last switches nothing on. A call whose commands failed still assigns
  `is_on`, as does one with an unknown effect or without a command to send. A status reply updates the
  remembered brightness of the generic driver and not that of the H6163. After late discovery the list of
  effects is not refreshed (`light.py:571-578`).
- Segment services: the schema bounds indices from below only (`light.py:64`), `services.yaml:13` names 0 to 15
  and the mask of the H6163 has 15 bits. A call whose indices all lie beyond the strip paints nothing, is acknowledged
  and remembered as the colour shown, so that a later turn-on for that colour is skipped. `SettingsAreShown` and
  `AloneIsObeyed` suppose that each group names a segment of the lamp.
- Sensors: `codecs/sensor.py` tries four offsets in a fixed order and accepts the first whose bytes
  pass the gates, so a layout other than those of `MCPlatforms` may be read at the wrong offset.
- Migration: registry and entry are saved apart; a crash between the two saves may lose the sweep or
  the user's choice (`torn`).

## 4. Fairness

- `PlugTransport`, `LightTransport`: weak fairness of each task's steps. The loop runs
  ready continuations, and every await of a task has a timeout or ends by itself. No
  fairness for callers issuing, timing out or cancelling, for a poll being started or
  for the link.
- `PlugState`: weak fairness of the callers, of the end of the cooldown and of every
  step of a poll; strong fairness of `Answer`: of endlessly many polls some are
  answered. Without polling nothing is promised.
- `Coordinator`: weak fairness of the task's steps and of `async_shutdown`. That the
  device stays reachable and answers is a premise of the properties (`<>[]Pollable`,
  `Answers`), never fairness.
- `BleSession`: weak fairness of the client's steps and of the device's handling of
  frames; that the link loses nothing is a premise (`~lossy`).
- `LightEntity`: weak fairness of `Resolve` and `Continue`, which is what `LightTransport`
  implements; none of service calls, status queries or the lamp. Its properties are safety.
- `Platforms`: none; a device may never be heard, a user never come back.
- `ConfigEntries`: weak fairness of `async_setup`, strong fairness of scheduled imports
  and removals: of endlessly many starts some last until they have run. That there
  are endlessly many, and that eventually no flow is open, are premises of
  `MigrationEnds`.

## 5. Proofs

For any number of commands (`MaxCmds` a positive natural number), `PlugTransportProofs`
proves the type invariant, `NoLostWakeup`, `WireOrder`,
`TrueMeansWritten`, `ConnectionOwned`, `QueuedGetsItsTry`, that the message task and the poll
never establish connections at once (`SerialConnects`), that the pending futures are those of the
queued commands (`BacklogIsPending`) and that the transport implements the safety part of
`CommandService`.

The argument is the invariant `IndInv`. None of the properties is inductive alone:
that commands are written in order needs to know which commands the queues hold. So
`QueueNumbers` says that the contents of `current`, `must_process` and `msgqueue` are
consecutive and end with the last command issued, `PendingIsBacklog` that exactly these
are pending, `TaskHolds` at which await points the task holds commands and that no task
means an empty queue, `WireResolved` that a written command is resolved or being
acknowledged, and `LockHolder` who holds the lock. `WireOrder` then follows because the
command being written is younger than every resolved one. `TypeCorrect` needs
`TaskHolds` (what is recorded as written is a command). For the refinement,
`LineIsYoungest` shows that `Line` is determined by its length and by `issued`; a step
either keeps it, appends the issued command, or drops its first elements with their
verdicts, which are the steps of the service.

`LightTransportProofs` proves `TypeOK`, `WireOrder`, `LeaksOnlyFailedWrites` and the safety part
of `CommandService` for any number of commands and of attempts. With retries a command may be on the wire more
than once, so `WrittenInTurn` counts: nothing queued has been written, and what the wire ends
with of the command in hand is fewer copies than its attempt. At the first attempt there
are none, because `QueueNumbers` makes it younger than everything written; each failed attempt
adds one at most and counts one; hence never more than MAX_COMMAND_ATTEMPTS. For the
refinement `pending` is the command in hand in front of the queue: taking a command changes
nothing, a write or the last failure takes the head off.

`CoordinatorProofs` proves `TypeOK`, `NothingSurvives`, `ThreeFailuresLatch` and `StateIsShown` for any
length of the startup poll. `Life` ties the task to its entry. `FailuresCounted` is why the latch is deserved:
the failures counted are the last results, those before the pending one while a query
disconnects, and a query is only asked while it is not latched, so that three recorded failures
stay the last three. `StateIsShown` is inductive with `Life`, which excludes that a query is cancelled
under a loaded entry. `TypeOK` bounds the failures counted and the backoff's delay (`Counters`). That powers of two
are positive needs an induction, which is out of the prover's reach; it is the assumption
`PowersAssumption` of `Coordinator`, arithmetic that TLC evaluates.

For any devices, old entries, flows and crashes, `ConfigEntriesProofs` proves `TypeOK`,
`MigratedNotLost`, `SubmitsAreAnswered` and `NeverReplaced`. Its invariant adds that a scheduled removal is
that of a migrated entry (`RemovalsMigrated`) and that a flow which can still come back
with an entry (`Claims`: it shows the link form or is on the way there) has a device
without one (`ClaimsAreFree`): making an entry ends every flow for its device, so a
flow's check stays true for as long as it matters. `StepsFitForms` connects what a
step is doing with the form it was started from and with its pairing, which `SubmitsAreAnswered`
follows from: a step that finishes has asked for a token.

`PlugStateProofs` proves `TypeOK`, `ConfirmedIsShown` and `ReportedIsShown` for every model, any number of
commands and of presses. Three histories have to agree. `Service`: verdicts and replies come in the
order of issue, so whoever was told True was told after all older callers. `Switched`: what last
switched a relay is the youngest executed command for it, or a younger one that was given up,
or a button. `Fresh`: once the cooldown is over nothing older than the last command told True is on the air,
and what is younger agrees with it. Hence an advertisement heard after the cooldown cannot revert
a confirmed command, which is `ConfirmedIsShown`; that one is inductive only together with all
three. The lemma `Decoded` says for each of the four models, by the bits, that both kinds of reply and
the advertisement are decoded to the relays they were made from.

`BleSessionProofs` proves `TypeOK`, `KeysAgree` and `AnswersAreGenuine` for any number of commands and token
requests, over links that lose frames or not. Authentication is confirmed by a frame that may come late
or be repeated, so `Authentication` says of every answer to it, on the air or in the queue, that
both ends are `Paired` already: the answer was written with the keys the client has, and no key exchange is
on its way to change the device's. That needs the order of the frames (`InOrder`: the client writes its key exchange
first, the device changes keys never after an answer). `Acks` is the same
idea for commands: acks are sent, heard, queued and given in the order of the commands, so one that was
given is older than everything that can still come and is given once.

`LightEntityProofs` proves all four invariants of `LightEntity` for any drivers, colours, levels, segments, groups, and any number of
calls and queries. It has two halves. The codecs: `LampReads` says what a frame does by its first
bytes, and from it follows for every command of every driver, byte for byte, what a lamp makes of it
(`MessageTaken`): a turn-off switches off, a brightness leaves the power alone, all others switch on.
The calls: `Planned` says that a turn-off is one command alone, and that a call ends with a
brightness only after a white. `OnOffIsShown` speaks of rest; before, `FollowsLatest` says that the
lamp's power is what the call of the latest command wants if that command is its last, and
`FadesLit`, for calls that end with a brightness, that their white was executed and the lamp is still on,
or that the turn-offs not executed yet are in line before that white. This is
where `followed` excludes the call of section 3 that leaves the lamp off (`Crosses`).

`SettingsAreShown` is the part of `SettingsInv` that remains at rest. It takes brightness and colours as two aspects and
says of each (`InTouch`): while a command that sets it is executed and its caller does not know yet, the lamp is as the last
such command asks (`AsSet`); when no caller waits to learn of one, the API shows the lamp. So an
acknowledgement brings the API back to the lamp, in whatever order calls overlap, and a status reply keeps it there, for `told`
says that none is older than the lamp. `AloneIsObeyed` adds `AloneInv`: the latest call, if it is
alone, is the only one that runs, and the lamp is as it asks but for the commands it has still to send
(`Aims`), each of which is for what was asked (`Fits`). At its begin that is `SettingsInv`: what is not
sent is what the API shows, hence what the lamp is. In a segment call the first so many groups are painted, each
over those before it (`Strokes`); that the last group for a segment decides is the greatest index of a set of numbers (`Largest`, from the
library's theorem on well-founded minima). That a segment's bit is set in the masks exactly if the segment is
asked for is proved for both codecs.

These two theorems have hypotheses that only they need. `GroupsReach`: each group of a segment call names a
segment that every driver in use reaches; without it the entity shows a colour that no segment took (section 3).
`StripReached`, for `AloneStaysObeyed`: the lamp has no segment beyond those its driver can name, as
an H6163 has 15. The run's instance satisfies both (segments 7 and 8) and has an index out of range beside one in range.

`PlatformsProofs` proves the four invariants of `Platforms`, for any models, any readings within the sensors' limits
(`ReadingsAssumption`) and any number of stops and changes by the user. `PowerFactorAsChosen` speaks of a loaded entry; its
invariant `Chosen` says
what registry and version must say together at all times, also before the set-up that
migrates: a not yet migrated entry may still hold the old default, and nothing the user switched on.
`NoChoiceOnDisk` says that a crash before the user has chosen brings back no choice. `EntitiesFit`
follows from `RegistryFits`: whatever a set-up registers, before or after discovery, in memory or on the disk, is of the
model (`SameMade`, by cases of the model; the H5082, whose set-ups differ, is the violation `platform_ports`).
`ShownWasMeasured` is arithmetic: for every temperature, humidity and flags byte within the gates, the
bytes a device packs are accepted at the first offset and unpack to what was packed (`Unpacked`,
`BroadcastDecoded`), a failed reading is refused (`FailureDecoded`), and power frames
give back every field (`PowerDecoded`).

Assumptions of the proofs: the named ASSUMEs of the modules, which TLC evaluates in
the runs, and the hypotheses `GroupsReach` and `StripReached` of the two theorems above. Every
invariant that a passing run checks is stated by a theorem.

Only model-checked: all liveness (`ImplementsService` beyond its safety part, `TaskRests`,
`PollingHeals`, `PollsContinue`, `BackoffRecovers`, `ComesUp`, `Settles`,
`MigrationEnds`), which is out of reach of the prover as is ENABLED and induction over
recursively defined data.

## 6. Not modelled

- AES and RC4: pure functions with published test vectors. `BleSession` takes the ciphers as perfect: what is
  read with other keys never looks like a reply. `_recv_match` compares two bytes and no checksum, so garbage
  matches once in 65536.
- Padding and checksums of frames; `scene`, `music`, `le16` and `be16` of the codecs, which nothing sends.
- The names of devices (`extract_sku`) and the lists of models: string tables without state. One model
  of each family is in `Platforms`.
- `async_turn_on/off` of the appliances: the assignment of `is_on` after an acknowledged command,
  as `PlugState` and `LightEntity` have it. Their transport is `LightTransport`, their entity in `Platforms`.
- The options form: its effect is a reload, which `Coordinator` and `Platforms` have.
- The connection of the pairing (opened by `begin`, closed by `finish`): an abandoned
  flow leaves it open, and nothing in the code closes it.
- The refusal of entries of a version above 1 by `async_migrate_entry`: a constant answer.
- The refresh of the list of effects after discovery: the list is data, two effects stand for it.

## 7. Plan

1. A composition of two `LightTransport`s after a reload: how long connections of one device overlap.
