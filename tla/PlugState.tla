------------------------------ MODULE PlugState ------------------------------
(***************************************************************************)
(* The on/off state an entity shows against the plug's relays: the plug    *)
(* classes GoveePlugH5080, H5082, H5083 and H5086 (plugs.py) on top of the *)
(* command service that PlugTransport implements.  What is shown is set    *)
(* optimistically by an acknowledged command, by passive advertisements    *)
(* outside the command cooldown, and by status polls.                      *)
(*                                                                         *)
(* The plug (external): a command or its button switches a relay, each     *)
(* change is advertised once ("there is no steady-state heartbeat"), and a *)
(* poll is answered with the state of that moment.                         *)
(***************************************************************************)
EXTENDS Naturals, Sequences

CONSTANTS
  Models,         \* the models to consider, a subset of AllModels
  PollingOptions, \* values of the enable_polling option to consider
  MaxCmds,        \* bound: how many commands are ever issued
  MaxPresses,     \* bound: how often the buttons are ever pressed
  MaxSwitches     \* bound: commands and presses together

AllModels == {"H5080", "H5082", "H5083", "H5086"}

ASSUME ModelsAssumption == Models \subseteq AllModels
ASSUME PollingAssumption == PollingOptions \subseteq BOOLEAN
ASSUME BoundsAssumption == MaxCmds \in Nat \ {0} /\ MaxPresses \in Nat
                            /\ MaxSwitches \in Nat

VARIABLES
  issued, pending, verdict, reply,  \* the command service
  model,         \* MODEL
  polling,       \* the enable_polling option
  seeded,        \* the startup poll has returned True
  target,        \* port and state each command asks for
  last_command,  \* self._last_command_time: less than the cooldown ago?
  is_on,         \* self._is_on, per port
  poll,          \* the status poll's query: "idle", "asking" or "answered"
  frames,        \* the status bytes it has received
  relay,         \* the plug: state of each relay
  executed,      \* the plug: has it executed the oldest pending command?
  presses,       \* the plug: number of button presses so far
  adverts,       \* advertisements on their way, each with its age
  writer,        \* history: the command that last set each relay, or 0
  source,        \* history: what last set is_on, per port (see Sources)
  moved          \* history: ports switched since the last answer to a poll

serviceVars == <<issued, pending, verdict, reply>>
configVars == <<model, polling>>
shownVars == <<is_on, source>>
plugVars == <<relay, executed, writer, moved>>
vars == <<serviceVars, configVars, shownVars, plugVars, seeded, target,
          last_command, poll, frames, presses, adverts>>

Commands == INSTANCE CommandService
Cmds == 1..MaxCmds

\* H5082 has two outlets, 0 = left and 1 = right; the others have one.
Ports == IF model = "H5082" THEN {0, 1} ELSE {0}
States == {"off", "on"}
OnOff(b) == IF b THEN "on" ELSE "off"

----------------------------------------------------------------------------
(* Frames.  Of an advertisement only the last two bytes matter, of a status *)
(* reply the status byte.                                                   *)

\* The relays as the plug encodes them in one byte.
RelayByte(r) ==
  IF model = "H5082"
  THEN 2 * (IF r[0] = "on" THEN 1 ELSE 0) + (IF r[1] = "on" THEN 1 ELSE 0)
  ELSE IF r[0] = "on" THEN 1 ELSE 0

Advertised(r) ==
  IF model = "H5086" THEN [secondLast |-> RelayByte(r), last |-> 0]
                     ELSE [secondLast |-> 1, last |-> RelayByte(r)]

\* The byte's two bits: bit 1 is the left outlet, bit 0 the right one.
PortBits(byte) == [p \in Ports |-> OnOff((byte \div (2 - p)) % 2 = 1)]

AdvertH5080(f) == [p \in Ports |-> OnOff(f.last = 1)]
AdvertH5082(f) == PortBits(f.last)
AdvertH5083(f) == [p \in Ports |-> OnOff(f.last = 1)]
AdvertH5086(f) == [p \in Ports |-> OnOff(f.secondLast = 1)]

AdvertState(f) ==
  CASE model = "H5080" -> AdvertH5080(f)
    [] model = "H5082" -> AdvertH5082(f)
    [] model = "H5083" -> AdvertH5083(f)
    [] model = "H5086" -> AdvertH5086(f)

\* Mutant of StatusOnePort: a one-outlet plug parsed as one with two.
StatusTwoPorts(byte) == [p \in {0, 1} |-> OnOff(byte # 0)]

\* Mutant of StatusH5082: bit 0 is taken for the left outlet.
StatusH5082Swapped(byte) ==
  [p \in Ports |-> OnOff((byte \div (p + 1)) % 2 = 1)]

StatusH5082(byte) == PortBits(byte)
StatusOnePort(byte) == [p \in Ports |-> OnOff(byte # 0)]
StatusState(byte) ==
  IF model = "H5082" THEN StatusH5082(byte) ELSE StatusOnePort(byte)

Frames == [secondLast : {0, 1}, last : 0..3]

\* "heard" and "polled": an advertisement or a reply that tells the relay's
\* present state; "advert" and "overtaken": one that is outdated by now.
Sources == {"none", "command", "advert", "heard", "polled", "overtaken"}

TypeOK ==
  /\ issued \in 0..MaxCmds
  /\ pending \in Seq(Cmds)
  /\ verdict \in [Cmds -> {"pending", "true", "false"}]
  /\ reply \in [Cmds -> {"none", "waiting", "true", "false", "cancelled"}]
  /\ model \in Models
  /\ polling \in PollingOptions
  /\ seeded \in BOOLEAN
  /\ target \in [Cmds -> [port : Ports, state : States]]
  /\ last_command \in {"old", "recent"}
  /\ is_on \in [Ports -> States \cup {"unknown"}]
  /\ poll \in {"idle", "asking", "answered"}
  /\ frames \subseteq 0..3 /\ (poll # "answered" => frames = {})
  /\ relay \in [Ports -> States]
  /\ executed \in BOOLEAN
  /\ presses \in 0..MaxPresses
  /\ adverts \subseteq [frame : Frames, age : {"new", "old"}]
  /\ writer \in [Ports -> 0..MaxCmds]
  /\ source \in [Ports -> Sources]
  /\ moved \subseteq Ports

Init ==
  /\ Commands!Init
  /\ model \in Models
  /\ polling \in PollingOptions
  /\ seeded = FALSE
  /\ target = [c \in Cmds |-> [port |-> 0, state |-> "off"]]
  /\ last_command = "old"
  /\ is_on = [p \in Ports |-> "unknown"]
  /\ poll = "idle"
  /\ frames = {}
  /\ relay \in [Ports -> States]
  /\ executed = FALSE
  /\ presses = 0
  /\ adverts = {}
  /\ writer = [p \in Ports |-> 0]
  /\ source = [p \in Ports |-> "none"]
  /\ moved = {}

----------------------------------------------------------------------------
(* The plug.                                                               *)

\* A relay is set; a change is advertised.
Switch(p, s, who) ==
  /\ relay' = [relay EXCEPT ![p] = s]
  /\ writer' = [writer EXCEPT ![p] = who]
  /\ moved' = moved \cup {p}
  /\ source' = [source EXCEPT ![p] = CASE @ = "polled" -> "overtaken"
                                        [] @ = "heard" -> "advert"
                                        [] OTHER -> @]
  /\ adverts' = IF relay[p] = s THEN adverts
                ELSE adverts \cup {[frame |-> Advertised(relay'),
                                    age |-> "new"]}

\* The plug executes the command it was sent.
Execute ==
  /\ pending # <<>>
  /\ ~executed
  /\ executed' = TRUE
  /\ Switch(target[Head(pending)].port, target[Head(pending)].state,
            Head(pending))
  /\ UNCHANGED <<serviceVars, configVars, is_on, seeded, target,
                 last_command, poll, frames, presses>>

\* Somebody presses a button of the plug.
Press ==
  /\ presses < MaxPresses
  /\ issued + presses < MaxSwitches
  /\ presses' = presses + 1
  /\ \E p \in Ports : Switch(p, IF relay[p] = "on" THEN "off" ELSE "on", 0)
  /\ UNCHANGED <<serviceVars, configVars, is_on, seeded, target,
                 last_command, poll, frames, executed>>

\* An advertisement is missed.
AdvertLost ==
  /\ \E a \in adverts : adverts' = adverts \ {a}
  /\ UNCHANGED <<serviceVars, configVars, shownVars, plugVars, seeded, target,
                 last_command, poll, frames, presses>>

----------------------------------------------------------------------------
(* Commands: async_turn_on and async_turn_off.                             *)

TurnOnOff ==
  /\ issued + presses < MaxSwitches
  /\ Commands!Issue
  /\ \E p \in Ports, s \in States :
       target' = [target EXCEPT ![issued + 1] = [port |-> p, state |-> s]]
  /\ UNCHANGED <<configVars, shownVars, plugVars, seeded, last_command,
                 poll, frames, presses, adverts>>

\* The transport gets the ack of a command, or gives up on it, executed or not.
Resolve ==
  /\ \/ Commands!Acknowledge /\ executed
     \/ \E n \in 1..Len(pending) : Commands!GiveUpOn(n)
  /\ executed' = FALSE
  /\ UNCHANGED <<configVars, shownVars, relay, writer, moved, seeded, target,
                 last_command, poll, frames, presses, adverts>>

\* Mutant of CallerReturn: a success does not start the cooldown.
CallerReturnNoCooldown(c) ==
  /\ \A d \in 1..(c - 1) : reply[d] = "waiting" => verdict[d] = "pending"
  /\ Commands!Tell(c)
  /\ IF verdict[c] = "true"
     THEN /\ is_on' = [is_on EXCEPT ![target[c].port] = target[c].state]
          /\ source' = [source EXCEPT ![target[c].port] = "command"]
     ELSE UNCHANGED shownVars
  /\ UNCHANGED <<configVars, plugVars, seeded, target, last_command,
                 poll, frames, presses, adverts>>

\* _send_message returns, in the order in which the futures were resolved.  A
\* success starts the cooldown and sets the state that was asked for; what is
\* on the air at that moment is from before.
CallerReturn(c) ==
  /\ \A d \in 1..(c - 1) : reply[d] = "waiting" => verdict[d] = "pending"
  /\ Commands!Tell(c)
  /\ IF verdict[c] = "true"
     THEN /\ is_on' = [is_on EXCEPT ![target[c].port] = target[c].state]
          /\ source' = [source EXCEPT ![target[c].port] = "command"]
          /\ last_command' = "recent"
          /\ adverts' = {[a EXCEPT !.age = "old"] : a \in adverts}
     ELSE UNCHANGED <<shownVars, last_command, adverts>>
  /\ UNCHANGED <<configVars, plugVars, seeded, target, poll, frames, presses>>

\* The caller times out or is cancelled.
CallerLeave(c) ==
  /\ Commands!Leave(c)
  /\ UNCHANGED <<configVars, shownVars, plugVars, seeded, target,
                 last_command, poll, frames, presses, adverts>>

\* COMMAND_COOLDOWN_SECONDS pass.  The cooldown is chosen so that nothing that
\* was on the air when the command returned is still to come.
CooldownEnds ==
  /\ last_command = "recent"
  /\ \A a \in adverts : a.age = "new"
  /\ last_command' = "old"
  /\ UNCHANGED <<serviceVars, configVars, shownVars, plugVars, seeded, target,
                 poll, frames, presses, adverts>>

----------------------------------------------------------------------------
(* Advertisements and polls.                                               *)

\* handle_bluetooth_event: ignored during the cooldown.  Another proxy may
\* deliver the same advertisement again.
HandleAdvert(a, again) ==
  /\ adverts' = IF again THEN adverts ELSE adverts \ {a}
  /\ IF last_command = "recent" THEN UNCHANGED shownVars
     ELSE /\ is_on' = AdvertState(a.frame)
          /\ source' = [p \in Ports |-> IF a.frame = Advertised(relay)
                                        THEN "heard" ELSE "advert"]
  /\ UNCHANGED <<serviceVars, configVars, plugVars, seeded, target,
                 last_command, poll, frames, presses>>

Hear == \E a \in adverts : HandleAdvert(a, FALSE)
HearAgain == \E a \in adverts : HandleAdvert(a, TRUE)

\* The polling loop, or the startup poll until it returned True, asks.
AskStatus ==
  /\ polling \/ ~seeded
  /\ poll = "idle"
  /\ poll' = "asking"
  /\ UNCHANGED <<serviceVars, configVars, shownVars, plugVars, seeded, target,
                 last_command, frames, presses, adverts>>

\* The plug answers with the state of its relays; the H5086 is asked for power
\* data, which says nothing of them.
Answer ==
  /\ poll = "asking"
  /\ poll' = "answered"
  /\ frames' = IF model = "H5086" THEN {} ELSE {RelayByte(relay)}
  /\ moved' = {}
  /\ UNCHANGED <<serviceVars, configVars, shownVars, relay, executed, writer,
                 seeded, target, last_command, presses, adverts>>

\* The answer is lost: the poll finds no frame to parse.
NoAnswer ==
  /\ poll = "asking"
  /\ poll' = "answered"
  /\ UNCHANGED <<serviceVars, configVars, shownVars, plugVars, seeded, target,
                 last_command, frames, presses, adverts>>

\* The connection or the authentication failed.
PollFail ==
  /\ poll = "asking"
  /\ poll' = "idle"
  /\ UNCHANGED <<serviceVars, configVars, shownVars, plugVars, seeded, target,
                 last_command, frames, presses, adverts>>

\* Mutant of ParseStatus: the reply is not parsed.
ParseNothing ==
  /\ poll = "answered"
  /\ poll' = "idle"
  /\ frames' = {}
  /\ seeded' = TRUE
  /\ UNCHANGED <<serviceVars, configVars, shownVars, plugVars, target,
                 last_command, presses, adverts>>

\* No more frames arrive: whatever came is parsed, cooldown or not, and the
\* poll returns True.
ParseStatus ==
  /\ poll = "answered"
  /\ poll' = "idle"
  /\ frames' = {}
  /\ seeded' = TRUE
  /\ \/ frames = {} /\ UNCHANGED shownVars
     \/ \E byte \in frames :
          /\ is_on' = StatusState(byte)
          /\ source' = [p \in Ports |-> IF p \in moved THEN "overtaken"
                                                       ELSE "polled"]
  /\ UNCHANGED <<serviceVars, configVars, plugVars, target, last_command,
                 presses, adverts>>

CallerStep == \E c \in Cmds : CallerReturn(c)

Next ==
  \/ TurnOnOff \/ Resolve \/ CallerStep
  \/ \E c \in Cmds : CallerLeave(c)
  \/ CooldownEnds
  \/ Execute \/ Press
  \/ Hear \/ HearAgain \/ AdvertLost
  \/ AskStatus \/ Answer \/ NoAnswer \/ PollFail \/ ParseStatus

\* The transport resolves every command and wakes every caller (it implements
\* CommandService), the cooldown ends, an advertisement is delivered or lost,
\* the polling loop goes on, and of endlessly many polls some are answered.
Fairness ==
  /\ WF_vars(Resolve)
  /\ WF_vars(CallerStep)
  /\ WF_vars(CooldownEnds)
  /\ WF_vars(Hear \/ AdvertLost)
  /\ WF_vars(AskStatus)
  /\ WF_vars(Answer \/ NoAnswer \/ PollFail)
  /\ WF_vars(ParseStatus)
  /\ SF_vars(Answer)

Spec == Init /\ [][Next]_vars /\ Fairness

----------------------------------------------------------------------------
(* Properties.                                                             *)

\* README, "a stale advertisement can't briefly revert a command you just
\* issued": while the last thing that set a relay is a command that returned
\* True, the entity shows that state, whichever advertisements of earlier
\* states are on their way and whatever other commands do.  Only the
\* reply to a poll, which knows no cooldown, may say otherwise, and only one
\* that is older than the command.
ConfirmedIsShown ==
  \A p \in Ports :
    /\ writer[p] # 0
    /\ reply[writer[p]] = "true"
    /\ source[p] # "overtaken"
    => is_on[p] = relay[p]

\* What an advertisement or a poll showed is the relay's state unless the plug
\* has been switched since it was sent.
ReportedIsShown ==
  \A p \in Ports :
    source[p] \in {"heard", "polled"} => is_on[p] = relay[p]

\* With status polling, an entity that went wrong (a missed or ignored
\* advertisement, a lost ack, a reply that was overtaken by a command) recovers
\* once nobody switches the plug any more.
AgreesForGood == <>[](\A p \in Ports : is_on[p] = relay[p])
PollingHeals == polling /\ model # "H5086" => AgreesForGood
==============================================================================
