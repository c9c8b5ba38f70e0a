------------------------------ MODULE LightEntity ------------------------------
(***************************************************************************)
(* What a light entity shows against its lamp: GoveePlugLight (light.py)   *)
(* over GoveePlugH6163 and GenericLightApi.  A service call of the entity  *)
(* is up to three commands, each awaited; other calls and a status query   *)
(* run in between.  The commands go through the service that               *)
(* LightTransport implements: first in first out, one verdict each, the    *)
(* callers woken in the order of their verdicts.                           *)
(*                                                                         *)
(* The lamp (external) executes a command before its verdict "true", and   *)
(* perhaps one whose verdict is "false".  Nobody else controls it.         *)
(***************************************************************************)
EXTENDS LightCodec

CONSTANTS
  Drivers,     \* the drivers to consider, a subset of AllDrivers
  Colors,      \* colours that calls ask for
  Levels,      \* brightnesses that calls ask for, 0 aside
  Warm,        \* the RGB value of the one colour temperature asked for
  Groups,      \* arguments of set_segment_colors that calls use
  Segments,    \* the segments of the lamp
  MaxCalls,    \* bound: how many service calls are ever made
  MaxPolls     \* bound: how many status queries are ever made

\* GoveePlugH6163, and GenericLightApi with the RGBIC and the common codec.
AllDrivers == {"H6163", "rgbic", "plain"}
White == <<255, 255, 255>>
FullLevel == 255

ASSUME DriversAssumption == Drivers \subseteq AllDrivers
ASSUME ColorsAssumption == Colors \subseteq RGB /\ Warm \in RGB
ASSUME LevelsAssumption == Levels \subseteq 1..255
ASSUME SegmentsAssumption ==
  /\ Segments # {} /\ Segments \subseteq 0..15
  /\ Groups \subseteq Seq([segments : SUBSET Nat, rgb : RGB])
ASSUME BoundsAssumption == MaxCalls \in Nat \ {0} /\ MaxPolls \in Nat

VARIABLES
  driver,    \* which class the API is of
  api,       \* its state: what the entity shows
  call,      \* the service calls
  begun,     \* number of calls made so far
  line,      \* commands without a verdict, oldest first
  executed,  \* has the lamp executed the oldest of them?
  ready,     \* verdicts whose callers have not run yet, oldest first
  lamp,      \* the lamp
  poll,      \* query in progress, "idle" if none
  polls,     \* number of status queries so far
  air,       \* answers on their way
  known,     \* history: has a reply or a command told the brightness?
  told,      \* history: did each answer come before the lamp changed again, and
             \* is every command the lamp executed known to be?
  followed   \* history: has the lamp done what the latest calls asked?

serviceVars == <<line, executed, ready>>
callVars == <<call, begun>>
pollVars == <<poll, polls, air>>
vars == <<driver, api, callVars, serviceVars, lamp, pollVars, known, told, followed>>

Calls == 1..MaxCalls
None == "none"       \* for any value but a brightness or a colour
NoBrightness == -1
NoColor == <<>>
Codec == CASE driver = "H6163" -> "dreamcolor"
           [] driver = "rgbic" -> "rgbic"
           [] driver = "plain" -> "common"

\* Service calls, each with its arguments.
Ops ==
  [kind : {"effect"}, effect : DOMAIN effects \cup {"unheard of"}]
    \cup [kind : {"temp"}, brightness : Levels \cup {NoBrightness}]
    \cup [kind : {"manual"}, rgb : Colors \cup {NoColor},
          brightness : Levels \cup {0, NoBrightness}]
    \cup [kind : {"segments"}, groups : Groups]
    \cup {[kind |-> "off"]}

NoCall == [op |-> None, plan |-> <<>>, state |-> "none", goal |-> None,
           alone |-> TRUE]

TypeOK ==
  /\ driver \in Drivers
  /\ api.is_on \in {"unknown", "on", "off"}
  /\ api.brightness \in Levels \cup {0, FullLevel, NoBrightness}
  /\ api.last_brightness \in Levels \cup {FullLevel}
  /\ Len(api.rgb) \in {0, 3}
  /\ api.mode \in {"rgb", "color_temp"}
  /\ api.effect \in DOMAIN effects
  /\ \A k \in Calls :
       /\ call[k].state \in {"none", "running", "ended"}
       /\ call[k].state = "running" <=> call[k].plan # <<>>
  /\ begun \in 0..MaxCalls
  /\ \A i, j \in 1..Len(line) : line[i].call = line[j].call => i = j
  /\ executed \in BOOLEAN
  /\ ready \in Seq([call : Calls, ok : BOOLEAN])
  /\ DOMAIN lamp.colour = Segments
  /\ poll \in {"idle", "brightness", "color", "power"}
  /\ polls \in 0..MaxPolls
  /\ known \in BOOLEAN
  /\ told \in BOOLEAN /\ followed \in BOOLEAN

\* The lamp does something, and a status query has told the entity of it or not.
Init ==
  /\ driver \in Drivers
  /\ \E on \in {"on", "off"}, level \in Levels :
       lamp = [power |-> on, level |-> level, scene |-> None,
               colour |-> [s \in Segments |-> White]]
  /\ known \in BOOLEAN
  /\ api = [is_on |-> IF known THEN lamp.power ELSE "unknown",
            brightness |-> IF known THEN lamp.level ELSE NoBrightness,
            last_brightness |-> IF known /\ driver # "H6163"
                                THEN lamp.level ELSE FullLevel,
            rgb |-> IF known THEN lamp.colour[CHOOSE s \in Segments : TRUE]
                             ELSE NoColor,
            mode |-> "rgb",
            effect |-> "Normal"]
  /\ call = [k \in Calls |-> NoCall]
  /\ begun = 0
  /\ line = <<>> /\ executed = FALSE /\ ready = <<>>
  /\ poll = "idle" /\ polls = 0 /\ air = {}
  /\ told = TRUE /\ followed = TRUE

----------------------------------------------------------------------------
(* What a call of the entity will send, decided before its first await.     *)

\* The commands of the driver: a name, an argument and the frame, or no command
\* at all where the driver has none.
Command(name, arg, frame) == <<[name |-> name, arg |-> arg, frame |-> frame]>>

async_set_effect(effect) ==
  IF effect \in DOMAIN effects THEN Command("effect", effect, effects[effect])
  ELSE <<>>
async_set_light_rgb(c) == Command("rgb", c, rgb(Codec, c))
async_set_light_color_temp == Command("temp", Warm, color_temp_rgb(Codec, Warm))
async_set_light_brightness(b) == Command("brightness", b, brightness(b))
async_turn_off == Command("off", 0, power(FALSE))
\* One frame for each group, from the drivers that have segments.
async_set_segment_colors(groups) ==
  IF driver = "plain" THEN <<>>
  ELSE [i \in DOMAIN groups |->
         LET g == groups[i]
         IN [name |-> "segments", arg |-> g.rgb,
             frame |-> segment_color(Codec, g.rgb, g.segments)]]

\* Mutant of Goal: the brightness shown is used, which is 0 after a turn-off.
GoalShown(op) ==
  [rgb |-> IF op.rgb # NoColor THEN op.rgb
           ELSE IF api.rgb # NoColor THEN api.rgb ELSE White,
   brightness |-> IF op.brightness # NoBrightness THEN op.brightness
                  ELSE IF api.brightness # NoBrightness THEN api.brightness
                  ELSE FullLevel]

\* Colour and brightness a manual call aims at.
Goal(op) ==
  [rgb |-> IF op.rgb # NoColor THEN op.rgb
           ELSE IF api.rgb # NoColor THEN api.rgb ELSE White,
   brightness |-> IF op.brightness # NoBrightness THEN op.brightness
                  ELSE api.last_brightness]

\* Mutant of ManualPlan: the colour or brightness command is taken to wake it.
ManualPlanNoPower(goal) ==
  IF goal.brightness = 0 THEN async_turn_off
  ELSE (IF goal.rgb # api.rgb THEN async_set_light_rgb(goal.rgb) ELSE <<>>)
         \o async_set_light_brightness(goal.brightness)

ManualPlan(goal) ==
  IF goal.brightness = 0 THEN async_turn_off
  ELSE (IF goal.rgb # api.rgb THEN async_set_light_rgb(goal.rgb) ELSE <<>>)
         \o (IF goal.brightness # api.brightness
             THEN async_set_light_brightness(goal.brightness) ELSE <<>>)
         \o async_set_effect("Normal")

TempPlan(b) ==
  async_set_light_color_temp
    \o (IF b # NoBrightness /\ b # api.brightness THEN async_set_light_brightness(b)
        ELSE <<>>)

Plan(op) ==
  CASE op.kind = "effect" -> async_set_effect(op.effect)
    [] op.kind = "temp" -> TempPlan(op.brightness)
    [] op.kind = "manual" -> ManualPlan(Goal(op))
    [] op.kind = "segments" -> async_set_segment_colors(op.groups)
    [] op.kind = "off" -> async_turn_off

----------------------------------------------------------------------------
(* What the API and the entity assign.                                     *)

\* The API's state after command c was acknowledged.
Acknowledged(a, c) ==
  CASE c.name = "brightness" ->
         [a EXCEPT !.brightness = c.arg, !.last_brightness = c.arg]
    [] c.name = "effect" -> [a EXCEPT !.effect = c.arg]
    [] c.name = "off" -> [a EXCEPT !.is_on = "off"]
    [] c.name = "rgb" -> [a EXCEPT !.rgb = c.arg, !.mode = "rgb"]
    [] c.name = "temp" -> [a EXCEPT !.rgb = c.arg, !.mode = "color_temp"]
    [] c.name = "segments" ->
         IF driver = "H6163" THEN [a EXCEPT !.rgb = c.arg, !.is_on = "on"]
         ELSE [a EXCEPT !.rgb = c.arg, !.mode = "rgb"]

TurnsOff(c) ==
  c.op.kind = "off" \/ (c.op.kind = "manual" /\ c.goal.brightness = 0)

\* Mutant of Ended: a turn-off is remembered as the last brightness.
EndedRemembersZero(a, c) ==
  IF TurnsOff(c)
  THEN [a EXCEPT !.brightness = 0, !.last_brightness = 0, !.is_on = "off"]
  ELSE [a EXCEPT !.is_on = "on"]

\* What the entity assigns once the commands of a call have their verdicts,
\* whichever they are.
Ended(a, c) ==
  IF TurnsOff(c) THEN [a EXCEPT !.brightness = 0, !.is_on = "off"]
  ELSE IF c.op.kind = "temp" THEN [a EXCEPT !.is_on = "on", !.effect = "Normal"]
  ELSE [a EXCEPT !.is_on = "on"]

----------------------------------------------------------------------------
(* Calls and commands.                                                     *)

Running == {k \in Calls : call[k].state = "running"}
Queued(k, plan) == [call |-> k, frame |-> Head(plan).frame]

\* Is it a turn-off while a call runs that ends with a brightness command (for
\* white)?  That command does not switch the lamp on again.
Crosses(c) ==
  TurnsOff(c) /\ \E k \in Running : Last(call[k].plan).name = "brightness"

\* A service call runs up to its first await, or to its end if it sends nothing
\* because the driver has no such command.  Of the calls before it only those
\* that still run are remembered.
Begin(op) ==
  LET k == begun + 1
      sends == Plan(op) # <<>>
      new == [op |-> op, plan |-> Plan(op),
              state |-> IF sends THEN "running" ELSE "ended",
              goal |-> IF op.kind = "manual" THEN Goal(op) ELSE None,
              alone |-> Running = {}]
  IN
  /\ begun < MaxCalls
  /\ begun' = k
  /\ call' = [j \in Calls |->
       IF j = k THEN new
       ELSE IF j \in Running THEN [call[j] EXCEPT !.alone = FALSE] ELSE NoCall]
  /\ line' = IF sends THEN Append(line, Queued(k, Plan(op))) ELSE line
  /\ api' = IF sends THEN api ELSE Ended(api, new)
  /\ followed' = (sends /\ (Running = {} \/ (followed /\ ~Crosses(new))))
  /\ UNCHANGED <<driver, executed, ready, lamp, pollVars, known, told>>

\* The lamp executes the command it was sent.
Execute ==
  /\ line # <<>>
  /\ ~executed
  /\ executed' = TRUE
  /\ lamp' = LampAfter(lamp, Head(line).frame)
  /\ UNCHANGED <<driver, api, callVars, line, ready, pollVars, known, told, followed>>

\* The transport delivered the oldest command, or gave up on it.
Resolve ==
  /\ line # <<>>
  /\ \E ok \in BOOLEAN :
       /\ ok => executed
       /\ ready' = Append(ready, [call |-> Head(line).call, ok |-> ok])
       /\ followed' = (followed /\ ok)
       /\ told' = (told /\ (executed => ok))
  /\ line' = Tail(line)
  /\ executed' = FALSE
  /\ UNCHANGED <<driver, api, callVars, lamp, pollVars, known>>

\* _send_message returns to the call that woke first: the API's state follows a
\* success, and the call sends its next command or comes to its end.
Continue ==
  /\ ready # <<>>
  /\ LET k == Head(ready).call
         c == Head(call[k].plan)
         rest == Tail(call[k].plan)
         a == IF Head(ready).ok THEN Acknowledged(api, c) ELSE api
     IN /\ call' = [call EXCEPT ![k].plan = rest,
                                ![k].state = IF rest = <<>> THEN "ended" ELSE @]
        /\ line' = IF rest = <<>> THEN line ELSE Append(line, Queued(k, rest))
        /\ api' = IF rest = <<>> THEN Ended(a, call[k]) ELSE a
        /\ known' = (known \/ (Head(ready).ok /\ c.name = "brightness"))
  /\ ready' = Tail(ready)
  /\ UNCHANGED <<driver, begun, executed, lamp, pollVars, told, followed>>

----------------------------------------------------------------------------
(* async_query_status: three questions on a connection of its own.         *)

After(query) == CASE query = "brightness" -> "color"
                  [] query = "color" -> "power"
                  [] query = "power" -> "idle"

\* The last answer or timeout closes the connection: no answer comes any more.
GoOn(to) ==
  /\ poll' = to
  /\ polls' = polls

PollStart ==
  /\ poll = "idle"
  /\ polls < MaxPolls
  /\ poll' = "brightness"
  /\ polls' = polls + 1
  /\ air' = {}
  /\ UNCHANGED <<driver, api, callVars, serviceVars, lamp, known, told, followed>>

PollAnswer ==
  /\ poll # "idle"
  /\ air = {}
  /\ \E frame \in Replies(lamp, poll) : air' = {frame}
  /\ UNCHANGED <<driver, api, callVars, serviceVars, lamp, poll, polls, known,
                 told, followed>>

\* Mutant of Parsed: the generic driver does not remember the brightness.
ParsedForgets(a, frame) ==
  CASE frame[1] = 4 -> [a EXCEPT !.brightness = frame[2]]
    [] frame[1] = 5 -> [a EXCEPT !.rgb = SubSeq(frame, 3, 5)]
    [] frame[1] = 1 -> [a EXCEPT !.is_on = IF frame[2] = 1 THEN "on" ELSE "off"]

\* recv_handler of the H6163, _on_notify with the codec's parse_*_reply.
Parsed(a, frame) ==
  CASE frame[1] = 4 -> IF driver = "H6163" THEN [a EXCEPT !.brightness = frame[2]]
                       ELSE [a EXCEPT !.brightness = frame[2],
                                      !.last_brightness = frame[2]]
    [] frame[1] = 5 -> [a EXCEPT !.rgb = SubSeq(frame, 3, 5)]
    [] frame[1] = 1 -> [a EXCEPT !.is_on = IF frame[2] = 1 THEN "on" ELSE "off"]

\* An answer is handled as it comes, and the next question asked.
PollHandle ==
  /\ \E frame \in air :
       /\ api' = Parsed(api, frame)
       /\ known' = (known \/ frame[1] = 4)
       /\ told' = (told /\ frame \in Replies(lamp, poll))
  /\ air' = {}
  /\ GoOn(After(poll))
  /\ UNCHANGED <<driver, callVars, serviceVars, lamp, followed>>

\* No answer in time: the H6163 stops asking, the generic driver goes on.
PollTimeout ==
  /\ poll # "idle"
  /\ air' = {}
  /\ GoOn(IF driver = "H6163" THEN "idle" ELSE After(poll))
  /\ UNCHANGED <<driver, api, callVars, serviceVars, lamp, known, told, followed>>

Next ==
  \/ \E op \in Ops : Begin(op)
  \/ Execute \/ Resolve \/ Continue
  \/ PollStart \/ PollAnswer \/ PollHandle \/ PollTimeout

\* The transport gives every command its verdict and wakes its caller.
Spec == Init /\ [][Next]_vars /\ WF_vars(Resolve) /\ WF_vars(Continue)

----------------------------------------------------------------------------
(* Properties.                                                             *)

\* The properties of the entity, which Home Assistant reads when it is told to.
Shown == [is_on |-> api.is_on, brightness |-> api.brightness,
          rgb_color |-> api.rgb, color_mode |-> api.mode]

\* No call is running and none of its commands is on its way.
AtRest == Running = {} /\ line = <<>> /\ ready = <<>>

\* After any overlapping turn-ons, turn-offs, effects and segment calls, and a
\* status query, the entity shows "on" exactly if the lamp is on; after a failure
\* it does so again with the next call that succeeds.  is_on is assigned at the
\* end of a call, perhaps long after its commands were executed, and whatever
\* came between (light.py:709, 731, 785).
OnOffIsShown ==
  AtRest /\ told /\ followed /\ Shown.is_on # "unknown" => Shown.is_on = lamp.power

\* Whichever commands failed: the brightness shown is the lamp's, or 0 after a
\* turn-off, and the generic driver remembers the lamp's brightness all the time;
\* the colour shown is that of some segment, and white mode means that all
\* segments are white (the H6163 keeps that mode when a segment is painted).
SettingsAreShown ==
  AtRest /\ told =>
    /\ Shown.brightness \in {NoBrightness, 0, lamp.level}
    /\ known /\ driver # "H6163" => api.last_brightness = lamp.level
    /\ Shown.rgb_color # NoColor
         => \E s \in Segments : lamp.colour[s] = Shown.rgb_color
    /\ Shown.color_mode = "color_temp" /\ driver # "H6163"
         => \A s \in Segments : lamp.colour[s] = Warm

Uniform == \A s, t \in Segments : lamp.colour[s] = lamp.colour[t]

Paints(g, s) == s \in g.segments

Obeyed(k) ==
  LET op == call[k].op
  IN CASE op.kind = "off" \/ (op.kind = "manual" /\ op.brightness = 0) -> lamp.power = "off"
       [] op.kind = "effect" /\ op.effect # "Normal" ->
            lamp.power = "on" /\ lamp.scene = op.effect
       [] op.kind = "effect" /\ op.effect = "Normal" -> lamp.power = "on"
       [] op.kind = "temp" ->
            /\ lamp.power = "on" /\ lamp.scene = None
            /\ \A s \in Segments : lamp.colour[s] = Warm
            /\ op.brightness # NoBrightness => lamp.level = op.brightness
       [] op.kind = "manual" /\ op.brightness # 0 ->
            /\ lamp.power = "on"
            /\ op.brightness # NoBrightness => lamp.level = op.brightness
            /\ op.rgb # NoColor /\ Uniform
                 => \A s \in Segments : lamp.colour[s] = op.rgb
       [] op.kind = "segments" ->
            /\ lamp.power = "on"
            /\ \A s \in Segments :
                 LET by == {i \in DOMAIN op.groups : Paints(op.groups[i], s)}
                 IN by # {} => lamp.colour[s] = op.groups[Max(by)].rgb

\* A call that overlaps no other call leaves the lamp as it asked, although it
\* sends only what differs from what is shown: whatever calls overlapped or
\* failed before it, and with a status query in between.
AloneIsObeyed ==
  \A k \in Calls :
    AtRest /\ told /\ followed /\ k = begun /\ call[k].alone => Obeyed(k)
===============================================================================
