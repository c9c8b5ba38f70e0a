------------------------------ MODULE Platforms ------------------------------
(***************************************************************************)
(* The entities of one config entry: the set-up of the switch, light and   *)
(* sensor platforms before or after the device was discovered, what they   *)
(* leave in Home Assistant's entity registry, the schema migration of the  *)
(* entry, and the readings that the sensor entities show.                  *)
(*                                                                         *)
(* The coordinator's polling is Coordinator, the state of switches and     *)
(* lights is PlugState and LightEntity.  Home Assistant (external) saves   *)
(* its entries and its registry some time after they changed, each on its  *)
(* own, and both when it stops; it may also die.                           *)
(***************************************************************************)
EXTENDS SensorCodec, FiniteSets

CONSTANTS
  Models,        \* models of the entry to consider, a subset of AllModels
  Leads,         \* what precedes the reading in a thermo-hygrometer's broadcast
  Climates,      \* readings of a thermo-hygrometer
  Loads,         \* readings of an H5086
  MaxStops,      \* bound: restarts, crashes and reloads
  MaxToggles,    \* bound: how often the user enables or disables a sensor
  MaxReadings    \* bound: how many readings the device takes

\* The bespoke plugs and light, a model of each family, and one that no
\* definition matches.
AllModels == {"H5080", "H5082", "H5086", "H6163", "H6159", "H5075", "H7160",
              "unknown"}

ASSUME ModelsAssumption == Models \subseteq AllModels
\* A flags byte, and readings that the frames have room for and the gates of the
\* decoder are for.
ASSUME ReadingsAssumption ==
  /\ Leads \subseteq {<<flags>> : flags \in Bytes}
  /\ Climates \subseteq
       [temperature : TEMP_MIN..TEMP_MAX, humidity : 0..999, battery : 0..100]
  /\ Loads \subseteq
       [time_on : 0..Max24, energy : 0..Max24, voltage : 0..Max16,
        current : 0..Max16, power : 0..Max24, power_factor : Bytes]
ASSUME BoundsAssumption ==
  MaxStops \in Nat /\ MaxToggles \in Nat /\ MaxReadings \in Nat

VARIABLES
  model,      \* of the entry
  disk,       \* what a crash leaves of the entry's version and the registry
  minor,      \* the entry's minor_version
  registry,   \* entity registry: by whom each registered entity is disabled
  loaded,     \* is the entry set up?
  api,        \* does the coordinator have its API?
  seen,       \* does the coordinator have its BLE device?
  entities,   \* the entities that run
  values,     \* the API's readings
  air,        \* broadcasts on their way
  taken,      \* history: readings the device has taken
  choice,     \* history: the user's last word on the power factor
  torn,       \* history: did a crash lose the user's choice, or of the migration
              \* only what it did to the registry?
  stops, toggles

haVars == <<disk, minor, registry, torn>>
entryVars == <<loaded, api, seen, entities>>
readingVars == <<values, air, taken>>
userVars == <<choice, toggles>>
vars == <<model, haVars, entryVars, readingVars, userVars, stops>>

----------------------------------------------------------------------------
(* Definitions, APIs and the entities the platforms make of them.           *)

find_definition_by_model ==
  CASE model \in {"H5080", "H5082", "H5086"} ->
         [category |-> "plug", ports |-> {"only"}, metrics |-> {}]
    [] model \in {"H6163", "H6159"} ->
         [category |-> "light", ports |-> {}, metrics |-> {}]
    [] model = "H5075" ->
         [category |-> "sensor", ports |-> {},
          metrics |-> {"temperature", "humidity", "battery"}]
    [] model = "H7160" ->
         [category |-> "appliance", ports |-> {"only"}, metrics |-> {}]
    [] model = "unknown" -> [category |-> "none", ports |-> {}, metrics |-> {}]

\* port_names of the API's class; the port (None, None) is "only".
port_names == CASE model \in {"H5080", "H5086", "H7160"} -> {"only"}
                [] model = "H5082" -> {"left", "right"}
                [] OTHER -> {}
has_light == model \in {"H6163", "H6159"}
supports_power_monitoring == model = "H5086"
sensor_metrics == find_definition_by_model.metrics

\* Mutant of get_api_by_model: a model without definition gets an API too.
get_api_by_model_anyway == TRUE

\* Does it return an API, or raise?
get_api_by_model == find_definition_by_model.category # "none"

Entity(platform, key) == [platform |-> platform, key |-> key]
power_factor == Entity("sensor", "power_factor")

\* Mutant of Switches: whatever the model, it may be a switch.
SwitchesAlways(discovered) ==
  LET ports == IF discovered THEN port_names ELSE {"only"}
  IN {Entity("switch", p) : p \in ports}

\* async_setup_entry of the switch platform.
Switches(discovered) ==
  LET ports == IF discovered THEN port_names
               ELSE IF find_definition_by_model.category \in {"plug", "appliance"}
                    THEN find_definition_by_model.ports ELSE {}
  IN {Entity("switch", p) : p \in ports}

\* async_setup_entry of the light platform.
Lights(discovered) ==
  IF (discovered /\ has_light)
       \/ (~discovered /\ find_definition_by_model.category = "light")
  THEN {Entity("light", "only")} ELSE {}

\* async_setup_entry of the sensor platform.
Sensors(discovered) ==
  LET power == IF discovered THEN supports_power_monitoring ELSE model = "H5086"
  IN (IF power THEN {Entity("sensor", "power"), power_factor} ELSE {})
       \cup {Entity("sensor", m) : m \in
               IF discovered THEN sensor_metrics
               ELSE IF find_definition_by_model.category = "sensor"
                    THEN find_definition_by_model.metrics ELSE {}}

Made(discovered) ==
  Switches(discovered) \cup Lights(discovered) \cup Sensors(discovered)

EnabledIn(reg) == {e \in DOMAIN reg : reg[e] = "nobody"}

\* Home Assistant registers entities it has not met, disabled if their class
\* says so.
Registered(reg, made) ==
  [e \in DOMAIN reg \cup made |->
     IF e \in DOMAIN reg THEN reg[e]
     ELSE IF e = power_factor THEN "integration" ELSE "nobody"]

----------------------------------------------------------------------------

TypeOK ==
  /\ model \in Models
  /\ minor \in {1, 2} /\ disk.minor \in {1, 2}
  /\ \A e \in DOMAIN registry : registry[e] \in {"nobody", "integration", "user"}
  /\ DOMAIN disk.registry \subseteq DOMAIN registry
  /\ entities \subseteq DOMAIN registry
  /\ loaded \in BOOLEAN /\ api \in BOOLEAN /\ seen \in BOOLEAN
  /\ api => loaded /\ seen /\ model # "unknown"
  /\ values # Nothing => api /\ model \in {"H5075", "H5086"}
  /\ Cardinality(air) <= 2
  /\ Cardinality(taken) <= MaxReadings
  /\ choice \in {"none", "on", "off"}
  /\ torn \in BOOLEAN
  /\ stops \in 0..MaxStops /\ toggles \in 0..MaxToggles

\* A new entry, or one of the version that enabled the power factor, whose
\* entity the user may have disabled since.
Init ==
  /\ model \in Models
  /\ minor \in {1, 2}
  /\ \E by \in {"nobody", "user"} :
       registry = IF minor = 2 THEN <<>>
                  ELSE [e \in Made(TRUE) |-> IF e = power_factor THEN by ELSE "nobody"]
  /\ disk = [minor |-> minor, registry |-> registry]
  /\ loaded = FALSE /\ api = FALSE /\ seen = FALSE /\ entities = {}
  /\ values = Nothing /\ air = {} /\ taken = {}
  /\ choice = IF power_factor \in DOMAIN registry /\ registry[power_factor] = "user"
              THEN "off" ELSE "none"
  /\ torn = FALSE /\ stops = 0 /\ toggles = 0

----------------------------------------------------------------------------
(* Set-up and end of the entry.                                            *)

\* async_migrate_entry, minor 1 -> 2: what it does to the registry.
Swept(reg) ==
  [e \in DOMAIN reg |->
     IF e = power_factor /\ reg[e] = "nobody" THEN "integration" ELSE reg[e]]

\* Mutant of MigratedTo: the entry is not stamped.
MigratedToSame(version) == version

\* async_migrate_entry, minor 1 -> 2: the stamp.
MigratedTo(version) == IF version < 2 THEN 2 ELSE version

\* async_migrate_entry, async_setup_entry and the platforms' set-up; the device
\* may be known to the Bluetooth manager.
SetupEntry ==
  /\ ~loaded
  /\ \E discovered \in BOOLEAN :
       LET reg == IF minor < 2 THEN Swept(registry) ELSE registry IN
       /\ minor' = MigratedTo(minor)
       /\ IF discovered /\ ~get_api_by_model
          THEN registry' = reg /\ UNCHANGED entryVars
          ELSE /\ registry' = Registered(reg, Made(discovered))
               /\ entities' = Made(discovered) \cap EnabledIn(registry')
               /\ loaded' = TRUE
               /\ api' = discovered
               /\ seen' = discovered
  /\ UNCHANGED <<model, disk, torn, readingVars, userVars, stops>>

\* What is in memory goes.
Gone ==
  /\ stops < MaxStops
  /\ stops' = stops + 1
  /\ loaded' = FALSE /\ api' = FALSE /\ seen' = FALSE
  /\ entities' = {} /\ values' = Nothing

\* async_unload_entry: the options changed, or the user reloads the entry.
UnloadEntry ==
  /\ loaded
  /\ Gone
  /\ UNCHANGED <<model, haVars, air, taken, userVars>>

SaveEntry ==
  /\ disk' = [disk EXCEPT !.minor = minor]
  /\ UNCHANGED <<model, minor, registry, torn, entryVars, readingVars, userVars,
                 stops>>

SaveRegistry ==
  /\ disk' = [disk EXCEPT !.registry = registry]
  /\ UNCHANGED <<model, minor, registry, torn, entryVars, readingVars, userVars,
                 stops>>

Restart ==
  /\ Gone
  /\ disk' = [minor |-> minor, registry |-> registry]
  /\ UNCHANGED <<model, minor, registry, torn, air, taken, userVars>>

Unsaved == disk # [minor |-> minor, registry |-> registry]
ChoiceLost == Unsaved /\ choice # "none"
SweepLost ==
  Unsaved /\ disk.minor = 2 /\ power_factor \in EnabledIn(disk.registry)

Crash ==
  /\ Gone
  /\ minor' = disk.minor
  /\ registry' = disk.registry
  /\ torn' = (torn \/ ChoiceLost \/ SweepLost)
  /\ UNCHANGED <<model, disk, air, taken, userVars>>

\* The user enables or disables the power factor; disabling removes it, enabling
\* it takes effect with the next set-up.
Toggle ==
  /\ loaded
  /\ power_factor \in DOMAIN registry
  /\ toggles < MaxToggles
  /\ toggles' = toggles + 1
  /\ IF registry[power_factor] = "nobody"
     THEN /\ registry' = [registry EXCEPT ![power_factor] = "user"]
          /\ entities' = entities \ {power_factor}
          /\ choice' = "off"
     ELSE /\ registry' = [registry EXCEPT ![power_factor] = "nobody"]
          /\ choice' = "on"
          /\ UNCHANGED entities
  /\ UNCHANGED <<model, disk, minor, torn, loaded, api, seen, readingVars, stops>>

----------------------------------------------------------------------------
(* Broadcasts and readings.                                                *)

\* The device takes a reading, which a thermo-hygrometer broadcasts; the
\* broadcast before the last is no longer heard.
Measure ==
  /\ Cardinality(taken) < MaxReadings
  /\ \/ /\ model = "H5075"
        /\ \E r \in Climates \ taken, lead \in Leads, old \in SUBSET air :
             /\ Cardinality(old) <= 1
             /\ taken' = taken \cup {r}
             /\ air' = old \cup {Broadcast(lead, r)}
     \/ /\ model = "H5086"
        /\ \E r \in Loads \ taken : taken' = taken \cup {r}
        /\ UNCHANGED air
  /\ UNCHANGED <<model, haVars, entryVars, values, userVars, stops>>

\* A reading fails, which is broadcast too.
MeasureFails ==
  /\ model = "H5075"
  /\ \E lead \in Leads, battery \in {0, 100} :
       air' = {FailedBroadcast(lead, battery)}
  /\ UNCHANGED <<model, haVars, entryVars, values, taken, userVars, stops>>

\* GenericSensorApi.handle_bluetooth_event.
Heard(data) ==
  IF model = "H5075" /\ parse_th_broadcast(data) # Nothing
  THEN parse_th_broadcast(data) ELSE values

\* _async_handle_bluetooth_event: creates the API if it is missing, which fails
\* for a model without definition and is not tried again, and hands it the data.
HearBroadcast ==
  /\ loaded
  /\ \E data \in air \cup {<<>>} :
       /\ seen' = TRUE
       /\ api' = (api \/ (~seen /\ get_api_by_model))
       /\ values' = IF api' THEN Heard(data) ELSE values
  /\ UNCHANGED <<model, haVars, loaded, entities, air, taken, userVars, stops>>

\* async_query_status of the H5086: the last of the power frames that come,
\* whether an answer (0xAA) or a push (0xEE), of readings it has taken.
PollPower ==
  /\ api
  /\ model = "H5086"
  /\ \E r \in taken, header \in {170, 238} :
       values' = parse_power(PowerFrame(header, r))
  /\ UNCHANGED <<model, haVars, entryVars, air, taken, userVars, stops>>

Next ==
  \/ SetupEntry \/ UnloadEntry \/ SaveEntry \/ SaveRegistry \/ Restart \/ Crash
  \/ Toggle \/ Measure \/ MeasureFails \/ HearBroadcast \/ PollPower

Spec == Init /\ [][Next]_vars

----------------------------------------------------------------------------
(* Properties.                                                             *)

\* The power factor sensor is off unless the user switched it on after the
\* migration, and stays as the user set it ("the sweep runs exactly once per
\* entry, so anyone who re-enables the sensor afterwards keeps it",
\* __init__.py:72): through reloads, restarts and crashes, except one that came
\* between the save of the entry and that of the registry.
PowerFactorAsChosen ==
  loaded /\ ~torn /\ power_factor \in DOMAIN registry =>
    CASE choice = "on" -> registry[power_factor] = "nobody"
      [] choice = "off" -> registry[power_factor] = "user"
      [] choice = "none" -> registry[power_factor] = "integration"

\* The entities that run are those of the API, but for disabled ones.
Fits == {e \in entities : e # power_factor}
          = (Made(TRUE) \ {power_factor}) \cap EnabledIn(registry)

\* Whether the device was there at each set-up or appeared later, the entry's
\* entities are those its API stands for ("so it appears and starts working once
\* the device shows up", light.py:505), and the registry holds no other; except
\* for an H5082.
EntitiesFit == api /\ model # "H5082" => Fits /\ DOMAIN registry = Made(TRUE)

\* capabilities.py:18, "``ports`` mirrors the existing ``api.port_names()``
\* shape": so it makes no difference when the device is discovered.
PortsFit == api => Fits

\* The readings shown were taken together by the device: whichever broadcasts
\* were lost, repeated or reordered, and although some say that the reading
\* failed.
ShownWasMeasured == values # Nothing => values \in taken
===============================================================================
