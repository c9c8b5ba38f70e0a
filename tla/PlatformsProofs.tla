--------------------------- MODULE PlatformsProofs ---------------------------
(***************************************************************************)
(* For any models, readings and broadcasts and any number of restarts,     *)
(* crashes, reloads and changes by the user: the power factor sensor is as *)
(* the user chose, the registry has the entities of the entry's model, and *)
(* the sensors show readings that the device has taken.                    *)
(***************************************************************************)
EXTENDS Platforms, FiniteSetTheorems, SequenceTheorems, TLAPS

\* What the registry and the entry's version must say together: an entry that
\* is not migrated yet may hold the old default, and nothing the user switched on.
Chosen(reg, version) ==
  /\ choice = "on" =>
       /\ power_factor \in DOMAIN reg /\ reg[power_factor] = "nobody"
       /\ version = 2
  /\ choice = "off" =>
       power_factor \in DOMAIN reg /\ reg[power_factor] = "user"
  /\ choice = "none" /\ power_factor \in DOMAIN reg =>
       \/ reg[power_factor] = "integration"
       \/ version = 1 /\ reg[power_factor] = "nobody"

\* What a crash leaves, as long as the user has not chosen, is no choice.
NoChoiceOnDisk ==
  choice = "none" /\ power_factor \in DOMAIN disk.registry
    => disk.registry[power_factor] \in {"nobody", "integration"}

VersionsOK ==
  /\ minor \in {1, 2} /\ disk.minor \in {1, 2}
  /\ choice \in {"none", "on", "off"}
  /\ loaded => minor = 2

IndInv ==
  /\ VersionsOK
  /\ ~torn => Chosen(registry, minor) /\ NoChoiceOnDisk

----------------------------------------------------------------------------
(* What the migration and the registration make of the registry.            *)

LEMMA SweptKeeps ==
  ASSUME NEW reg, Chosen(reg, 1), choice # "on"
  PROVE  Chosen(Swept(reg), 2)
BY DEF Chosen, Swept

LEMMA RegisteredKeeps ==
  ASSUME NEW reg, NEW made, Chosen(reg, 2)
  PROVE  Chosen(Registered(reg, made), 2)
BY DEF Chosen, Registered

----------------------------------------------------------------------------
(* The invariant holds initially and is kept by every step.                  *)

LEMMA InitHolds == Init => IndInv
<1> SUFFICES ASSUME Init PROVE IndInv
  OBVIOUS
<1>1. minor \in {1, 2} /\ disk.minor = minor /\ disk.registry = registry
      /\ loaded = FALSE
  BY DEF Init
<1>2. choice = IF power_factor \in DOMAIN registry
                    /\ registry[power_factor] = "user"
               THEN "off" ELSE "none"
  BY DEF Init
<1>3. CASE minor = 2
  <2>1. registry = <<>>
    BY <1>3 DEF Init
  <2>2. power_factor \notin DOMAIN registry
    BY <2>1
  <2> QED
    BY <1>1, <1>2, <2>2 DEF IndInv, VersionsOK, Chosen, NoChoiceOnDisk
<1>4. CASE minor = 1
  <2> DEFINE old(by) == [e \in Made(TRUE) |->
                           IF e = power_factor THEN by ELSE "nobody"]
  <2>1. PICK by \in {"nobody", "user"} :
          registry = IF minor = 2 THEN <<>> ELSE old(by)
    BY DEF Init
  <2>2. power_factor \in DOMAIN registry
          => registry[power_factor] \in {"nobody", "user"}
    BY <1>4, <2>1
  <2> QED
    BY <1>1, <1>2, <1>4, <2>2 DEF IndInv, VersionsOK, Chosen, NoChoiceOnDisk
<1> QED
  BY <1>1, <1>3, <1>4

\* Steps that change neither the registry nor what was chosen.
LEMMA OtherSteps ==
  ASSUME IndInv, UNCHANGED <<minor, registry, disk, torn, choice>>,
         loaded' = loaded \/ loaded' = FALSE
  PROVE  IndInv'
BY DEF IndInv, VersionsOK, Chosen, NoChoiceOnDisk

LEMMA SetupStep == ASSUME IndInv, SetupEntry PROVE IndInv'
<1> DEFINE reg == IF minor < 2 THEN Swept(registry) ELSE registry
<1>1. PICK discovered \in BOOLEAN :
        \/ registry' = reg /\ UNCHANGED loaded
        \/ registry' = Registered(reg, Made(discovered))
  BY DEF SetupEntry, entryVars
<1>2. minor' = 2
  BY DEF SetupEntry, MigratedTo, IndInv, VersionsOK
<1>3. UNCHANGED <<disk, torn, choice>>
  BY DEF SetupEntry, userVars
<1>4. ~torn => Chosen(reg, 2)
  <2>1. CASE minor = 1
    BY <2>1, SweptKeeps DEF IndInv, Chosen
  <2>2. CASE minor = 2
    BY <2>2 DEF IndInv
  <2> QED
    BY <2>1, <2>2 DEF IndInv, VersionsOK
<1> HIDE DEF reg
<1>5. ~torn => Chosen(registry', 2)
  BY <1>1, <1>4, RegisteredKeeps
<1>6. ~torn' => Chosen(registry, minor)' /\ NoChoiceOnDisk'
  BY <1>2, <1>3, <1>5 DEF IndInv, Chosen, NoChoiceOnDisk
<1>7. VersionsOK'
  BY <1>2, <1>3 DEF IndInv, VersionsOK
<1> QED
  BY <1>6, <1>7 DEF IndInv

\* Saving writes what the invariant allows: until the user chose, the registry
\* holds no choice.
LEMMA SavingSteps ==
  ASSUME IndInv, SaveEntry \/ SaveRegistry \/ Restart
  PROVE  IndInv'
<1>1. UNCHANGED <<minor, registry, torn, choice>>
      /\ (loaded' = loaded \/ loaded' = FALSE)
  BY DEF SaveEntry, SaveRegistry, Restart, Gone, entryVars, userVars
<1>2. disk'.minor \in {1, 2}
      /\ (disk'.registry = disk.registry \/ disk'.registry = registry)
  <2>1. CASE SaveEntry
    BY <2>1 DEF SaveEntry, IndInv, VersionsOK
  <2>2. CASE SaveRegistry
    BY <2>2 DEF SaveRegistry, IndInv, VersionsOK
  <2>3. CASE Restart
    BY <2>3 DEF Restart, IndInv, VersionsOK
  <2> QED
    BY <2>1, <2>2, <2>3
<1>3. VersionsOK'
  BY <1>1, <1>2 DEF IndInv, VersionsOK
<1>4. ~torn' => Chosen(registry, minor)' /\ NoChoiceOnDisk'
  BY <1>1, <1>2 DEF IndInv, Chosen, NoChoiceOnDisk
<1> QED
  BY <1>3, <1>4 DEF IndInv

\* A crash that is not torn finds the disk as memory was, or nothing chosen and
\* no migration stamped without its sweep.
LEMMA CrashStep == ASSUME IndInv, Crash PROVE IndInv'
<1>1. /\ minor' = disk.minor /\ registry' = disk.registry
      /\ UNCHANGED <<disk, choice>> /\ loaded' = FALSE
  BY DEF Crash, Gone, userVars
<1>2. ~torn' => ~torn /\ ~ChoiceLost /\ ~SweepLost
  BY DEF Crash
<1>3. VersionsOK'
  BY <1>1 DEF IndInv, VersionsOK
<1>4. ASSUME ~torn' PROVE Chosen(registry, minor)' /\ NoChoiceOnDisk'
  <2>1. Chosen(registry, minor) /\ NoChoiceOnDisk
    BY <1>2, <1>4 DEF IndInv
  <2>2. CASE ~Unsaved
    <3>1. disk = [minor |-> minor, registry |-> registry]
      BY <2>2 DEF Unsaved
    <3>2. minor' = minor /\ registry' = registry
      BY <1>1, <3>1
    <3> QED
      BY <1>1, <2>1, <3>2 DEF Chosen, NoChoiceOnDisk
  <2>3. CASE Unsaved
    <3>1. choice = "none"
      BY <1>2, <1>4, <2>3 DEF ChoiceLost
    <3>2. disk.minor = 2 /\ power_factor \in DOMAIN disk.registry
            => disk.registry[power_factor] # "nobody"
      BY <1>2, <1>4, <2>3 DEF SweepLost, EnabledIn
    <3> QED
      BY <1>1, <2>1, <3>1, <3>2 DEF Chosen, NoChoiceOnDisk, IndInv, VersionsOK
  <2> QED
    BY <2>2, <2>3
<1> QED
  BY <1>3, <1>4 DEF IndInv

LEMMA ToggleStep == ASSUME IndInv, Toggle PROVE IndInv'
<1>1. UNCHANGED <<minor, disk, torn, loaded>> /\ loaded
      /\ power_factor \in DOMAIN registry
  BY DEF Toggle
<1>2. minor = 2
  BY <1>1 DEF IndInv, VersionsOK
<1>3. \/ choice' = "off" /\ registry' = [registry EXCEPT ![power_factor] = "user"]
      \/ choice' = "on" /\ registry' = [registry EXCEPT ![power_factor] = "nobody"]
  BY DEF Toggle
<1>4. Chosen(registry, minor)' /\ NoChoiceOnDisk'
  BY <1>1, <1>2, <1>3 DEF Chosen, NoChoiceOnDisk
<1>5. VersionsOK'
  BY <1>1, <1>3 DEF IndInv, VersionsOK
<1> QED
  BY <1>4, <1>5 DEF IndInv

LEMMA NextHolds == IndInv /\ [Next]_vars => IndInv'
<1> SUFFICES ASSUME IndInv, [Next]_vars PROVE IndInv'
  OBVIOUS
<1>1. CASE SetupEntry
  BY <1>1, SetupStep
<1>2. CASE SaveEntry \/ SaveRegistry \/ Restart
  BY <1>2, SavingSteps
<1>3. CASE Crash
  BY <1>3, CrashStep
<1>4. CASE Toggle
  BY <1>4, ToggleStep
<1>5. CASE UnloadEntry \/ Measure \/ MeasureFails \/ HearBroadcast \/ PollPower
  <2>1. UNCHANGED <<minor, registry, disk, torn, choice>>
        /\ (loaded' = loaded \/ loaded' = FALSE)
    BY <1>5 DEF UnloadEntry, Gone, Measure, MeasureFails, HearBroadcast,
                PollPower, haVars, entryVars, userVars
  <2> QED
    BY <2>1, OtherSteps
<1>6. CASE UNCHANGED vars
  BY <1>6, OtherSteps DEF vars, haVars, entryVars, userVars
<1> QED
  BY <1>1, <1>2, <1>3, <1>4, <1>5, <1>6 DEF Next

\* The inductive invariant of the entry's version, the registry and the disk.
THEOREM Invariance == Spec => []IndInv
<1>1. Init => IndInv
  BY InitHolds
<1>2. IndInv /\ [Next]_vars => IndInv'
  BY NextHolds
<1> QED
  BY <1>1, <1>2, PTL DEF Spec

\* The migration switches the power factor off exactly once: afterwards it is as
\* the user set it, through any number of reloads, restarts and crashes.
THEOREM PowerFactorStaysChosen == Spec => []PowerFactorAsChosen
<1>1. IndInv => PowerFactorAsChosen
  <2> SUFFICES ASSUME IndInv, loaded, ~torn, power_factor \in DOMAIN registry
               PROVE  CASE choice = "on" -> registry[power_factor] = "nobody"
                        [] choice = "off" -> registry[power_factor] = "user"
                        [] choice = "none" ->
                             registry[power_factor] = "integration"
    BY DEF PowerFactorAsChosen
  <2>1. Chosen(registry, minor) /\ minor = 2
    BY DEF IndInv, VersionsOK
  <2>2. CASE choice = "on"
    BY <2>1, <2>2 DEF Chosen
  <2>3. CASE choice = "off"
    BY <2>1, <2>3 DEF Chosen
  <2>4. CASE choice = "none"
    BY <2>1, <2>4 DEF Chosen
  <2> QED
    BY <2>2, <2>3, <2>4 DEF IndInv, VersionsOK
<1> QED
  BY <1>1, Invariance, PTL

----------------------------------------------------------------------------
(* Types and entities.                                                     *)

Disablers == {"nobody", "integration", "user"}

\* The disk holds an earlier registry.
DiskTyped ==
  /\ disk = [minor |-> disk.minor, registry |-> disk.registry]
  /\ \A e \in DOMAIN disk.registry : disk.registry[e] \in Disablers

\* The registry only ever holds entities of the API, whether the device was
\* there when they were registered or not, and holds all of them once the
\* entry has been set up.
RegistryFits ==
  model # "H5082" =>
    /\ DOMAIN registry \subseteq Made(TRUE)
    /\ loaded => Fits /\ DOMAIN registry = Made(TRUE)

Counted ==
  /\ IsFiniteSet(air) /\ Cardinality(air) <= 2
  /\ IsFiniteSet(taken) /\ Cardinality(taken) <= MaxReadings

TypeInv == TypeOK /\ DiskTyped /\ Counted

\* What the platforms make of a device that was there and of one that was not.
LEMMA SameMade ==
  ASSUME model \in AllModels, model # "H5082", NEW discovered \in BOOLEAN
  PROVE  Made(discovered) = Made(TRUE)
<1>1. CASE discovered
  BY <1>1
<1>2. CASE ~discovered
  <2>1. Switches(discovered) = Switches(TRUE)
    <3>1. port_names = IF find_definition_by_model.category \in {"plug", "appliance"}
                       THEN find_definition_by_model.ports ELSE {}
      BY DEF port_names, find_definition_by_model, AllModels
    <3> QED
      BY <1>2, <3>1 DEF Switches
  <2>2. Lights(discovered) = Lights(TRUE)
    <3>1. has_light <=> find_definition_by_model.category = "light"
      BY DEF has_light, find_definition_by_model, AllModels
    <3> QED
      BY <1>2, <3>1 DEF Lights
  <2>3. Sensors(discovered) = Sensors(TRUE)
    <3>1. sensor_metrics = IF find_definition_by_model.category = "sensor"
                           THEN find_definition_by_model.metrics ELSE {}
      BY DEF sensor_metrics, find_definition_by_model, AllModels
    <3>2. supports_power_monitoring <=> model = "H5086"
      BY DEF supports_power_monitoring
    <3> QED
      BY <1>2, <3>1, <3>2 DEF Sensors
  <2> QED
    BY <2>1, <2>2, <2>3 DEF Made
<1> QED
  BY <1>1, <1>2

LEMMA ModelKept ==
  ASSUME model' = model
  PROVE  Made(TRUE)' = Made(TRUE) /\ (get_api_by_model' <=> get_api_by_model)
BY DEF Made, Switches, Lights, Sensors, port_names, has_light, sensor_metrics,
       supports_power_monitoring, find_definition_by_model, get_api_by_model

LEMMA TypeInit == Init => TypeInv /\ RegistryFits
<1> SUFFICES ASSUME Init PROVE TypeInv /\ RegistryFits
  OBVIOUS
<1>1. /\ model \in Models /\ minor \in {1, 2}
      /\ disk = [minor |-> minor, registry |-> registry]
      /\ loaded = FALSE /\ api = FALSE /\ seen = FALSE /\ entities = {}
      /\ values = Nothing /\ air = {} /\ taken = {} /\ torn = FALSE
      /\ stops = 0 /\ toggles = 0 /\ choice \in {"off", "none"}
  BY DEF Init
<1>2. /\ DOMAIN registry \subseteq Made(TRUE)
      /\ \A e \in DOMAIN registry : registry[e] \in Disablers
  <2>1. PICK by \in {"nobody", "user"} :
          registry = IF minor = 2 THEN <<>>
                     ELSE [e \in Made(TRUE) |->
                             IF e = power_factor THEN by ELSE "nobody"]
    BY DEF Init
  <2>2. CASE minor = 2
    <3>1. registry = <<>> /\ DOMAIN registry = {}
      BY <2>1, <2>2
    <3> QED
      BY <3>1
  <2>3. CASE minor # 2
    BY <2>1, <2>3 DEF Disablers
  <2> QED
    BY <2>2, <2>3
<1>3. Counted
  BY <1>1, FS_EmptySet, BoundsAssumption DEF Counted
<1>4. TypeOK
  <2>1. disk.minor = minor /\ disk.registry = registry
    BY <1>1
  <2>2. /\ stops \in 0..MaxStops /\ toggles \in 0..MaxToggles
        /\ entities \subseteq DOMAIN registry
    BY <1>1, BoundsAssumption
  <2>3. \A e \in DOMAIN registry : registry[e] \in {"nobody", "integration", "user"}
    BY <1>2 DEF Disablers
  <2> QED
    BY <1>1, <1>3, <2>1, <2>2, <2>3 DEF TypeOK, Counted
<1> QED
  BY <1>1, <1>2, <1>3, <1>4 DEF TypeInv, DiskTyped, RegistryFits

LEMMA TypeStep == TypeInv /\ [Next]_vars => TypeInv'
<1> SUFFICES ASSUME TypeInv, [Next]_vars PROVE TypeInv'
  OBVIOUS
<1> USE DEF Disablers
<1>0. TypeOK /\ DiskTyped /\ Counted
  BY DEF TypeInv
<1>1. CASE SetupEntry
  <2> DEFINE reg == IF minor < 2 THEN Swept(registry) ELSE registry
  <2>1. PICK discovered \in BOOLEAN :
          /\ minor' = MigratedTo(minor)
          /\ IF discovered /\ ~get_api_by_model
             THEN registry' = reg /\ UNCHANGED entryVars
             ELSE /\ registry' = Registered(reg, Made(discovered))
                  /\ entities' = Made(discovered) \cap EnabledIn(registry')
                  /\ loaded' = TRUE /\ api' = discovered /\ seen' = discovered
    BY <1>1 DEF SetupEntry
  <2>2. UNCHANGED <<model, disk, torn, values, air, taken, choice, toggles, stops>>
        /\ ~loaded
    BY <1>1 DEF SetupEntry, readingVars, userVars
  <2>3. DOMAIN reg = DOMAIN registry /\ \A e \in DOMAIN reg : reg[e] \in Disablers
    BY <1>0 DEF TypeOK, Swept
  <2>4. minor' = 2 /\ values = Nothing
    BY <1>0, <2>1, <2>2 DEF TypeOK, MigratedTo
  <2> HIDE DEF reg
  <2>5. CASE discovered /\ ~get_api_by_model
    BY <1>0, <2>1, <2>2, <2>3, <2>4, <2>5
    DEF TypeInv, TypeOK, DiskTyped, Counted, entryVars
  <2>6. CASE ~(discovered /\ ~get_api_by_model)
    <3>1. /\ registry' = Registered(reg, Made(discovered))
          /\ entities' = Made(discovered) \cap EnabledIn(registry')
          /\ loaded' = TRUE /\ api' = discovered /\ seen' = discovered
      BY <2>1, <2>6
    <3>2. /\ DOMAIN registry \subseteq DOMAIN registry'
          /\ \A e \in DOMAIN registry' : registry'[e] \in Disablers
      BY <2>3, <3>1 DEF Registered
    <3>3. entities' \subseteq DOMAIN registry'
      BY <3>1 DEF EnabledIn
    <3>4. discovered => model # "unknown"
      BY <2>6 DEF get_api_by_model, find_definition_by_model
    <3> QED
      BY <1>0, <2>2, <2>4, <3>1, <3>2, <3>3, <3>4
      DEF TypeInv, TypeOK, DiskTyped, Counted
  <2> QED
    BY <2>5, <2>6
<1>2. CASE UnloadEntry \/ Restart \/ Crash
  <2>1. /\ stops' \in 0..MaxStops
        /\ loaded' = FALSE /\ api' = FALSE /\ seen' = FALSE
        /\ entities' = {} /\ values' = Nothing
        /\ UNCHANGED <<model, air, taken, choice, toggles>>
    BY <1>0, <1>2, BoundsAssumption
    DEF UnloadEntry, Restart, Crash, Gone, TypeOK, userVars
  <2>2. /\ minor' \in {1, 2} /\ disk'.minor \in {1, 2}
        /\ DiskTyped'
        /\ \A e \in DOMAIN registry' : registry'[e] \in Disablers
        /\ DOMAIN disk'.registry \subseteq DOMAIN registry'
    <3>1. CASE UnloadEntry
      BY <1>0, <3>1 DEF UnloadEntry, haVars, TypeOK, DiskTyped
    <3>2. CASE Restart
      BY <1>0, <3>2 DEF Restart, TypeOK, DiskTyped
    <3>3. CASE Crash
      BY <1>0, <3>3 DEF Crash, TypeOK, DiskTyped
    <3> QED
      BY <1>2, <3>1, <3>2, <3>3
  <2>3. torn' \in BOOLEAN
    <3>1. CASE Crash
      <4>1. torn' = (torn \/ ChoiceLost \/ SweepLost)
        BY <3>1 DEF Crash
      <4> QED
        BY <4>1, Zenon
    <3>2. CASE UnloadEntry \/ Restart
      BY <1>0, <3>2 DEF UnloadEntry, Restart, TypeOK, haVars
    <3> QED
      BY <1>2, <3>1, <3>2
  <2> QED
    BY <1>0, <2>1, <2>2, <2>3 DEF TypeInv, TypeOK, Counted
<1>3. CASE SaveEntry \/ SaveRegistry
  <2>1. UNCHANGED <<model, minor, registry, torn, entryVars, readingVars, userVars, stops>>
    BY <1>3 DEF SaveEntry, SaveRegistry
  <2>2. /\ disk'.minor \in {1, 2} /\ DiskTyped'
        /\ DOMAIN disk'.registry \subseteq DOMAIN registry
    <3>1. disk' = [minor |-> minor, registry |-> disk.registry]
            \/ disk' = [minor |-> disk.minor, registry |-> registry]
      BY <1>0, <1>3 DEF SaveEntry, SaveRegistry, DiskTyped
    <3> QED
      BY <1>0, <3>1 DEF TypeOK, DiskTyped
  <2> QED
    BY <1>0, <2>1, <2>2
    DEF TypeInv, TypeOK, Counted, entryVars, readingVars, userVars
<1>4. CASE Toggle
  <2>1. /\ UNCHANGED <<model, disk, minor, torn, loaded, api, seen, values, air, taken,
                       stops>>
        /\ power_factor \in DOMAIN registry
        /\ toggles' \in 0..MaxToggles
        /\ choice' \in {"on", "off"}
        /\ entities' \subseteq entities
    BY <1>0, <1>4, BoundsAssumption DEF Toggle, TypeOK, readingVars
  <2>2. \E by \in Disablers : registry' = [registry EXCEPT ![power_factor] = by]
    BY <1>4 DEF Toggle
  <2>3. /\ DOMAIN registry' = DOMAIN registry
        /\ \A e \in DOMAIN registry' : registry'[e] \in Disablers
    BY <1>0, <2>2 DEF TypeOK
  <2> QED
    BY <1>0, <2>1, <2>3 DEF TypeInv, TypeOK, DiskTyped, Counted
<1>5. CASE Measure \/ MeasureFails
  <2>1. UNCHANGED <<model, haVars, entryVars, values, userVars, stops>>
    BY <1>5 DEF Measure, MeasureFails
  <2>2. Counted'
    <3>1. CASE Measure
      <4>1. Cardinality(taken) < MaxReadings
        BY <3>1 DEF Measure
      <4>2. \E r : taken' = taken \cup {r}
        BY <3>1 DEF Measure
      <4>3. \/ air' = air
            \/ \E old \in SUBSET air : \E b : Cardinality(old) <= 1 /\ air' = old \cup {b}
        BY <3>1 DEF Measure
      <4>4. IsFiniteSet(taken') /\ Cardinality(taken') <= MaxReadings
        <5>1. PICK r : taken' = taken \cup {r}
          BY <4>2
        <5>2. IsFiniteSet(taken) /\ Cardinality(taken) \in Nat
          BY <1>0, FS_CardinalityType DEF Counted
        <5>3. /\ IsFiniteSet(taken')
              /\ Cardinality(taken') \in {Cardinality(taken), Cardinality(taken) + 1}
          BY <5>1, <5>2, FS_AddElement
        <5> QED
          BY <4>1, <5>2, <5>3, BoundsAssumption
      <4>5. ASSUME NEW old \in SUBSET air, NEW b, Cardinality(old) <= 1,
                   air' = old \cup {b}
            PROVE  IsFiniteSet(air') /\ Cardinality(air') <= 2
        <5>1. IsFiniteSet(old) /\ Cardinality(old) \in Nat
          BY <1>0, FS_Subset, FS_CardinalityType DEF Counted
        <5> QED
          BY <4>5, <5>1, FS_AddElement
      <4> QED
        BY <1>0, <4>3, <4>4, <4>5 DEF Counted
    <3>2. CASE MeasureFails
      <4>1. taken' = taken /\ \E b : air' = {b}
        BY <3>2 DEF MeasureFails
      <4>2. IsFiniteSet(air') /\ Cardinality(air') = 1
        BY <4>1, FS_Singleton
      <4> QED
        BY <1>0, <4>1, <4>2 DEF Counted
    <3> QED
      BY <1>5, <3>1, <3>2
  <2> QED
    BY <1>0, <2>1, <2>2 DEF TypeInv, TypeOK, DiskTyped, Counted, haVars, entryVars, userVars
<1>6. CASE HearBroadcast
  <2>1. /\ UNCHANGED <<model, disk, minor, registry, torn, loaded, entities, air, taken,
                       choice, toggles, stops>>
        /\ loaded /\ seen' = TRUE
        /\ api' = (api \/ (~seen /\ get_api_by_model))
        /\ values' = values \/ (api' /\ model = "H5075")
    BY <1>6 DEF HearBroadcast, haVars, userVars, Heard
  <2>2. api' \in BOOLEAN
    BY <2>1, Zenon
  <2>3. api' => api \/ get_api_by_model
    BY <2>1, Zenon
  <2>4. api => api'
    BY <2>1, Zenon
  <2>5. api' => model # "unknown"
    BY <1>0, <2>3 DEF TypeOK, get_api_by_model, find_definition_by_model
  <2> QED
    BY <1>0, <2>1, <2>2, <2>4, <2>5 DEF TypeInv, TypeOK, DiskTyped, Counted
<1>7. CASE PollPower
  <2>1. UNCHANGED <<model, haVars, entryVars, air, taken, userVars, stops>>
        /\ api /\ model = "H5086"
    BY <1>7 DEF PollPower
  <2> QED
    BY <1>0, <2>1 DEF TypeInv, TypeOK, DiskTyped, Counted, haVars, entryVars, userVars
<1>8. CASE UNCHANGED vars
  BY <1>0, <1>8 DEF TypeInv, TypeOK, DiskTyped, Counted, vars, haVars, entryVars,
                    readingVars, userVars
<1> QED
  BY <1>1, <1>2, <1>3, <1>4, <1>5, <1>6, <1>7, <1>8 DEF Next

LEMMA FitsStep == TypeInv /\ RegistryFits /\ [Next]_vars => RegistryFits'
<1> SUFFICES ASSUME TypeInv, RegistryFits, [Next]_vars, model' # "H5082"
             PROVE  /\ DOMAIN registry' \subseteq Made(TRUE)'
                    /\ loaded' => Fits' /\ DOMAIN registry' = Made(TRUE)'
  BY DEF RegistryFits
<1>0. /\ TypeOK /\ model' = model /\ model \in AllModels /\ Made(TRUE)' = Made(TRUE)
  <2>1. model' = model
    BY DEF Next, SetupEntry, UnloadEntry, SaveEntry, SaveRegistry, Restart, Crash,
           Toggle, Measure, MeasureFails, HearBroadcast, PollPower, vars
  <2> QED
    BY <2>1, ModelKept, ModelsAssumption DEF TypeInv, TypeOK
<1> DEFINE made == Made(TRUE)
<1>1. /\ DOMAIN registry \subseteq made
      /\ loaded => Fits /\ DOMAIN registry = made
  BY <1>0 DEF RegistryFits
<1>2. CASE SetupEntry
  <2> DEFINE reg == IF minor < 2 THEN Swept(registry) ELSE registry
  <2>1. PICK discovered \in BOOLEAN :
          \/ registry' = reg /\ UNCHANGED entryVars
          \/ /\ registry' = Registered(reg, Made(discovered))
             /\ entities' = Made(discovered) \cap EnabledIn(registry')
    BY <1>2 DEF SetupEntry
  <2>2. DOMAIN reg = DOMAIN registry
    BY DEF Swept
  <2>3. Made(discovered) = made
    BY <1>0, SameMade
  <2> HIDE DEF reg, made
  <2>4. CASE registry' = reg /\ UNCHANGED entryVars
    <3>1. ~loaded'
      BY <1>2, <2>4 DEF SetupEntry, entryVars
    <3> QED
      BY <1>0, <1>1, <2>2, <2>4, <3>1 DEF made
  <2>5. CASE /\ registry' = Registered(reg, Made(discovered))
             /\ entities' = Made(discovered) \cap EnabledIn(registry')
    <3>1. DOMAIN registry' = made
      BY <1>1, <2>2, <2>3, <2>5 DEF Registered
    <3>2. Fits'
      BY <1>0, <2>3, <2>5 DEF Fits, made, power_factor, Entity, EnabledIn
    <3> QED
      BY <1>0, <3>1, <3>2 DEF made
  <2> QED
    BY <2>1, <2>4, <2>5
<1>3. CASE UnloadEntry \/ Restart \/ Crash
  <2>1. /\ ~loaded'
        /\ registry' = registry \/ registry' = disk.registry
    BY <1>3 DEF UnloadEntry, Restart, Crash, Gone, haVars
  <2> QED
    BY <1>0, <1>1, <2>1 DEF TypeOK
<1>4. CASE Toggle
  <2>1. /\ loaded /\ power_factor \in DOMAIN registry
        /\ \E by \in Disablers : registry' = [registry EXCEPT ![power_factor] = by]
        /\ entities' = entities \/ entities' = entities \ {power_factor}
    BY <1>4 DEF Toggle, Disablers
  <2>2. /\ DOMAIN registry' = DOMAIN registry
        /\ \A e \in DOMAIN registry : e # power_factor => registry'[e] = registry[e]
    BY <2>1
  <2>3. {e \in entities' : e # power_factor} = {e \in entities : e # power_factor}
    BY <2>1
  <2>4. (made \ {power_factor}) \cap EnabledIn(registry')
          = (made \ {power_factor}) \cap EnabledIn(registry)
    BY <2>2 DEF EnabledIn
  <2>5. Fits'
    BY <1>0, <1>1, <2>1, <2>3, <2>4 DEF Fits, power_factor, Entity, EnabledIn
  <2> QED
    BY <1>0, <1>1, <2>1, <2>2, <2>5
<1>5. CASE \/ SaveEntry \/ SaveRegistry \/ Measure \/ MeasureFails \/ HearBroadcast
           \/ PollPower \/ UNCHANGED vars
  <2>1. UNCHANGED <<registry, loaded, entities>>
    BY <1>5 DEF SaveEntry, SaveRegistry, Measure, MeasureFails, HearBroadcast,
                PollPower, vars, haVars, entryVars
  <2> QED
    BY <1>0, <1>1, <2>1 DEF Fits, power_factor, Entity, EnabledIn
<1> QED
  BY <1>2, <1>3, <1>4, <1>5 DEF Next

\* The registry, the disk and the entities keep within their types.
THEOREM TypeCorrect == Spec => []TypeOK
<1>1. TypeInv => TypeOK
  BY DEF TypeInv
<1> QED
  BY <1>1, TypeInit, TypeStep, PTL DEF Spec

\* Whether the device was there at each set-up or appeared later, and through any
\* number of reloads, restarts, crashes and changes by the user: the entities that
\* run are those the API stands for, but for the disabled ones, and the registry
\* holds exactly these; for every model but the H5082.
THEOREM EntitiesAlwaysFit == Spec => []EntitiesFit
<1>1. TypeInv /\ RegistryFits => EntitiesFit
  BY DEF TypeInv, TypeOK, RegistryFits, EntitiesFit
<1>2. Init => TypeInv /\ RegistryFits
  BY TypeInit
<1>3. TypeInv /\ RegistryFits /\ [Next]_vars => (TypeInv /\ RegistryFits)'
  BY TypeStep, FitsStep
<1> QED
  BY <1>1, <1>2, <1>3, PTL DEF Spec

----------------------------------------------------------------------------
(* Readings in bytes.                                                      *)

\* What follows in a frame follows at the end of what was there, which it leaves
\* as it is.
Kept(u, s) == \A i \in 1..Len(s) : u[i] = s[i]
Follows(u, s, t) ==
  /\ u \in Seq(Bytes) /\ Len(u) = Len(s) + Len(t)
  /\ Kept(u, s)
  /\ \A i \in 1..Len(t) : u[Len(s) + i] = t[i]

LEMMA Joined ==
  ASSUME NEW s \in Seq(Bytes), NEW t \in Seq(Bytes)
  PROVE  Follows(s \o t, s, t)
<1>1. /\ s \o t \in Seq(Bytes) /\ Len(s \o t) = Len(s) + Len(t)
      /\ Len(s) \in Nat /\ Len(t) \in Nat
      /\ \A i \in 1..(Len(s) + Len(t)) :
           (s \o t)[i] = IF i <= Len(s) THEN s[i] ELSE t[i - Len(s)]
  BY ConcatProperties, LenProperties
<1> DEFINE m == Len(s)
           n == Len(t)
<1>2. \A i \in 1..m : i \in 1..(m + n) /\ i <= m
  BY <1>1
<1>3. \A i \in 1..n : m + i \in 1..(m + n) /\ ~(m + i <= m) /\ (m + i) - m = i
  BY <1>1
<1> QED
  BY <1>1, <1>2, <1>3 DEF Follows, Kept

LEMMA Limits ==
  /\ Max16 \in Nat /\ Max16 < 65536
  /\ Max24 \in Nat /\ Max24 < 256 * 65536
BY SMT DEF Max16, Max24

\* Three bytes, or two, hold a number.
LEMMA Packed24 ==
  ASSUME NEW n \in 0..Max24
  PROVE  /\ Bytes24(n) \in Seq(Bytes) /\ Len(Bytes24(n)) = 3
         /\ Bytes24(n)[1] \in Bytes /\ Bytes24(n)[2] \in Bytes /\ Bytes24(n)[3] \in Bytes
         /\ 65536 * Bytes24(n)[1] + (256 * Bytes24(n)[2] + Bytes24(n)[3]) = n
<1> DEFINE h == n \div 256
           k == n \div 65536
           low == n % 256
           mid == h % 256
           j == h \div 256
<1>0. n \in Nat /\ n < 256 * 65536
  BY Limits, SMT
<1>1. h \in Nat /\ h < 65536 /\ low \in Nat /\ low < 256 /\ 256 * h + low = n
  BY <1>0, SMT
<1>2. k \in Nat /\ k < 256 /\ 65536 * k <= n /\ n < 65536 * k + 65536
  BY <1>0, SMT
<1> HIDE DEF h, k, low
<1>3. mid \in Nat /\ mid < 256 /\ j \in Nat /\ j < 256 /\ 256 * j + mid = h
  BY <1>1, SMT
<1> HIDE DEF mid, j
<1>4. 65536 * k + (256 * mid + low) = n
  BY <1>0, <1>1, <1>2, <1>3, SMT
<1>5. Bytes24(n) = <<k, mid, low>>
  BY SMT DEF Bytes24, k, mid, low, h
<1>6. k \in Bytes /\ mid \in Bytes /\ low \in Bytes
  BY <1>1, <1>2, <1>3, SMT DEF Bytes
<1> QED
  BY <1>4, <1>5, <1>6, SMT

LEMMA Packed16 ==
  ASSUME NEW n \in 0..Max16
  PROVE  /\ Bytes16(n) \in Seq(Bytes) /\ Len(Bytes16(n)) = 2
         /\ Bytes16(n)[1] \in Bytes /\ Bytes16(n)[2] \in Bytes
         /\ 256 * Bytes16(n)[1] + Bytes16(n)[2] = n
<1> DEFINE h == n \div 256
           low == n % 256
<1>0. n \in Nat /\ n < 65536
  BY Limits, SMT
<1>1. h \in Nat /\ h < 256 /\ low \in Nat /\ low < 256 /\ 256 * h + low = n
  BY <1>0, SMT
<1>2. Bytes16(n) = <<h, low>>
  BY DEF Bytes16
<1> HIDE DEF h, low
<1>3. h \in Bytes /\ low \in Bytes
  BY <1>1, SMT DEF Bytes
<1> QED
  BY <1>1, <1>2, <1>3, SMT

\* The number that a temperature and a humidity are packed as, and the number
\* that three bytes are.
Tenths(t) == IF t < 0 THEN -t ELSE t
Number(s, h) == 1000 * s + h
Signed(t, h) == IF t < 0 THEN SignBit + Number(Tenths(t), h) ELSE Number(Tenths(t), h)
Value(a, b, c) == 65536 * a + (256 * b + c)
Page == 65536

Temperatures == TEMP_MIN..TEMP_MAX
Magnitudes == 0..1000
Humidities == 0..999

\* The sign and the digits of a packed reading come apart again.
Apart(s, h) ==
  /\ Number(s, h) \in 0..Max24 /\ (SignBit + Number(s, h)) \in 0..Max24
  /\ Number(s, h) \div 1000 = s
  /\ Number(s, h) % 1000 = h
  /\ Number(s, h) % SignBit = Number(s, h)
  /\ (SignBit + Number(s, h)) % SignBit = Number(s, h)
  /\ Number(s, h) \in Nat /\ Number(s, h) < 16 * Page

LEMMA Digits == ASSUME NEW s \in Magnitudes, NEW h \in Humidities PROVE Apart(s, h)
<1> DEFINE raw == 1000 * s + h
<1>0. s \in 0..1000 /\ h \in 0..999
  BY DEF Magnitudes, Humidities
<1>1. raw \in Nat /\ raw < 16 * 65536
  BY <1>0, SMT
<1>2. raw \div 1000 = s /\ raw % 1000 = h
  BY <1>0, SMT
<1> HIDE DEF raw
<1>3. SignBit \in Nat /\ SignBit = 128 * 65536 /\ SignBit + 16 * 65536 <= Max24
  BY SMT DEF Max24, SignBit
<1>4. raw \in 0..Max24 /\ (SignBit + raw) \in 0..Max24
  BY <1>1, <1>3, Limits, SMT
<1>5. raw % SignBit = raw /\ (SignBit + raw) % SignBit = raw
  BY <1>1, <1>3, SMT
<1>6. Number(s, h) = raw
  BY DEF Number, raw
<1> QED
  BY <1>1, <1>2, <1>4, <1>5, <1>6, SMT DEF Page, Apart

\* The first byte tells the sign, and is no mark of failure.
LEMMA FirstByte ==
  ASSUME NEW n \in Nat, n < 16 * Page,
         NEW a \in Bytes, NEW b \in Bytes, NEW c \in Bytes
  PROVE  /\ Value(a, b, c) = n => a # 127 /\ a # 255 /\ ~(a >= 128)
         /\ Value(a, b, c) = SignBit + n => a # 127 /\ a # 255 /\ a >= 128
<1>1. a \in Nat /\ b \in Nat /\ b < 256 /\ c \in Nat /\ c < 256
  BY SMT DEF Bytes
<1>2. ASSUME 65536 * a + (256 * b + c) = n PROVE a < 16
  BY <1>1, <1>2, SMT DEF Page
<1>3. ASSUME 65536 * a + (256 * b + c) = 128 * 65536 + n
      PROVE  a >= 128 /\ a < 144
  BY <1>1, <1>3, SMT DEF Page
<1>4. SignBit = 128 * 65536
  BY SMT DEF SignBit
<1> QED
  BY <1>1, <1>2, <1>3, <1>4, SMT DEF Value

\* Whichever bytes the packed reading is in, its temperature and its humidity are
\* read from them.
Unpacks(t, h) ==
  /\ Signed(t, h) \in 0..Max24
  /\ (Signed(t, h) % SignBit) \div 1000 = Tenths(t)
  /\ (Signed(t, h) % SignBit) % 1000 = h
  /\ \A a, b, c \in Bytes :
       Value(a, b, c) = Signed(t, h) =>
         a # 127 /\ a # 255 /\ (a >= 128 <=> t < 0)

LEMMA Unpacked ==
  ASSUME NEW t \in Temperatures, NEW h \in Humidities
  PROVE  Unpacks(t, h)
<1>1. Tenths(t) \in Magnitudes
  BY SMT DEF TEMP_MIN, TEMP_MAX, Tenths, Temperatures, Magnitudes
<1> DEFINE n == Number(Tenths(t), h)
<1>2. /\ n \in 0..Max24 /\ (SignBit + n) \in 0..Max24
      /\ n \div 1000 = Tenths(t) /\ n % 1000 = h
      /\ n % SignBit = n /\ (SignBit + n) % SignBit = n
      /\ n \in Nat /\ n < 16 * Page
  <2>1. Apart(Tenths(t), h)
    BY <1>1, Digits, Zenon
  <2> QED
    BY <2>1, SMT DEF Apart
<1>3. Signed(t, h) = IF t < 0 THEN SignBit + n ELSE n
  BY Zenon DEF Signed
<1> HIDE DEF n
<1>4. Signed(t, h) \in 0..Max24 /\ Signed(t, h) % SignBit = n
  BY <1>2, <1>3, SMT
<1>5. ASSUME NEW a \in Bytes, NEW b \in Bytes, NEW c \in Bytes,
             Value(a, b, c) = Signed(t, h)
      PROVE  a # 127 /\ a # 255 /\ (a >= 128 <=> t < 0)
  BY <1>2, <1>3, <1>5, FirstByte, SMT
<1> QED
  BY <1>2, <1>4, <1>5, SMT DEF Unpacks

\* What a frame that starts with the flags and holds four bytes more is read as:
\* the reading at offset 1, if it passes, since that offset is tried first.
LEMMA FirstOffset ==
  ASSUME NEW data, Len(data) = 5, Passes(data, 1), Byte(data, 4) <= 100
  PROVE  parse_th_broadcast(data) = DecodedAt(data, 1)
<1> DEFINE offsets == <<1, 3, 0, 2>>
           Hit(off) == /\ Len(data) >= off + 4
                       /\ Passes(data, off)
                       /\ Byte(data, off + 3) <= 100
           hits == {i \in 1..4 : Hit(offsets[i])}
<1>1. offsets[1] = 1 /\ Hit(1)
  BY SMT
<1>2. 1 \in hits
  BY <1>1
<1>3. hits \subseteq 1..4
  OBVIOUS
<1>4. parse_th_broadcast(data)
        = IF hits = {} THEN Nothing ELSE DecodedAt(data, offsets[Min(hits)])
  BY DEF parse_th_broadcast
<1> HIDE DEF hits
<1>5. Min(hits) = 1
  <2>1. \A y \in hits : y \in Int /\ 1 <= y
    BY <1>3
  <2>2. \E x \in hits : \A y \in hits : x =< y
    BY <1>2, <2>1
  <2>3. Min(hits) \in hits /\ \A y \in hits : Min(hits) =< y
    BY <2>2, Zenon DEF Min
  <2> QED
    BY <1>2, <2>1, <2>3
<1> QED
  BY <1>1, <1>2, <1>4, <1>5, Zenon

\* The decoder reads every broadcast as the reading that it packs.
LEMMA BroadcastDecoded ==
  ASSUME NEW flags \in Bytes,
         NEW r \in [temperature : Temperatures, humidity : Humidities,
                    battery : 0..100]
  PROVE  parse_th_broadcast(Broadcast(<<flags>>, r)) = r
<1>0. PICK t, h, d : t = r.temperature /\ h = r.humidity /\ d = r.battery
  OBVIOUS
<1>1. /\ t \in Temperatures /\ h \in Humidities /\ d \in 0..100
      /\ r = [temperature |-> t, humidity |-> h, battery |-> d]
  BY <1>0, Zenon
<1>2. /\ t \in Int /\ t >= TEMP_MIN /\ t <= TEMP_MAX /\ d \in Bytes /\ d <= 100
      /\ -(-t) = t
  BY <1>1, SMT DEF TEMP_MIN, TEMP_MAX, Bytes, Temperatures
<1>3. PICK p : p = Bytes24(Signed(t, h))
  OBVIOUS
<1>4. PICK q : q = p \o <<d>>
  OBVIOUS
<1>5. PICK data : data = <<flags>> \o q
  OBVIOUS
<1>6. Broadcast(<<flags>>, r) = data
  <2>1. (IF t < 0 THEN SignBit ELSE 0) + 1000 * (IF t < 0 THEN -t ELSE t) + h
          = Signed(t, h)
    <3>1. SignBit \in Int /\ h \in Int
      BY <1>1, SMT DEF SignBit, Humidities
    <3> QED
      BY <1>2, <3>1, SMT DEF Signed, Number, Tenths
  <2>2. PackedReading(r) = p \o <<d>>
    BY <1>0, <1>3, <2>1 DEF PackedReading
  <2> QED
    BY <1>4, <1>5, <2>2, Zenon DEF Broadcast
<1>7. /\ p \in Seq(Bytes) /\ Len(p) = 3
      /\ p[1] \in Bytes /\ p[2] \in Bytes /\ p[3] \in Bytes
      /\ Value(p[1], p[2], p[3]) = Signed(t, h)
  <2>1. Signed(t, h) \in 0..Max24
    <3>1. Unpacks(t, h)
      BY <1>1, Unpacked, Zenon
    <3> QED
      BY <3>1 DEF Unpacks
  <2>2. Bytes24(Signed(t, h)) = p
    BY <1>3
  <2> QED
    BY <2>1, <2>2, Packed24 DEF Value
<1>8. /\ q \in Seq(Bytes) /\ Len(q) = 4
      /\ q[1] = p[1] /\ q[2] = p[2] /\ q[3] = p[3] /\ q[4] = d
  <2>1. <<d>> \in Seq(Bytes) /\ Len(<<d>>) = 1 /\ <<d>>[1] = d
    BY <1>2
  <2> QED
    <3>1. Follows(q, p, <<d>>)
      BY <1>4, <1>7, <2>1, Joined, Zenon
    <3> QED
      BY <1>7, <2>1, <3>1 DEF Follows, Kept
<1>9. /\ Len(data) = 5
      /\ data[2] = p[1] /\ data[3] = p[2] /\ data[4] = p[3] /\ data[5] = d
  <2>1. <<flags>> \in Seq(Bytes) /\ Len(<<flags>>) = 1
    OBVIOUS
  <2> QED
    <3>1. Follows(data, <<flags>>, q)
      BY <1>5, <1>8, <2>1, Joined, Zenon
    <3> QED
      BY <1>8, <2>1, <3>1 DEF Follows
<1>10. Byte(data, 1) = p[1] /\ Byte(data, 4) = d
  BY <1>9 DEF Byte
<1>11. raw24(data, 1) = Signed(t, h) % SignBit
  <2>1. Byte(data, 1) = p[1] /\ Byte(data, 1 + 1) = p[2] /\ Byte(data, 1 + 1 + 1) = p[3]
    BY <1>9, SMT DEF Byte
  <2>2. be24(data, 1) = Value(p[1], p[2], p[3])
    BY <2>1, SMT DEF be24, be16, Value
  <2> QED
    BY <1>7, <2>2, Zenon DEF raw24
<1>12. /\ raw24(data, 1) \div 1000 = Tenths(t)
       /\ raw24(data, 1) % 1000 = h
       /\ p[1] # 127 /\ p[1] # 255 /\ (p[1] >= 128 <=> t < 0)
  <2>1. Unpacks(t, h)
    BY <1>1, Unpacked, Zenon
  <2> QED
    BY <1>7, <1>11, <2>1, SMT DEF Unpacks
<1>13. Passes(data, 1)
  <2>1. \E i \in 0..2 : Byte(data, 1 + i) # 255
    <3>1. Byte(data, 1 + 0) # 255
      BY <1>10, <1>12
    <3>2. 0 \in 0..2
      OBVIOUS
    <3> QED
      BY <3>1, <3>2, Zenon
  <2>2. IF Byte(data, 1) >= 128 THEN -(raw24(data, 1) \div 1000) >= TEMP_MIN
                                ELSE raw24(data, 1) \div 1000 <= TEMP_MAX
    BY <1>2, <1>10, <1>12, SMT DEF Tenths
  <2> QED
    BY <1>10, <1>12, <2>1, <2>2, ZenonT(40) DEF Passes
<1>14. DecodedAt(data, 1) = r
  <2>1. (IF Byte(data, 1) >= 128 THEN -(raw24(data, 1) \div 1000)
                                 ELSE raw24(data, 1) \div 1000) = t
    BY <1>2, <1>10, <1>12, SMT DEF Tenths
  <2>2. Byte(data, 1 + 3) = d
    BY <1>10
  <2> QED
    BY <1>1, <1>12, <2>1, <2>2, Zenon DEF DecodedAt
<1> QED
  BY <1>2, <1>6, <1>9, <1>10, <1>13, <1>14, FirstOffset, Zenon

\* A broadcast that says that the reading failed is never read as one, at no
\* offset, and neither is one without data.
LEMMA FailureDecoded ==
  ASSUME NEW flags, NEW battery
  PROVE  /\ parse_th_broadcast(FailedBroadcast(<<flags>>, battery)) = Nothing
         /\ parse_th_broadcast(<<>>) = Nothing
<1> DEFINE offsets == <<1, 3, 0, 2>>
           Hit(data, off) == /\ Len(data) >= off + 4
                             /\ Passes(data, off)
                             /\ Byte(data, off + 3) <= 100
           hits(data) == {i \in 1..4 : Hit(data, offsets[i])}
<1>1. \A data : parse_th_broadcast(data)
                  = IF hits(data) = {} THEN Nothing
                    ELSE DecodedAt(data, offsets[Min(hits(data))])
  BY DEF parse_th_broadcast
<1>2. \A i \in 1..4 : offsets[i] \in 0..3
  OBVIOUS
<1>3. hits(<<>>) = {}
  BY <1>2
<1>4. PICK data : data = FailedBroadcast(<<flags>>, battery)
  OBVIOUS
<1>5. /\ Len(data) = 5
      /\ Byte(data, 1) = 255 /\ Byte(data, 2) = 255 /\ Byte(data, 3) = 255
  BY <1>4 DEF FailedBroadcast, Byte
<1>6. \A off \in {1, 3, 0, 2} : ~Hit(data, off)
  <2>1. ~Hit(data, 1)
    BY <1>5 DEF Passes
  <2>2. ~Hit(data, 0)
    BY <1>5
  <2>3. ~Hit(data, 3) /\ ~Hit(data, 2)
    BY <1>5
  <2> QED
    BY <2>1, <2>2, <2>3
<1>7. \A i \in 1..4 : offsets[i] \in {1, 3, 0, 2}
  OBVIOUS
<1>8. hits(data) = {}
  BY <1>6, <1>7, ZenonT(40)
<1> QED
  BY <1>1, <1>3, <1>4, <1>8, Zenon

\* A frame s was continued by a number.
Word24 == 0..Max24
Word16 == 0..Max16
Field24(u, s, n) ==
  /\ u \in Seq(Bytes) /\ Len(u) = Len(s) + 3
  /\ Kept(u, s) /\ be24(u, Len(s)) = n
Field16(u, s, n) ==
  /\ u \in Seq(Bytes) /\ Len(u) = Len(s) + 2
  /\ Kept(u, s) /\ be16(u, Len(s)) = n

LEMMA With24 ==
  ASSUME NEW s \in Seq(Bytes), NEW n \in Word24, NEW u, u = s \o Bytes24(n)
  PROVE  Field24(u, s, n)
<1>1. PICK b : b = Bytes24(n)
  OBVIOUS
<1>2. u = s \o b
  BY <1>1
<1>3. /\ b \in Seq(Bytes) /\ Len(b) = 3
      /\ 65536 * b[1] + (256 * b[2] + b[3]) = n
  BY <1>1, Packed24 DEF Word24
<1>4. Follows(u, s, b)
  <2>1. b \in Seq(Bytes)
    BY <1>3
  <2> QED
    BY <1>2, <2>1, Joined, Zenon
<1>5. PICK k : k = Len(s)
  OBVIOUS
<1>6. k \in Nat
  BY <1>5, LenProperties
<1>7. u[k + 1] = b[1] /\ u[k + 2] = b[2] /\ u[k + 3] = b[3]
  BY <1>3, <1>4, <1>5 DEF Follows
<1>8. Byte(u, k) = b[1] /\ Byte(u, k + 1) = b[2] /\ Byte(u, k + 1 + 1) = b[3]
  <2>1. (k + 1) + 1 = k + 2 /\ (k + 2) + 1 = k + 3
    BY <1>6
  <2> QED
    BY <1>7, <2>1, Zenon DEF Byte
<1>9. be16(u, k + 1) = 256 * b[2] + b[3]
  BY <1>8, Zenon DEF be16
<1>10. be24(u, k) = n
  BY <1>3, <1>8, <1>9 DEF be24
<1> QED
  BY <1>3, <1>4, <1>5, <1>10 DEF Field24, Follows

LEMMA With16 ==
  ASSUME NEW s \in Seq(Bytes), NEW n \in Word16, NEW u, u = s \o Bytes16(n)
  PROVE  Field16(u, s, n)
<1>1. PICK b : b = Bytes16(n)
  OBVIOUS
<1>2. u = s \o b
  BY <1>1
<1>3. b \in Seq(Bytes) /\ Len(b) = 2 /\ 256 * b[1] + b[2] = n
  BY <1>1, Packed16 DEF Word16
<1>4. Follows(u, s, b)
  <2>1. b \in Seq(Bytes)
    BY <1>3
  <2> QED
    BY <1>2, <2>1, Joined, Zenon
<1>5. PICK k : k = Len(s)
  OBVIOUS
<1>6. k \in Nat
  BY <1>5, LenProperties
<1>7. u[k + 1] = b[1] /\ u[k + 2] = b[2]
  BY <1>3, <1>4, <1>5 DEF Follows
<1>8. Byte(u, k) = b[1] /\ Byte(u, k + 1) = b[2]
  <2>1. (k + 1) + 1 = k + 2 /\ (k + 2) + 1 = k + 3
    BY <1>6
  <2> QED
    BY <1>7, <2>1, Zenon DEF Byte
<1>9. be16(u, k) = n
  BY <1>3, <1>8, Zenon DEF be16
<1> QED
  BY <1>3, <1>4, <1>5, <1>9 DEF Field16, Follows

PowerReadings ==
  [time_on : Word24, energy : Word24, voltage : Word16, current : Word16,
   power : Word24, power_factor : Bytes]

Headers == {170, 238}

\* The power frame, answered or pushed, is read as the reading that it packs.
LEMMA PowerDecoded ==
  ASSUME NEW header \in Headers, NEW r \in PowerReadings
  PROVE  parse_power(PowerFrame(header, r)) = r
<1>1. PICK a : a = <<header, 25>>
  OBVIOUS
<1>2. PICK b : b = a \o Bytes24(r.time_on)
  OBVIOUS
<1>3. PICK c : c = b \o Bytes24(r.energy)
  OBVIOUS
<1>4. PICK d : d = c \o Bytes16(r.voltage)
  OBVIOUS
<1>5. PICK e : e = d \o Bytes16(r.current)
  OBVIOUS
<1>6. PICK f : f = e \o Bytes24(r.power)
  OBVIOUS
<1>7. PICK rest : rest = <<r.power_factor, 0, 0, 0, 0>>
  OBVIOUS
<1>8. PICK g : g = f \o rest
  OBVIOUS
<1>9. PowerFrame(header, r) = g
  BY <1>1, <1>2, <1>3, <1>4, <1>5, <1>6, <1>7, <1>8, Zenon DEF PowerFrame
<1>10. /\ r.time_on \in Word24 /\ r.energy \in Word24 /\ r.voltage \in Word16
       /\ r.current \in Word16 /\ r.power \in Word24 /\ r.power_factor \in Bytes
  BY DEF PowerReadings
<1>11. a \in Seq(Bytes)
  BY <1>1 DEF Bytes, Headers
<1>12. b \in Seq(Bytes) /\ Field24(b, a, r.time_on)
  <2>1. Field24(b, a, r.time_on)
    BY <1>2, <1>10, <1>11, With24, Zenon
  <2> QED
    BY <2>1 DEF Field24
<1>13. c \in Seq(Bytes) /\ Field24(c, b, r.energy)
  <2>1. Field24(c, b, r.energy)
    BY <1>3, <1>10, <1>12, With24, Zenon
  <2> QED
    BY <2>1 DEF Field24
<1>14. d \in Seq(Bytes) /\ Field16(d, c, r.voltage)
  <2>1. Field16(d, c, r.voltage)
    BY <1>4, <1>10, <1>13, With16, Zenon
  <2> QED
    BY <2>1 DEF Field16
<1>15. e \in Seq(Bytes) /\ Field16(e, d, r.current)
  <2>1. Field16(e, d, r.current)
    BY <1>5, <1>10, <1>14, With16, Zenon
  <2> QED
    BY <2>1 DEF Field16
<1>16. f \in Seq(Bytes) /\ Field24(f, e, r.power)
  <2>1. Field24(f, e, r.power)
    BY <1>6, <1>10, <1>15, With24, Zenon
  <2> QED
    BY <2>1 DEF Field24
<1>17. Len(a) = 2 /\ a[1] = header /\ a[2] = 25
  BY <1>1
<1>18. Len(b) = 5
  BY <1>12, <1>17 DEF Field24
<1>19. Len(c) = 8
  BY <1>13, <1>18 DEF Field24
<1>20. Len(d) = 10
  BY <1>14, <1>19 DEF Field16
<1>21. Len(e) = 12 /\ Len(f) = 15
  BY <1>15, <1>16, <1>20 DEF Field16, Field24
<1>22. Kept(g, f) /\ Len(g) = 20 /\ Byte(g, 15) = r.power_factor
  <2>1. rest \in Seq(Bytes) /\ Len(rest) = 5 /\ rest[1] = r.power_factor
    BY <1>7, <1>10 DEF Bytes
  <2>2. Follows(g, f, rest)
    <3>1. rest \in Seq(Bytes) /\ f \in Seq(Bytes)
      BY <1>16, <2>1
    <3> QED
      BY <1>8, <3>1, Joined, Zenon
  <2> QED
    BY <1>21, <2>1, <2>2 DEF Follows, Byte
\* Each byte and each field stays where it was put.
<1>23. Kept(g, e)
  BY <1>16, <1>21, <1>22 DEF Field24, Kept
<1>24. Kept(g, d)
  BY <1>15, <1>20, <1>21, <1>23 DEF Field16, Kept
<1>25. Kept(g, c)
  BY <1>14, <1>19, <1>20, <1>24 DEF Field16, Kept
<1>26. Kept(g, b)
  BY <1>13, <1>18, <1>19, <1>25 DEF Field24, Kept
<1>27. g[1] = header /\ g[2] = 25
  BY <1>12, <1>17, <1>18, <1>26 DEF Field24, Kept
<1>28. be24(g, 2) = r.time_on
  BY <1>12, <1>17, <1>18, <1>26 DEF Field24, Kept, be24, be16, Byte
<1>29. be24(g, 5) = r.energy
  BY <1>13, <1>18, <1>19, <1>25 DEF Field24, Kept, be24, be16, Byte
<1>30. be16(g, 8) = r.voltage
  BY <1>14, <1>19, <1>20, <1>24 DEF Field16, Kept, be16, Byte
<1>31. be16(g, 10) = r.current
  BY <1>15, <1>20, <1>21, <1>23 DEF Field16, Kept, be16, Byte
<1>32. be24(g, 12) = r.power
  BY <1>16, <1>21, <1>22 DEF Field24, Kept, be24, be16, Byte
<1>33. ~(Len(g) < 16) /\ Byte(g, 0) \in {170, 238} /\ Byte(g, 1) = 25
  BY <1>22, <1>27 DEF Byte, Headers
<1>34. parse_power(g)
         = [time_on |-> be24(g, 2), energy |-> be24(g, 5),
            voltage |-> be16(g, 8), current |-> be16(g, 10),
            power |-> be24(g, 12), power_factor |-> Byte(g, 15)]
  BY <1>33, Zenon DEF parse_power
<1>35. r = [time_on |-> r.time_on, energy |-> r.energy, voltage |-> r.voltage,
            current |-> r.current, power |-> r.power,
            power_factor |-> r.power_factor]
  BY Zenon DEF PowerReadings
<1> QED
  BY <1>9, <1>22, <1>28, <1>29, <1>30, <1>31, <1>32, <1>34, <1>35, Zenon

\* What is on its way says nothing, or what the device has taken; and the readings
\* of an H5086 fit into its frames.
Genuine ==
  /\ model = "H5086" => taken \subseteq Loads
  /\ \A data \in air :
       parse_th_broadcast(data) = Nothing \/ parse_th_broadcast(data) \in taken
  /\ ShownWasMeasured

LEMMA ReadingsFit ==
  /\ \A lead \in Leads : \E flags \in Bytes : lead = <<flags>>
  /\ Climates \subseteq
       [temperature : Temperatures, humidity : Humidities, battery : 0..100]
  /\ Loads \subseteq PowerReadings
<1>1. \A lead \in Leads : \E flags \in Bytes : lead = <<flags>>
  <2>1. Leads \subseteq {<<flags>> : flags \in Bytes}
    BY ReadingsAssumption, Zenon
  <2> QED
    BY <2>1
<1>2. Climates \subseteq
        [temperature : Temperatures, humidity : Humidities, battery : 0..100]
  BY ReadingsAssumption, Zenon DEF Temperatures, Humidities
<1>3. Loads \subseteq PowerReadings
  BY ReadingsAssumption, Zenon DEF PowerReadings, Word24, Word16
<1> QED
  BY <1>1, <1>2, <1>3, Zenon

LEMMA MeasureKeeps == ASSUME Genuine, Measure PROVE Genuine'
<1>1. UNCHANGED <<model, values>>
  BY DEF Measure
<1>2. PICK r : taken' = taken \cup {r} /\ (model = "H5086" => r \in Loads)
  BY DEF Measure
<1>3. ASSUME NEW data \in air'
      PROVE  parse_th_broadcast(data) = Nothing \/ parse_th_broadcast(data) \in taken'
  <2>1. CASE data \in air
    BY <1>2, <2>1 DEF Genuine
  <2>2. CASE data \notin air
    <3>1. PICK climate \in Climates, lead \in Leads :
            taken' = taken \cup {climate} /\ data = Broadcast(lead, climate)
      BY <1>3, <2>2 DEF Measure
    <3>2. PICK flags \in Bytes : lead = <<flags>>
      BY <3>1, ReadingsFit, Zenon
    <3>3. climate \in [temperature : Temperatures, humidity : Humidities,
                       battery : 0..100]
      BY <3>1, ReadingsFit, Zenon
    <3>4. parse_th_broadcast(Broadcast(<<flags>>, climate)) = climate
      BY <3>3, BroadcastDecoded, Zenon
    <3> QED
      BY <3>1, <3>2, <3>4, Zenon
  <2> QED
    BY <2>1, <2>2
<1> QED
  BY <1>1, <1>2, <1>3, Zenon DEF Genuine, ShownWasMeasured

LEMMA GenuineStep == Genuine /\ [Next]_vars => Genuine'
<1> SUFFICES ASSUME Genuine, [Next]_vars PROVE Genuine'
  OBVIOUS
<1>1. CASE Measure
  BY <1>1, MeasureKeeps
<1>2. CASE MeasureFails
  <2>1. UNCHANGED <<model, values, taken>>
    BY <1>2 DEF MeasureFails
  <2>2. PICK lead \in Leads, battery \in {0, 100} :
          air' = {FailedBroadcast(lead, battery)}
    BY <1>2 DEF MeasureFails
  <2>3. PICK flags \in Bytes : lead = <<flags>>
    BY <2>2, ReadingsFit, Zenon
  <2>4. parse_th_broadcast(FailedBroadcast(<<flags>>, battery)) = Nothing
    BY FailureDecoded, Zenon
  <2>5. \A data \in air' : parse_th_broadcast(data) = Nothing
    BY <2>2, <2>3, <2>4, Zenon
  <2> QED
    BY <2>1, <2>5, Zenon DEF Genuine, ShownWasMeasured
<1>3. CASE HearBroadcast
  <2>1. UNCHANGED <<model, air, taken>>
    BY <1>3 DEF HearBroadcast
  <2>2. PICK data \in air \cup {<<>>} :
          values' = values \/ values' = Heard(data)
    BY <1>3 DEF HearBroadcast
  <2>3. parse_th_broadcast(data) = Nothing \/ parse_th_broadcast(data) \in taken
    BY <2>2, FailureDecoded, Zenon DEF Genuine
  <2>4. Heard(data) = values \/ Heard(data) \in taken
    BY <2>3, Zenon DEF Heard
  <2> QED
    BY <2>1, <2>2, <2>4, Zenon DEF Genuine, ShownWasMeasured
<1>4. CASE PollPower
  <2>1. UNCHANGED <<model, air, taken>> /\ model = "H5086"
    BY <1>4 DEF PollPower
  <2>2. PICK r \in taken, header \in {170, 238} :
          values' = parse_power(PowerFrame(header, r))
    BY <1>4 DEF PollPower
  <2>3. r \in PowerReadings
    BY <2>1, <2>2, ReadingsFit, Zenon DEF Genuine
  <2>4. header \in Headers
    BY DEF Headers
  <2>5. values' = r
    <3> HIDE DEF Headers
    <3>1. parse_power(PowerFrame(header, r)) = r
      BY <2>3, <2>4, PowerDecoded
    <3> QED
      BY <2>2, <3>1
  <2> QED
    BY <2>1, <2>2, <2>5, Zenon DEF Genuine, ShownWasMeasured
<1>5. CASE UnloadEntry \/ Restart \/ Crash
  <2>1. UNCHANGED <<model, air, taken>> /\ values' = Nothing
    BY <1>5 DEF UnloadEntry, Restart, Crash, Gone
  <2> QED
    BY <2>1, Zenon DEF Genuine, ShownWasMeasured
<1>6. CASE SetupEntry \/ SaveEntry \/ SaveRegistry \/ Toggle \/ UNCHANGED vars
  <2>1. UNCHANGED <<model, air, taken, values>>
    BY <1>6 DEF SetupEntry, SaveEntry, SaveRegistry, Toggle, vars, readingVars
  <2> QED
    BY <2>1, Zenon DEF Genuine, ShownWasMeasured
<1> QED
  BY <1>1, <1>2, <1>3, <1>4, <1>5, <1>6 DEF Next

\* The sensor entities only show readings that the device took together, whichever
\* broadcasts were lost, repeated, reordered or marked as failed: for any
\* temperature, humidity and battery that the decoder is for, and any power frame.
THEOREM ShownWasTaken == Spec => []ShownWasMeasured
<1>1. Init => Genuine
  BY DEF Init, Genuine, ShownWasMeasured
<1>2. Genuine => ShownWasMeasured
  BY DEF Genuine
<1> QED
  BY <1>1, <1>2, GenuineStep, PTL DEF Spec
===============================================================================
