---------------------------- MODULE ConfigEntries ----------------------------
(***************************************************************************)
(* How a device gets a config entry: the migration of entries of the old   *)
(* domain (async_setup of __init__.py and the import step), the user and   *)
(* bluetooth flows (config_flow.py) and the pairing of plugs               *)
(* (GoveePlugPairer), across restarts and crashes of Home Assistant.       *)
(*                                                                         *)
(* Home Assistant (external): it keeps the entries and saves them now and  *)
(* then, refuses a second flow for a unique ID in progress, adds the entry *)
(* a step returns before anything else runs, ends all other flows for that *)
(* device, and lets a removed flow's coroutine run on without a result.    *)
(***************************************************************************)
EXTENDS Naturals

CONSTANTS
  Plugs,       \* addresses of plugs, which must be paired
  H6163s,      \* addresses of devices whose link step pairs with nothing
  Lights,      \* addresses of devices that need no pairing
  Others,      \* addresses of devices the registry does not know
  OldEntries,  \* entries of the old domain
  OldAddress,  \* their addresses
  Flows,       \* bound: flows open at the same time
  MaxCrashes,  \* bound: how often Home Assistant crashes
  OldToken,    \* the token an entry of the old domain holds
  None         \* no address, no token

Supported == Plugs \cup H6163s \cup Lights
Devices == Supported \cup Others

ASSUME DevicesAssumption ==
  /\ Plugs \cap Lights = {} /\ H6163s \cap (Plugs \cup Lights) = {}
  /\ Supported \cap Others = {}
  /\ None \notin Devices /\ OldToken \notin Devices \cup {None}
ASSUME OldAssumption == OldAddress \in [OldEntries -> Supported]
ASSUME CrashesAssumption == MaxCrashes \in Nat

VARIABLES
  entries,   \* entries of the domain, each with its token: that of a
             \* device, an old one or none
  old,       \* entries of the old domain that are still there
  saved,     \* what is on the disk of both
  crashes,
  setup,     \* async_setup has run since the start
  imports,   \* old entries whose import flow is scheduled
  removals,  \* old entries whose removal is scheduled
  flows      \* the flows, each a record as NoFlow

storeVars == <<entries, old>>
diskVars == <<saved, crashes>>
taskVars == <<setup, imports, removals>>
vars == <<storeVars, diskVars, taskVars, flows>>

\* A flow: the form it shows ("gone": it was removed while a step was running),
\* what its step is doing, its unique ID, self._discovered_advs,
\* self._ble_device, and what became of the token of self._api ("raised": the
\* last link step ended with an error instead of a form).
NoFlow == [form |-> "none", step |-> "idle", uid |-> None, choices |-> {},
           device |-> None, pairing |-> "none"]

Tokens == Devices \cup {OldToken, None}
Entries == UNION {[D -> Tokens] : D \in SUBSET Supported}

TypeOK ==
  /\ entries \in Entries
  /\ old \subseteq OldEntries
  /\ saved \in [entries : Entries, old : SUBSET OldEntries]
  /\ crashes \in 0..MaxCrashes
  /\ setup \in BOOLEAN
  /\ imports \subseteq OldEntries
  /\ removals \subseteq OldEntries
  /\ flows \in [Flows -> [form : {"none", "user", "link", "gone"},
                          step : {"idle", "beginning", "finishing"},
                          uid : Supported \cup {None},
                          choices : SUBSET Supported,
                          device : Devices \cup {None},
                          pairing : {"none", "raised", "asking", "token",
                                     "failed"}]]
  /\ \A f \in Flows : flows[f].form = "gone" => flows[f].step # "idle"

Init ==
  /\ entries = << >>
  /\ old = OldEntries
  /\ saved = [entries |-> entries, old |-> old]
  /\ crashes = 0
  /\ setup = FALSE
  /\ imports = {}
  /\ removals = {}
  /\ flows = [f \in Flows |-> NoFlow]

----------------------------------------------------------------------------
(* Home Assistant.                                                         *)

Save ==
  /\ saved' = [entries |-> entries, old |-> old]
  /\ UNCHANGED <<storeVars, crashes, taskVars, flows>>

Restarted ==
  /\ setup' = FALSE
  /\ imports' = {}
  /\ removals' = {}
  /\ flows' = [f \in Flows |-> NoFlow]

\* A restart saves before it stops, wherever the tasks and flows are.
Restart ==
  /\ Restarted
  /\ saved' = [entries |-> entries, old |-> old]
  /\ UNCHANGED <<storeVars, crashes>>

Crash ==
  /\ crashes < MaxCrashes
  /\ crashes' = crashes + 1
  /\ Restarted
  /\ entries' = saved.entries
  /\ old' = saved.old
  /\ UNCHANGED saved

FlowsFor(a) ==
  {f \in Flows : flows[f].form \in {"user", "link"} /\ flows[f].uid = a}
InProgress(a) == FlowsFor(a) # {}

\* The flows F end; one whose step is still running stays until that returns.
\* (Nothing reads its choices any more, nor those of a flow that went on to
\* pair, so both are dropped.)
Ended(F) ==
  [f \in Flows |-> IF f \notin F THEN flows[f]
                  ELSE IF flows[f].step = "idle" THEN NoFlow
                  ELSE [flows[f] EXCEPT !.form = "gone", !.choices = {}]]

\* The entry is added, and the flows for its device end.
AddEntry(a, token) ==
  entries' = [x \in DOMAIN entries \cup {a} |-> IF x = a THEN token
                                                ELSE entries[x]]

\* The user closes a form, or Home Assistant removes a stale discovery.
Abandon(f) ==
  /\ flows[f].form \in {"user", "link"}
  /\ flows' = Ended({f})
  /\ UNCHANGED <<storeVars, diskVars, taskVars>>

----------------------------------------------------------------------------
(* Migration.                                                              *)

\* Mutant of AsyncSetup: the entries are removed once their import is scheduled.
AsyncSetupRemovesAll ==
  /\ ~setup
  /\ setup' = TRUE
  /\ removals' = old
  /\ imports' = {o \in old : OldAddress[o] \notin DOMAIN entries}
  /\ UNCHANGED <<storeVars, diskVars, flows>>

\* Mutant of AsyncSetup: what is migrated is left alone.
AsyncSetupKeeps ==
  /\ ~setup
  /\ setup' = TRUE
  /\ imports' = {o \in old : OldAddress[o] \notin DOMAIN entries}
  /\ UNCHANGED <<storeVars, diskVars, removals, flows>>

\* async_setup: what is migrated is removed, the rest is imported.
AsyncSetup ==
  /\ ~setup
  /\ setup' = TRUE
  /\ removals' = {o \in old : OldAddress[o] \in DOMAIN entries}
  /\ imports' = old \ removals'
  /\ UNCHANGED <<storeVars, diskVars, flows>>

\* Mutant of Import: an entry made since async_setup looked is overwritten.
ImportUnchecked(o) ==
  /\ o \in imports
  /\ imports' = imports \ {o}
  /\ ~InProgress(OldAddress[o])
  /\ AddEntry(OldAddress[o], OldToken)
  /\ removals' = removals \cup {o}
  /\ UNCHANGED <<old, diskVars, setup, flows>>

\* async_step_import: aborts if another flow or an entry has the device, and
\* schedules the removal of the old entry once it created the new one.
Import(o) ==
  /\ o \in imports
  /\ imports' = imports \ {o}
  /\ IF InProgress(OldAddress[o]) \/ OldAddress[o] \in DOMAIN entries
     THEN UNCHANGED <<entries, removals>>
     ELSE /\ AddEntry(OldAddress[o], OldToken)
          /\ removals' = removals \cup {o}
  /\ UNCHANGED <<old, diskVars, setup, flows>>

RemoveOld(o) ==
  /\ o \in removals
  /\ removals' = removals \ {o}
  /\ old' = old \ {o}
  /\ UNCHANGED <<entries, diskVars, setup, imports, flows>>

----------------------------------------------------------------------------
(* Flows.                                                                  *)

\* async_step_user, first visit: every device the scanner knows is looked at,
\* in any order, and self._ble_device is left at the last one.
StartUser(f) ==
  /\ flows[f].form = "none"
  /\ \E seen \in SUBSET Devices, last \in Devices :
       LET fresh == (seen \cap Supported) \ DOMAIN entries
       IN  /\ last \in seen
           /\ fresh # {}
           /\ flows' = [flows EXCEPT ![f] =
                          [NoFlow EXCEPT !.form = "user",
                                         !.choices = fresh,
                                         !.device = last]]
  /\ UNCHANGED <<storeVars, diskVars, taskVars>>

\* async_step_bluetooth for an advertisement of a supported device.
StartBluetooth(f) ==
  /\ flows[f].form = "none"
  /\ \E d \in Supported \ DOMAIN entries :
       /\ ~InProgress(d)
       /\ flows' = [flows EXCEPT ![f] =
                      [NoFlow EXCEPT !.form = "user", !.uid = d,
                                     !.choices = {d}, !.device = d]]
  /\ UNCHANGED <<storeVars, diskVars, taskVars>>

Offered(f, a) ==
  flows[f].form = "user" /\ flows[f].step = "idle" /\ a \in flows[f].choices

\* async_step_user with the selected device: configured by now ...
SelectConfigured(f, a) ==
  /\ Offered(f, a)
  /\ a \in DOMAIN entries
  /\ flows' = Ended({f})
  /\ UNCHANGED <<storeVars, diskVars, taskVars>>

\* ... a light, whose entry is made at once ...
SelectLight(f, a) ==
  /\ Offered(f, a)
  /\ a \in Lights \ DOMAIN entries
  /\ AddEntry(a, None)
  /\ flows' = Ended({f} \cup FlowsFor(a))
  /\ UNCHANGED <<old, diskVars, taskVars>>

\* ... or a plug: async_step_link begins to pair with self._ble_device.
SelectPlug(f, a) ==
  /\ Offered(f, a)
  /\ a \in Plugs \ DOMAIN entries
  /\ flows' = [flows EXCEPT ![f].uid = a, ![f].step = "beginning"]
  /\ UNCHANGED <<storeVars, diskVars, taskVars>>

\* ... or an H6163: its pairer cannot be made, for its class has none of the
\* MSG_GET_AUTH_KEY that _h6163_pair passes on.  The form stays.
SelectH6163(f, a) ==
  /\ Offered(f, a)
  /\ a \in H6163s \ DOMAIN entries
  /\ flows' = [flows EXCEPT ![f].uid = a, ![f].pairing = "raised"]
  /\ UNCHANGED <<storeVars, diskVars, taskVars>>

\* Mutant of Returned: a flow that is gone is taken for one that is not.
ReturnedAnyway(f, result) ==
  flows' = [flows EXCEPT ![f] = [result EXCEPT !.form = flows[f].form]]

\* A step of flow f comes back; if the flow is gone, to no avail.
Returned(f, result) ==
  flows' = [flows EXCEPT ![f] = IF @.form = "gone" THEN NoFlow ELSE result]

\* begin() connected and opened a session, encrypted or not, and left a task
\* that asks for the token.
Begun(f) ==
  /\ flows[f].step = "beginning"
  /\ Returned(f, [flows[f] EXCEPT !.step = "idle", !.form = "link",
                                  !.choices = {}, !.pairing = "asking"])
  /\ UNCHANGED <<storeVars, diskVars, taskVars>>

\* begin() raised: the form with the devices stays.
BeginRaises(f) ==
  /\ flows[f].step = "beginning"
  /\ Returned(f, [flows[f] EXCEPT !.step = "idle", !.pairing = "raised"])
  /\ UNCHANGED <<storeVars, diskVars, taskVars>>

\* _fetch_token: the plug released its token, after a press of its button ...
GotToken(f) ==
  /\ flows[f].pairing = "asking"
  /\ flows[f].device \in Plugs
  /\ flows' = [flows EXCEPT ![f].pairing = "token"]
  /\ UNCHANGED <<storeVars, diskVars, taskVars>>

\* Mutant of NoToken: an error of the connection leaves the future pending.
NoTokenRaises(f) ==
  /\ flows[f].pairing = "asking"
  /\ flows' = [flows EXCEPT ![f].pairing = "none"]
  /\ UNCHANGED <<storeVars, diskVars, taskVars>>

\* ... or not in all the attempts, or the connection was lost.
NoToken(f) ==
  /\ flows[f].pairing = "asking"
  /\ flows' = [flows EXCEPT ![f].pairing = "failed"]
  /\ UNCHANGED <<storeVars, diskVars, taskVars>>

\* async_step_link, submitted: finish() awaits the result.
Submit(f) ==
  /\ flows[f].form = "link"
  /\ flows[f].step = "idle"
  /\ flows' = [flows EXCEPT ![f].step = "finishing"]
  /\ UNCHANGED <<storeVars, diskVars, taskVars>>

\* finish() returned no token: the same form again, with an error.
FinishFailed(f) ==
  /\ flows[f].step = "finishing"
  /\ flows[f].pairing = "failed"
  /\ Returned(f, [flows[f] EXCEPT !.step = "idle"])
  /\ UNCHANGED <<storeVars, diskVars, taskVars>>

\* finish() returned a token: an entry for the selected device, with the token
\* of the device that was asked.
FinishPaired(f) ==
  /\ flows[f].step = "finishing"
  /\ flows[f].pairing = "token"
  /\ IF flows[f].form = "gone"
     THEN flows' = [flows EXCEPT ![f] = NoFlow] /\ UNCHANGED entries
     ELSE /\ AddEntry(flows[f].uid, flows[f].device)
          /\ flows' = [Ended(FlowsFor(flows[f].uid)) EXCEPT ![f] = NoFlow]
  /\ UNCHANGED <<old, diskVars, taskVars>>

----------------------------------------------------------------------------
Next ==
  \/ Save \/ Restart \/ Crash
  \/ AsyncSetup
  \/ \E o \in OldEntries : Import(o) \/ RemoveOld(o)
  \/ \E f \in Flows :
       \/ StartUser(f) \/ StartBluetooth(f) \/ Abandon(f)
       \/ \E a \in Supported :
            \/ SelectConfigured(f, a) \/ SelectLight(f, a)
            \/ SelectPlug(f, a) \/ SelectH6163(f, a)
       \/ Begun(f) \/ BeginRaises(f)
       \/ Submit(f) \/ GotToken(f) \/ NoToken(f)
       \/ FinishFailed(f) \/ FinishPaired(f)

\* Home Assistant sets the domain up, and of endlessly many starts some last
\* until the scheduled tasks have run.
Spec ==
  /\ Init /\ [][Next]_vars
  /\ WF_vars(AsyncSetup)
  /\ \A o \in OldEntries : SF_vars(Import(o)) /\ SF_vars(RemoveOld(o))

----------------------------------------------------------------------------
(* Properties.                                                             *)

\* No device is lost on its way from the old domain: at every moment, and on
\* the disk whenever Home Assistant may crash, it has its old entry or a new
\* one, whatever flows are open for it and however often it restarts.
MigratedNotLost ==
  \A o \in OldEntries :
    /\ o \in old \/ OldAddress[o] \in DOMAIN entries
    /\ o \in saved.old \/ OldAddress[o] \in DOMAIN saved.entries

\* An entry is never overwritten, by an import that was scheduled before it
\* was made or by a flow that passed its check before that: the token a plug
\* gave last is not replaced by an older one.
NeverReplaced ==
  [][crashes' = crashes => \A a \in DOMAIN entries :
                             a \in DOMAIN entries' /\ entries'[a] = entries[a]]_vars

\* The migration comes to an end: if Home Assistant is restarted again and
\* again while no flow is open, the old entries are gone, those for the same
\* address included.
MigrationEnds ==
  []<>~setup /\ <>[](\A f \in Flows : flows[f].form = "none") => <>[](old = {})

\* A submitted form is answered, although finish() has no timeout of its own:
\* the result is there or the task that will set it is running, also after a
\* failed attempt, an error of the connection or an end of the flow.
SubmitsAreAnswered ==
  \A f \in Flows : flows[f].step = "finishing" => flows[f].pairing # "none"

\* async_step_user, "Resolve the discovery for the selected address": the device
\* that is asked for its token is the one the user selected.
PairsSelected ==
  \A f \in Flows : flows[f].pairing \notin {"none", "raised"}
                    => flows[f].device = flows[f].uid

\* lights.py:49, "keeps the existing (no-op) link step": it cannot fail.
NoOpLinkSucceeds ==
  \A f \in Flows : flows[f].pairing = "raised" => flows[f].uid \notin H6163s
==============================================================================
