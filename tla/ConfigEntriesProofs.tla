------------------------- MODULE ConfigEntriesProofs -------------------------
(***************************************************************************)
(* For any number of devices, old entries and flows and any number of      *)
(* crashes: no device is lost during the migration and no entry is ever    *)
(* overwritten.                                                            *)
(***************************************************************************)
EXTENDS ConfigEntries, TLAPS

FlowRecord == [form : {"none", "user", "link", "gone"},
               step : {"idle", "beginning", "finishing"},
               uid : Supported \cup {None},
               choices : SUBSET Supported,
               device : Devices \cup {None},
               pairing : {"none", "raised", "asking", "token", "failed"}]

FlowsOK == flows \in [Flows -> FlowRecord]

\* A scheduled removal is that of an entry that has been migrated.
RemovalsMigrated == \A o \in removals : OldAddress[o] \in DOMAIN entries

\* A flow that may come back with an entry: it passed its check for one, and
\* every entry that is made since then ends it.
Claims(flow) ==
  \/ flow.form = "link"
  \/ flow.form = "user" /\ flow.step = "beginning"

ClaimsAreFree ==
  \A f \in Flows : Claims(flows[f]) => flows[f].uid \in Plugs \ DOMAIN entries

\* What a flow's step is doing, the form it shows and its pairing fit.
Fits(flow) ==
  /\ flow.step = "beginning" => flow.form \in {"user", "gone"}
  /\ flow.step = "finishing" => flow.form \in {"link", "gone"}
  /\ flow.form = "gone" => flow.step # "idle"
  /\ flow.step = "finishing" \/ flow.form = "link"
       => flow.pairing \in {"asking", "token", "failed"}

StepsFitForms == \A f \in Flows : Fits(flows[f])

TasksOK ==
  /\ old \subseteq OldEntries
  /\ saved.old \subseteq OldEntries
  /\ removals \subseteq OldEntries
  /\ imports \subseteq OldEntries

IndInv ==
  /\ TasksOK
  /\ MigratedNotLost
  /\ RemovalsMigrated
  /\ FlowsOK
  /\ ClaimsAreFree
  /\ StepsFitForms

----------------------------------------------------------------------------
(* Lemmas about single flows.                                              *)

\* A flow that has nothing to come back with.
Quiet(flow) ==
  /\ ~Claims(flow)
  /\ Fits(flow)

LEMMA NoFlowIsQuiet == NoFlow \in FlowRecord /\ Quiet(NoFlow)
BY DEF NoFlow, FlowRecord, Quiet, Claims, Fits

\* Ended leaves a flow alone or quiet.
LEMMA EndedFlow ==
  ASSUME FlowsOK, StepsFitForms, NEW F, NEW f \in Flows
  PROVE  /\ Ended(F)[f] \in FlowRecord
         /\ f \notin F => Ended(F)[f] = flows[f]
         /\ f \in F => Quiet(Ended(F)[f])
<1>1. flows[f] \in FlowRecord
  BY DEF FlowsOK
<1>2. CASE f \notin F
  BY <1>1, <1>2 DEF Ended
<1>3. CASE f \in F /\ flows[f].step = "idle"
  <2>1. Ended(F)[f] = NoFlow
    BY <1>3 DEF Ended
  <2> QED
    BY <1>3, <2>1, NoFlowIsQuiet
<1>4. CASE f \in F /\ flows[f].step # "idle"
  <2> DEFINE gone == [flows[f] EXCEPT !.form = "gone", !.choices = {}]
  <2>1. Ended(F)[f] = gone
    BY <1>4 DEF Ended
  <2>2. /\ gone \in FlowRecord /\ gone.form = "gone"
        /\ gone.step = flows[f].step /\ gone.pairing = flows[f].pairing
    BY <1>1 DEF FlowRecord
  <2>3. Fits(flows[f])
    BY DEF StepsFitForms
  <2> HIDE DEF gone
  <2> QED
    BY <1>4, <2>1, <2>2, <2>3 DEF Quiet, Claims, Fits
<1> QED
  BY <1>2, <1>3, <1>4

LEMMA EndedTyped ==
  ASSUME FlowsOK, StepsFitForms, NEW F
  PROVE  Ended(F) \in [Flows -> FlowRecord]
<1>1. \A f \in Flows : Ended(F)[f] \in FlowRecord
  BY EndedFlow
<1>2. Ended(F) = [f \in Flows |-> Ended(F)[f]]
  BY DEF Ended
<1> QED
  BY <1>1, <1>2

\* The entries made in a step, those in A, must not be claimed by a flow that
\* goes on.
LEMMA FlowsKept ==
  ASSUME IndInv, NEW A, DOMAIN entries' = DOMAIN entries \cup A,
         flows' \in [Flows -> FlowRecord],
         \A f \in Flows :
           \/ Quiet(flows'[f])
           \/ /\ flows'[f] = flows[f]
              /\ Claims(flows[f]) => flows[f].uid \notin A
  PROVE  FlowsOK' /\ ClaimsAreFree' /\ StepsFitForms'
<1>1. FlowsOK'
  BY DEF FlowsOK
<1>2. ASSUME NEW f \in Flows
      PROVE  /\ Claims(flows'[f]) => flows'[f].uid \in Plugs \ DOMAIN entries'
             /\ Fits(flows'[f])
  <2>1. CASE Quiet(flows'[f])
    BY <2>1 DEF Quiet
  <2>2. CASE flows'[f] = flows[f] /\ (Claims(flows[f]) => flows[f].uid \notin A)
    BY <2>2 DEF IndInv, ClaimsAreFree, StepsFitForms
  <2> QED
    BY <2>1, <2>2
<1> QED
  BY <1>1, <1>2 DEF ClaimsAreFree, StepsFitForms

\* A step that changes one flow and no entry keeps the invariant, if it does so
\* for that flow.
LEMMA OneFlowStep ==
  ASSUME IndInv, NEW f \in Flows, NEW new \in FlowRecord,
         flows' = [flows EXCEPT ![f] = new],
         UNCHANGED <<storeVars, diskVars, taskVars>>,
         Claims(new) => new.uid \in Plugs \ DOMAIN entries,
         Fits(new)
  PROVE  IndInv'
<1>1. UNCHANGED <<entries, old, saved, removals, imports>>
  BY DEF storeVars, diskVars, taskVars
<1>2. FlowsOK'
  BY DEF IndInv, FlowsOK
<1>3. \A g \in Flows : flows'[g] = IF g = f THEN new ELSE flows[g]
  BY DEF IndInv, FlowsOK
<1>4. ClaimsAreFree'
  BY <1>1, <1>3 DEF IndInv, ClaimsAreFree, Claims
<1>5. StepsFitForms'
  BY <1>3 DEF IndInv, StepsFitForms
<1>6. MigratedNotLost' /\ RemovalsMigrated' /\ TasksOK'
  BY <1>1 DEF IndInv, MigratedNotLost, RemovalsMigrated, TasksOK
<1> QED
  BY <1>2, <1>4, <1>5, <1>6 DEF IndInv

\* Ending flows claims nothing new.
LEMMA EndingStep ==
  ASSUME IndInv, NEW F, flows' = Ended(F),
         UNCHANGED <<storeVars, diskVars, taskVars>>
  PROVE  IndInv'
<1>1. UNCHANGED <<entries, old, saved, removals, imports>>
  BY DEF storeVars, diskVars, taskVars
<1>2. flows' \in [Flows -> FlowRecord]
  BY EndedTyped DEF IndInv
<1>3. \A f \in Flows : Quiet(flows'[f]) \/ flows'[f] = flows[f]
  BY EndedFlow DEF IndInv
<1>4. PICK A : A = {}
  OBVIOUS
<1>5. FlowsOK' /\ ClaimsAreFree' /\ StepsFitForms'
  <2>1. DOMAIN entries' = DOMAIN entries \cup A
    BY <1>1, <1>4
  <2>2. \A f \in Flows :
          \/ Quiet(flows'[f])
          \/ flows'[f] = flows[f] /\ (Claims(flows[f]) => flows[f].uid \notin A)
    BY <1>3, <1>4
  <2> QED
    BY <1>2, <2>1, <2>2, FlowsKept
<1>6. MigratedNotLost' /\ RemovalsMigrated' /\ TasksOK'
  BY <1>1 DEF IndInv, MigratedNotLost, RemovalsMigrated, TasksOK
<1> QED
  BY <1>5, <1>6 DEF IndInv

\* Making an entry keeps the invariant, if it ends every flow that claims it.
LEMMA EntryStep ==
  ASSUME IndInv, NEW a, NEW token, AddEntry(a, token),
         flows' \in [Flows -> FlowRecord],
         \A f \in Flows : \/ Quiet(flows'[f])
                          \/ flows'[f] = flows[f] /\ f \notin FlowsFor(a),
         UNCHANGED <<old, saved>>,
         removals' \subseteq OldEntries, imports' \subseteq OldEntries,
         \A o \in removals' : o \in removals \/ OldAddress[o] = a
  PROVE  IndInv'
<1>1. DOMAIN entries' = DOMAIN entries \cup {a}
  BY DEF AddEntry
<1>2. \A f \in Flows : f \notin FlowsFor(a) /\ Claims(flows[f])
                         => flows[f].uid \notin {a}
  BY DEF FlowsFor, Claims
<1>3. FlowsOK' /\ ClaimsAreFree' /\ StepsFitForms'
  BY <1>1, <1>2, FlowsKept
<1>4. MigratedNotLost' /\ RemovalsMigrated' /\ TasksOK'
  BY <1>1 DEF IndInv, MigratedNotLost, RemovalsMigrated, TasksOK
<1> QED
  BY <1>3, <1>4 DEF IndInv

\* A restart or a crash leaves no flow and no task.
LEMMA FreshStart ==
  ASSUME Restarted
  PROVE  /\ FlowsOK' /\ ClaimsAreFree' /\ StepsFitForms'
         /\ RemovalsMigrated'
         /\ removals' = {} /\ imports' = {}
<1>1. \A f \in Flows : flows'[f] = NoFlow
  BY DEF Restarted
<1>2. FlowsOK'
  BY NoFlowIsQuiet DEF Restarted, FlowsOK
<1>3. ClaimsAreFree' /\ StepsFitForms'
  BY <1>1, NoFlowIsQuiet DEF ClaimsAreFree, StepsFitForms, Quiet
<1> QED
  BY <1>2, <1>3 DEF Restarted, RemovalsMigrated

----------------------------------------------------------------------------
(* The invariant holds initially and is kept by every step.                  *)

LEMMA InitHolds == Init => IndInv
<1> SUFFICES ASSUME Init PROVE IndInv
  OBVIOUS
<1>1. \A f \in Flows : flows[f] = NoFlow
  BY DEF Init
<1>2. FlowsOK
  BY NoFlowIsQuiet DEF Init, FlowsOK
<1>3. ClaimsAreFree /\ StepsFitForms
  BY <1>1, NoFlowIsQuiet DEF ClaimsAreFree, StepsFitForms, Quiet
<1>4. MigratedNotLost /\ RemovalsMigrated /\ TasksOK
  BY DEF Init, MigratedNotLost, RemovalsMigrated, TasksOK
<1> QED
  BY <1>2, <1>3, <1>4 DEF IndInv

LEMMA StoreSteps == ASSUME IndInv, Save \/ Restart \/ Crash PROVE IndInv'
<1>1. CASE Save
  <2>1. FlowsOK' /\ ClaimsAreFree' /\ StepsFitForms' /\ RemovalsMigrated'
    BY <1>1 DEF Save, storeVars, taskVars, IndInv, FlowsOK, ClaimsAreFree,
                StepsFitForms, RemovalsMigrated
  <2>2. saved'.entries = entries /\ saved'.old = old
    BY <1>1 DEF Save
  <2>3. MigratedNotLost' /\ TasksOK'
    BY <1>1, <2>2 DEF Save, storeVars, taskVars, IndInv, MigratedNotLost, TasksOK
  <2> QED
    BY <2>1, <2>3 DEF IndInv
<1>2. CASE Restart
  <2>1. saved'.entries = entries /\ saved'.old = old
    BY <1>2 DEF Restart
  <2>2. MigratedNotLost' /\ TasksOK'
    BY <1>2, <2>1, FreshStart DEF Restart, storeVars, IndInv, MigratedNotLost, TasksOK
  <2> QED
    BY <1>2, <2>2, FreshStart DEF Restart, IndInv
<1>3. CASE Crash
  <2>1. MigratedNotLost' /\ TasksOK'
    BY <1>3, FreshStart DEF Crash, IndInv, MigratedNotLost, TasksOK
  <2> QED
    BY <1>3, <2>1, FreshStart DEF Crash, IndInv
<1> QED
  BY <1>1, <1>2, <1>3

LEMMA MigrationSteps ==
  ASSUME IndInv,
         AsyncSetup \/ \E o \in OldEntries : Import(o) \/ RemoveOld(o)
  PROVE  IndInv'
<1>1. CASE AsyncSetup
  <2>1. UNCHANGED <<entries, old, saved, flows>>
    BY <1>1 DEF AsyncSetup, storeVars, diskVars
  <2>2. FlowsOK' /\ ClaimsAreFree' /\ StepsFitForms' /\ MigratedNotLost'
    BY <2>1 DEF IndInv, FlowsOK, ClaimsAreFree, StepsFitForms,
                MigratedNotLost
  <2>3. RemovalsMigrated' /\ TasksOK'
    BY <1>1, <2>1 DEF AsyncSetup, IndInv, RemovalsMigrated, TasksOK
  <2> QED
    BY <2>2, <2>3 DEF IndInv
<1>2. ASSUME NEW o \in OldEntries, Import(o) PROVE IndInv'
  <2> DEFINE a == OldAddress[o]
  <2>1. CASE InProgress(a) \/ a \in DOMAIN entries
    <3>1. UNCHANGED <<entries, old, saved, flows, removals>>
          /\ imports' \subseteq imports
      BY <1>2, <2>1 DEF Import, diskVars
    <3> QED
      BY <3>1 DEF IndInv, FlowsOK, ClaimsAreFree, StepsFitForms,
                  MigratedNotLost, RemovalsMigrated, TasksOK
  <2>2. CASE ~(InProgress(a) \/ a \in DOMAIN entries)
    <3>1. /\ AddEntry(a, OldToken)
          /\ removals' = removals \cup {o}
          /\ imports' \subseteq imports
          /\ UNCHANGED <<old, saved, flows>>
      BY <1>2, <2>2 DEF Import, diskVars
    <3>2. FlowsFor(a) = {}
      BY <2>2 DEF InProgress
    <3>3. flows' \in [Flows -> FlowRecord]
      BY <3>1 DEF IndInv, FlowsOK
    <3>4. removals' \subseteq OldEntries /\ imports' \subseteq OldEntries
      BY <3>1 DEF IndInv, TasksOK
    <3> HIDE DEF a
    <3>5. \A x \in removals' : x \in removals \/ OldAddress[x] = a
      BY <3>1 DEF a
    <3> QED
      BY <3>1, <3>2, <3>3, <3>4, <3>5, EntryStep
  <2> QED
    BY <2>1, <2>2
<1>3. ASSUME NEW o \in OldEntries, RemoveOld(o) PROVE IndInv'
  <2>1. /\ UNCHANGED <<entries, saved, flows, imports>>
        /\ o \in removals
        /\ removals' = removals \ {o}
        /\ old' = old \ {o}
    BY <1>3 DEF RemoveOld, diskVars
  <2>2. FlowsOK' /\ ClaimsAreFree' /\ StepsFitForms'
    BY <2>1 DEF IndInv, FlowsOK, ClaimsAreFree, StepsFitForms
  <2> QED
    BY <2>1, <2>2 DEF IndInv, MigratedNotLost, RemovalsMigrated, TasksOK
<1> QED
  BY <1>1, <1>2, <1>3

LEMMA NewFlowSteps ==
  ASSUME IndInv, NEW f \in Flows, StartUser(f) \/ StartBluetooth(f)
  PROVE  IndInv'
<1>1. ASSUME NEW new \in FlowRecord, new.form = "user", new.step = "idle",
             flows' = [flows EXCEPT ![f] = new],
             UNCHANGED <<storeVars, diskVars, taskVars>>
      PROVE  IndInv'
  <2>1. ~Claims(new) /\ Fits(new)
    BY <1>1 DEF Claims, Fits
  <2> QED
    BY <1>1, <2>1, OneFlowStep
<1>2. CASE StartUser(f)
  <2>1. PICK seen \in SUBSET Devices, last \in Devices :
          flows' = [flows EXCEPT ![f] =
                     [NoFlow EXCEPT !.form = "user",
                        !.choices = (seen \cap Supported) \ DOMAIN entries,
                        !.device = last]]
    BY <1>2 DEF StartUser
  <2> DEFINE fresh == (seen \cap Supported) \ DOMAIN entries
             new == [NoFlow EXCEPT !.form = "user", !.choices = fresh,
                                   !.device = last]
  <2>2. fresh \in SUBSET Supported
    OBVIOUS
  <2>3. UNCHANGED <<storeVars, diskVars, taskVars>>
    BY <1>2 DEF StartUser
  <2> HIDE DEF fresh
  <2>4. new \in FlowRecord /\ new.form = "user" /\ new.step = "idle"
    BY <2>2, NoFlowIsQuiet DEF NoFlow, FlowRecord
  <2>5. flows' = [flows EXCEPT ![f] = new]
    BY <2>1 DEF fresh
  <2> HIDE DEF new
  <2> QED
    BY <1>1, <2>3, <2>4, <2>5
<1>3. CASE StartBluetooth(f)
  <2>1. PICK d \in Supported \ DOMAIN entries :
          flows' = [flows EXCEPT ![f] =
                     [NoFlow EXCEPT !.form = "user", !.uid = d,
                                    !.choices = {d}, !.device = d]]
    BY <1>3 DEF StartBluetooth
  <2> DEFINE new == [NoFlow EXCEPT !.form = "user", !.uid = d,
                                   !.choices = {d}, !.device = d]
  <2>2. d \in Devices
    BY DEF Devices
  <2>3. new \in FlowRecord /\ new.form = "user" /\ new.step = "idle"
    BY <2>2, NoFlowIsQuiet DEF NoFlow, FlowRecord
  <2>4. flows' = [flows EXCEPT ![f] = new]
    BY <2>1
  <2>5. UNCHANGED <<storeVars, diskVars, taskVars>>
    BY <1>3 DEF StartBluetooth
  <2> HIDE DEF new
  <2> QED
    BY <1>1, <2>3, <2>4, <2>5
<1> QED
  BY <1>2, <1>3

\* The steps that end flows, and those of the task that fetches the token.
LEMMA EndingAndFetching ==
  ASSUME IndInv, NEW f \in Flows,
         \/ Abandon(f) \/ GotToken(f) \/ NoToken(f)
         \/ \E a \in Supported : SelectConfigured(f, a)
  PROVE  IndInv'
<1>1. CASE Abandon(f)
  BY <1>1, EndingStep DEF Abandon
<1>2. ASSUME NEW a \in Supported, SelectConfigured(f, a) PROVE IndInv'
  BY <1>2, EndingStep DEF SelectConfigured
<1>3. ASSUME NEW p \in {"token", "failed"},
             flows' = [flows EXCEPT ![f].pairing = p],
             UNCHANGED <<storeVars, diskVars, taskVars>>
      PROVE  IndInv'
  <2> DEFINE new == [flows[f] EXCEPT !.pairing = p]
  <2>1. flows[f] \in FlowRecord
    BY DEF IndInv, FlowsOK
  <2>2. /\ new \in FlowRecord
        /\ new.form = flows[f].form
        /\ new.step = flows[f].step
        /\ new.uid = flows[f].uid
        /\ new.pairing = p
    BY <2>1 DEF FlowRecord
  <2>3. flows' = [flows EXCEPT ![f] = new]
    BY <1>3, <2>1 DEF IndInv, FlowsOK
  <2> HIDE DEF new
  <2>4. Claims(new) <=> Claims(flows[f])
    BY <2>2 DEF Claims
  <2>5. Fits(new)
    BY <2>2 DEF IndInv, StepsFitForms, Fits
  <2>6. Claims(new) => new.uid \in Plugs \ DOMAIN entries
    BY <2>2, <2>4 DEF IndInv, ClaimsAreFree
  <2> QED
    BY <1>3, <2>2, <2>3, <2>5, <2>6, OneFlowStep
<1>4. CASE GotToken(f)
  BY <1>3, <1>4 DEF GotToken
<1>5. CASE NoToken(f)
  BY <1>3, <1>5 DEF NoToken
<1> QED
  BY <1>1, <1>2, <1>4, <1>5

\* A step that comes back shows a form or, if its flow is gone, ends it.
LEMMA ReturnedStep ==
  ASSUME IndInv, NEW f \in Flows, NEW new \in FlowRecord, Returned(f, new),
         UNCHANGED <<storeVars, diskVars, taskVars>>,
         flows[f].form # "gone" =>
           /\ Claims(new) => new.uid \in Plugs \ DOMAIN entries
           /\ Fits(new)
  PROVE  IndInv'
<1>1. CASE flows[f].form = "gone"
  <2>1. flows' = [flows EXCEPT ![f] = NoFlow]
    BY <1>1 DEF Returned, IndInv, FlowsOK
  <2> QED
    BY <2>1, OneFlowStep, NoFlowIsQuiet DEF Quiet
<1>2. CASE flows[f].form # "gone"
  <2>1. flows' = [flows EXCEPT ![f] = new]
    BY <1>2 DEF Returned, IndInv, FlowsOK
  <2> QED
    BY <1>2, <2>1, OneFlowStep
<1> QED
  BY <1>1, <1>2

LEMMA ReturningSteps ==
  ASSUME IndInv, NEW f \in Flows, Begun(f) \/ BeginRaises(f) \/ FinishFailed(f)
  PROVE  IndInv'
<1>1. flows[f] \in FlowRecord
  BY DEF IndInv, FlowsOK
<1>2. Fits(flows[f])
      /\ (Claims(flows[f]) => flows[f].uid \in Plugs \ DOMAIN entries)
  BY DEF IndInv, ClaimsAreFree, StepsFitForms
<1>3. CASE Begun(f)
  <2> DEFINE new == [flows[f] EXCEPT !.step = "idle", !.form = "link",
                                     !.choices = {}, !.pairing = "asking"]
  <2>1. /\ new \in FlowRecord /\ new.step = "idle" /\ new.form = "link"
        /\ new.uid = flows[f].uid /\ new.pairing = "asking"
    BY <1>1 DEF FlowRecord
  <2>2. flows[f].form # "gone" => Claims(flows[f])
    BY <1>2, <1>3 DEF Begun, Fits, Claims
  <2>3. Returned(f, new) /\ UNCHANGED <<storeVars, diskVars, taskVars>>
    BY <1>3 DEF Begun
  <2> HIDE DEF new
  <2>4. Fits(new)
    BY <2>1 DEF Fits
  <2> QED
    BY <1>2, <2>1, <2>2, <2>3, <2>4, ReturnedStep
<1>4. CASE BeginRaises(f)
  <2> DEFINE new == [flows[f] EXCEPT !.step = "idle", !.pairing = "raised"]
  <2>1. new \in FlowRecord /\ new.step = "idle" /\ new.form = flows[f].form
    BY <1>1 DEF FlowRecord
  <2>2. flows[f].form \in {"user", "gone"}
    BY <1>2, <1>4 DEF BeginRaises, Fits
  <2>3. Returned(f, new) /\ UNCHANGED <<storeVars, diskVars, taskVars>>
    BY <1>4 DEF BeginRaises
  <2> HIDE DEF new
  <2>4. ~Claims(new) /\ (flows[f].form # "gone" => Fits(new))
    BY <2>1, <2>2 DEF Fits, Claims
  <2> QED
    BY <2>1, <2>3, <2>4, ReturnedStep
<1>5. CASE FinishFailed(f)
  <2> DEFINE new == [flows[f] EXCEPT !.step = "idle"]
  <2>1. new \in FlowRecord /\ new.step = "idle" /\ new.form = flows[f].form
        /\ new.uid = flows[f].uid /\ new.pairing = "failed"
    BY <1>1, <1>5 DEF FlowRecord, FinishFailed
  <2>2. flows[f].form \in {"link", "gone"}
    BY <1>2, <1>5 DEF FinishFailed, Fits
  <2>3. Returned(f, new) /\ UNCHANGED <<storeVars, diskVars, taskVars>>
    BY <1>5 DEF FinishFailed
  <2> HIDE DEF new
  <2>4. flows[f].form # "gone" => Fits(new)
    BY <2>1, <2>2 DEF Fits
  <2>5. flows[f].form # "gone" => Claims(flows[f])
    BY <2>2 DEF Claims
  <2> QED
    BY <1>2, <2>1, <2>3, <2>4, <2>5, ReturnedStep
<1> QED
  BY <1>3, <1>4, <1>5

LEMMA SubmittingSteps ==
  ASSUME IndInv, NEW f \in Flows,
         Submit(f) \/ \E a \in Supported : SelectPlug(f, a) \/ SelectH6163(f, a)
  PROVE  IndInv'
<1>1. flows[f] \in FlowRecord
  BY DEF IndInv, FlowsOK
<1>2. Claims(flows[f]) => flows[f].uid \in Plugs \ DOMAIN entries
  BY DEF IndInv, ClaimsAreFree
<1>3. CASE Submit(f)
  <2> DEFINE new == [flows[f] EXCEPT !.step = "finishing"]
  <2>1. /\ new \in FlowRecord /\ new.step = "finishing" /\ new.form = "link"
        /\ new.uid = flows[f].uid /\ new.pairing = flows[f].pairing
    BY <1>1, <1>3 DEF FlowRecord, Submit
  <2>2. flows' = [flows EXCEPT ![f] = new]
        /\ UNCHANGED <<storeVars, diskVars, taskVars>>
    BY <1>1, <1>3 DEF Submit, IndInv, FlowsOK
  <2>3. Claims(flows[f]) /\ Fits(flows[f])
    BY <1>3 DEF Submit, Claims, IndInv, StepsFitForms
  <2> HIDE DEF new
  <2>4. Fits(new)
    BY <1>3, <2>1, <2>3 DEF Fits, Submit
  <2> QED
    BY <1>2, <2>1, <2>2, <2>3, <2>4, OneFlowStep
<1>4. ASSUME NEW a \in Supported, SelectPlug(f, a) PROVE IndInv'
  <2> DEFINE new == [flows[f] EXCEPT !.uid = a, !.step = "beginning"]
  <2>1. new \in FlowRecord /\ new.step = "beginning" /\ new.form = "user"
        /\ new.uid = a
    BY <1>1, <1>4 DEF FlowRecord, SelectPlug, Offered
  <2>2. flows' = [flows EXCEPT ![f] = new]
        /\ UNCHANGED <<storeVars, diskVars, taskVars>>
    BY <1>1, <1>4 DEF SelectPlug, IndInv, FlowsOK
  <2>3. a \in Plugs \ DOMAIN entries
    BY <1>4 DEF SelectPlug
  <2> HIDE DEF new
  <2>4. Fits(new)
    BY <2>1 DEF Fits
  <2> QED
    BY <2>1, <2>2, <2>3, <2>4, OneFlowStep
<1>5. ASSUME NEW a \in Supported, SelectH6163(f, a) PROVE IndInv'
  <2> DEFINE new == [flows[f] EXCEPT !.uid = a, !.pairing = "raised"]
  <2>1. new \in FlowRecord /\ new.step = "idle" /\ new.form = "user"
    BY <1>1, <1>5 DEF FlowRecord, SelectH6163, Offered
  <2>2. flows' = [flows EXCEPT ![f] = new]
        /\ UNCHANGED <<storeVars, diskVars, taskVars>>
    BY <1>1, <1>5 DEF SelectH6163, IndInv, FlowsOK
  <2> HIDE DEF new
  <2>3. Fits(new) /\ ~Claims(new)
    BY <2>1 DEF Fits, Claims
  <2> QED
    BY <2>1, <2>2, <2>3, OneFlowStep
<1> QED
  BY <1>3, <1>4, <1>5

\* The steps of flows that make an entry.
LEMMA EntrySteps ==
  ASSUME IndInv, NEW f \in Flows,
         FinishPaired(f) \/ \E a \in Supported : SelectLight(f, a)
  PROVE  IndInv'
<1>1. removals \subseteq OldEntries /\ imports \subseteq OldEntries
  BY DEF IndInv, TasksOK
<1>2. ASSUME NEW a \in Supported, SelectLight(f, a) PROVE IndInv'
  <2>1. AddEntry(a, None) /\ UNCHANGED <<old, saved, removals, imports>>
    BY <1>2 DEF SelectLight, diskVars, taskVars
  <2>2. flows' = Ended({f} \cup FlowsFor(a))
    BY <1>2 DEF SelectLight
  <2>3. flows' \in [Flows -> FlowRecord]
    BY <2>2, EndedTyped DEF IndInv
  <2>4. \A g \in Flows : \/ Quiet(flows'[g])
                         \/ flows'[g] = flows[g] /\ g \notin FlowsFor(a)
    BY <2>2, EndedFlow DEF IndInv
  <2> QED
    BY <1>1, <2>1, <2>3, <2>4, EntryStep
<1>3. CASE FinishPaired(f) /\ flows[f].form = "gone"
  <2>1. flows' = [flows EXCEPT ![f] = NoFlow]
        /\ UNCHANGED <<storeVars, diskVars, taskVars>>
    BY <1>3 DEF FinishPaired, storeVars
  <2> QED
    BY <2>1, OneFlowStep, NoFlowIsQuiet DEF Quiet
<1>4. CASE FinishPaired(f) /\ flows[f].form # "gone"
  <2> DEFINE a == flows[f].uid
             ended == Ended(FlowsFor(a))
  <2>1. AddEntry(a, flows[f].device)
        /\ UNCHANGED <<old, saved, removals, imports>>
    BY <1>4 DEF FinishPaired, diskVars, taskVars
  <2>2. flows' = [ended EXCEPT ![f] = NoFlow]
    BY <1>4 DEF FinishPaired
  <2>3. ended \in [Flows -> FlowRecord]
    BY EndedTyped DEF IndInv
  <2>4. \A g \in Flows : \/ Quiet(ended[g])
                         \/ ended[g] = flows[g] /\ g \notin FlowsFor(a)
    BY EndedFlow DEF IndInv
  <2> HIDE DEF a, ended
  <2>5. flows' \in [Flows -> FlowRecord]
    BY <2>2, <2>3, NoFlowIsQuiet
  <2>6. \A g \in Flows : flows'[g] = IF g = f THEN NoFlow ELSE ended[g]
    BY <2>2, <2>3
  <2>7. \A g \in Flows : \/ Quiet(flows'[g])
                         \/ flows'[g] = flows[g] /\ g \notin FlowsFor(a)
    BY <2>4, <2>6, NoFlowIsQuiet
  <2> QED
    BY <1>1, <2>1, <2>5, <2>7, EntryStep
<1> QED
  BY <1>2, <1>3, <1>4

LEMMA StutteringSteps == ASSUME IndInv, UNCHANGED vars PROVE IndInv'
<1>1. UNCHANGED <<entries, old, saved, removals, imports, flows>>
  BY DEF vars, storeVars, diskVars, taskVars
<1> QED
  BY <1>1 DEF IndInv, FlowsOK, ClaimsAreFree, StepsFitForms, MigratedNotLost,
              RemovalsMigrated, TasksOK

LEMMA NextHolds == IndInv /\ [Next]_vars => IndInv'
<1> SUFFICES ASSUME IndInv, [Next]_vars PROVE IndInv'
  OBVIOUS
<1>1. CASE Save \/ Restart \/ Crash
  BY <1>1, StoreSteps
<1>2. CASE AsyncSetup \/ \E o \in OldEntries : Import(o) \/ RemoveOld(o)
  BY <1>2, MigrationSteps
<1>3. ASSUME NEW f \in Flows, StartUser(f) \/ StartBluetooth(f) PROVE IndInv'
  BY <1>3, NewFlowSteps
<1>4. ASSUME NEW f \in Flows,
             \/ Abandon(f) \/ GotToken(f) \/ NoToken(f)
             \/ \E a \in Supported : SelectConfigured(f, a)
      PROVE  IndInv'
  BY <1>4, EndingAndFetching
<1>5. ASSUME NEW f \in Flows, Begun(f) \/ BeginRaises(f) \/ FinishFailed(f)
      PROVE  IndInv'
  BY <1>5, ReturningSteps
<1>6. ASSUME NEW f \in Flows,
             \/ Submit(f)
             \/ \E a \in Supported : SelectPlug(f, a) \/ SelectH6163(f, a)
      PROVE  IndInv'
  BY <1>6, SubmittingSteps
<1>7. ASSUME NEW f \in Flows,
             FinishPaired(f) \/ \E a \in Supported : SelectLight(f, a)
      PROVE  IndInv'
  BY <1>7, EntrySteps
<1>8. CASE UNCHANGED vars
  BY <1>8, StutteringSteps
<1> QED
  BY <1>1, <1>2, <1>3, <1>4, <1>5, <1>6, <1>7, <1>8 DEF Next

\* The inductive invariant of the entries and the flows.
THEOREM Invariance == Spec => []IndInv
<1>1. Init => IndInv
  BY InitHolds
<1>2. IndInv /\ [Next]_vars => IndInv'
  BY NextHolds
<1> QED
  BY <1>1, <1>2, PTL DEF Spec

\* A submitted form is answered: the token, the failure or the task that will
\* bring one of them is there.
THEOREM SubmittedIsAnswered == Spec => []SubmitsAreAnswered
<1>1. IndInv => SubmitsAreAnswered
  BY DEF IndInv, StepsFitForms, Fits, SubmitsAreAnswered
<1> QED
  BY <1>1, Invariance, PTL

\* No device is lost on its way from the old domain, in memory and on the disk.
THEOREM NoDeviceIsLost == Spec => []MigratedNotLost
<1>1. IndInv => MigratedNotLost
  BY DEF IndInv
<1> QED
  BY <1>1, Invariance, PTL

----------------------------------------------------------------------------
(* Types, for which the invariant of the flows is needed: what a flow comes *)
(* back with is a supported device and a token.                             *)

StoreTyped ==
  /\ entries \in Entries
  /\ saved \in [entries : Entries, old : SUBSET OldEntries]
  /\ crashes \in 0..MaxCrashes
  /\ setup \in BOOLEAN

LEMMA NoEntriesTyped == << >> \in Entries
<1>1. << >> \in [{} -> Tokens]
  OBVIOUS
<1>2. {} \in SUBSET Supported
  OBVIOUS
<1> QED
  BY <1>1, <1>2 DEF Entries

LEMMA AddedTyped ==
  ASSUME entries \in Entries, NEW a \in Supported, NEW token \in Tokens,
         AddEntry(a, token)
  PROVE  entries' \in Entries
<1>1. PICK D \in SUBSET Supported : entries \in [D -> Tokens]
  BY DEF Entries
<1>2. DOMAIN entries = D
  BY <1>1
<1>3. entries' = [x \in D \cup {a} |-> IF x = a THEN token ELSE entries[x]]
  BY <1>2 DEF AddEntry
<1>4. entries' \in [D \cup {a} -> Tokens]
  BY <1>1, <1>3
<1>5. D \cup {a} \in SUBSET Supported
  OBVIOUS
<1> QED
  BY <1>4, <1>5 DEF Entries

LEMMA InitTyped == Init => StoreTyped
<1> SUFFICES ASSUME Init PROVE StoreTyped
  OBVIOUS
<1>1. entries \in Entries /\ old \in SUBSET OldEntries
  BY NoEntriesTyped DEF Init
<1>2. saved \in [entries : Entries, old : SUBSET OldEntries]
  BY <1>1 DEF Init
<1>3. crashes \in 0..MaxCrashes /\ setup \in BOOLEAN
  <2>1. crashes = 0 /\ setup = FALSE
    BY DEF Init
  <2>2. 0 \in 0..MaxCrashes
    BY CrashesAssumption
  <2> QED
    BY <2>1, <2>2
<1> QED
  BY <1>1, <1>2, <1>3 DEF StoreTyped

LEMMA NextTyped ==
  ASSUME IndInv, StoreTyped, [Next]_vars
  PROVE  StoreTyped'
<1>1. CASE Save \/ Restart \/ Crash
  <2>1. old \in SUBSET OldEntries
    BY DEF IndInv, TasksOK
  <2>2. CASE Save
    BY <2>1, <2>2 DEF Save, StoreTyped, storeVars, taskVars
  <2>3. CASE Restart
    BY <2>1, <2>3 DEF Restart, Restarted, StoreTyped, storeVars
  <2>4. CASE Crash
    <3>1. crashes' \in 0..MaxCrashes
      BY <2>4, CrashesAssumption DEF Crash, StoreTyped
    <3>2. entries' \in Entries /\ saved' = saved /\ setup' = FALSE
      BY <2>4 DEF Crash, Restarted, StoreTyped
    <3> QED
      BY <3>1, <3>2 DEF StoreTyped
  <2> QED
    BY <1>1, <2>2, <2>3, <2>4
<1>2. CASE UNCHANGED <<entries, saved, crashes>> /\ setup' \in BOOLEAN
  BY <1>2 DEF StoreTyped
<1>3. ASSUME NEW a \in Supported, NEW token \in Tokens, AddEntry(a, token),
             UNCHANGED <<saved, crashes, setup>>
      PROVE  StoreTyped'
  BY <1>3, AddedTyped DEF StoreTyped
<1>4. setup \in BOOLEAN
  BY DEF StoreTyped
<1>5. CASE AsyncSetup
  BY <1>2, <1>5 DEF AsyncSetup, storeVars, diskVars
<1>6. ASSUME NEW o \in OldEntries, Import(o) \/ RemoveOld(o)
      PROVE  StoreTyped'
  <2>1. OldAddress[o] \in Supported /\ OldToken \in Tokens
    BY OldAssumption DEF Tokens
  <2> QED
    BY <1>2, <1>3, <1>4, <1>6, <2>1 DEF Import, RemoveOld, diskVars
<1>7. ASSUME NEW f \in Flows, FinishPaired(f) PROVE StoreTyped'
  <2>1. CASE flows[f].form = "gone"
    BY <1>2, <1>4, <1>7, <2>1 DEF FinishPaired, diskVars, taskVars
  <2>2. CASE flows[f].form # "gone"
    <3>1. flows[f].form = "link"
      BY <1>7, <2>2 DEF FinishPaired, IndInv, StepsFitForms, Fits
    <3>2. flows[f].uid \in Supported
      BY <3>1 DEF IndInv, ClaimsAreFree, Claims, Supported
    <3>3. flows[f].device \in Tokens
      BY DEF IndInv, FlowsOK, FlowRecord, Tokens
    <3>4. AddEntry(flows[f].uid, flows[f].device)
          /\ UNCHANGED <<saved, crashes, setup>>
      BY <1>7, <2>2 DEF FinishPaired, diskVars, taskVars
    <3> QED
      BY <1>3, <3>2, <3>3, <3>4
  <2> QED
    BY <2>1, <2>2
<1>8. ASSUME NEW f \in Flows, NEW a \in Supported, SelectLight(f, a)
      PROVE  StoreTyped'
  <2>1. None \in Tokens
    BY DEF Tokens
  <2> QED
    BY <1>3, <1>8, <2>1 DEF SelectLight, diskVars, taskVars
<1>9. ASSUME NEW f \in Flows, NEW a \in Supported,
             SelectConfigured(f, a) \/ SelectPlug(f, a) \/ SelectH6163(f, a)
      PROVE  StoreTyped'
  BY <1>2, <1>4, <1>9 DEF SelectConfigured, SelectPlug, SelectH6163, storeVars,
                          diskVars, taskVars
<1>10. ASSUME NEW f \in Flows,
              \/ StartUser(f) \/ StartBluetooth(f) \/ Abandon(f)
              \/ Begun(f) \/ BeginRaises(f) \/ Submit(f)
              \/ GotToken(f) \/ NoToken(f) \/ FinishFailed(f)
       PROVE  StoreTyped'
  BY <1>2, <1>4, <1>10 DEF StartUser, StartBluetooth, Abandon, Begun,
     BeginRaises, Submit, GotToken, NoToken, FinishFailed, storeVars, diskVars,
     taskVars
<1>11. CASE UNCHANGED vars
  BY <1>2, <1>4, <1>11 DEF vars, storeVars, diskVars, taskVars
<1> QED
  BY <1>1, <1>5, <1>6, <1>7, <1>8, <1>9, <1>10, <1>11 DEF Next

\* Every variable has its type, for any number of devices, flows and crashes:
\* an entry holds a supported device's address and a token that some device or
\* the old domain gave.
THEOREM EntriesTypeCorrect == Spec => []TypeOK
<1>1. Init => StoreTyped
  BY InitTyped
<1>2. IndInv /\ StoreTyped /\ [Next]_vars => StoreTyped'
  BY NextTyped
<1>3. IndInv /\ StoreTyped => TypeOK
  BY DEF IndInv, StoreTyped, TypeOK, TasksOK, FlowsOK, FlowRecord,
         StepsFitForms, Fits
<1> QED
  BY <1>1, <1>2, <1>3, Invariance, PTL DEF Spec

----------------------------------------------------------------------------
(* Entries are not overwritten.                                             *)

\* Entries are only added, by steps that check for one or by flows that lost
\* their claim when it was made: what a device's entry holds stays.
LEMMA EntriesOnlyAdded ==
  ASSUME IndInv, IndInv', Next, crashes' = crashes, crashes \in Nat,
         NEW x \in DOMAIN entries
  PROVE  x \in DOMAIN entries' /\ entries'[x] = entries[x]
<1>1. ASSUME NEW a, NEW token, AddEntry(a, token), a \notin DOMAIN entries
      PROVE  x \in DOMAIN entries' /\ entries'[x] = entries[x]
  BY <1>1 DEF AddEntry
<1>2. CASE entries' = entries
  BY <1>2
<1>3. CASE Crash
  <2>1. crashes + 1 # crashes
    OBVIOUS
  <2> QED
    BY <1>3, <2>1 DEF Crash
<1>4. CASE Save \/ Restart \/ AsyncSetup
  BY <1>2, <1>4 DEF Save, Restart, AsyncSetup, storeVars
<1>5. ASSUME NEW o \in OldEntries, Import(o) \/ RemoveOld(o)
      PROVE  x \in DOMAIN entries' /\ entries'[x] = entries[x]
  BY <1>1, <1>2, <1>5 DEF Import, RemoveOld
<1>6. ASSUME NEW f \in Flows, FinishPaired(f)
      PROVE  x \in DOMAIN entries' /\ entries'[x] = entries[x]
  <2>1. CASE flows[f].form = "gone"
    BY <1>2, <1>6, <2>1 DEF FinishPaired
  <2>2. CASE flows[f].form # "gone"
    <3>1. flows[f].form = "link"
      BY <1>6, <2>2 DEF FinishPaired, IndInv, StepsFitForms, Fits
    <3>2. flows[f].uid \notin DOMAIN entries
      BY <3>1 DEF IndInv, ClaimsAreFree, Claims
    <3>3. AddEntry(flows[f].uid, flows[f].device)
      BY <1>6, <2>2 DEF FinishPaired
    <3> QED
      BY <1>1, <3>2, <3>3
  <2> QED
    BY <2>1, <2>2
<1>7. ASSUME NEW f \in Flows, NEW a \in Supported,
             \/ SelectConfigured(f, a) \/ SelectLight(f, a)
             \/ SelectPlug(f, a) \/ SelectH6163(f, a)
      PROVE  x \in DOMAIN entries' /\ entries'[x] = entries[x]
  BY <1>1, <1>2, <1>7 DEF SelectConfigured, SelectLight, SelectPlug,
                          SelectH6163, storeVars
<1>8. ASSUME NEW f \in Flows,
             \/ StartUser(f) \/ StartBluetooth(f) \/ Abandon(f)
             \/ Begun(f) \/ BeginRaises(f) \/ Submit(f)
             \/ GotToken(f) \/ NoToken(f) \/ FinishFailed(f)
      PROVE  x \in DOMAIN entries' /\ entries'[x] = entries[x]
  BY <1>2, <1>8 DEF StartUser, StartBluetooth, Abandon, Begun, BeginRaises,
                    Submit, GotToken, NoToken, FinishFailed, storeVars
<1> QED
  BY <1>3, <1>4, <1>5, <1>6, <1>7, <1>8 DEF Next

CrashesCounted == crashes \in Nat

LEMMA CrashesStayCounted ==
  CrashesCounted /\ [Next]_vars => CrashesCounted'
<1> SUFFICES ASSUME CrashesCounted, [Next]_vars PROVE crashes' \in Nat
  BY DEF CrashesCounted
<1>1. CASE Crash
  BY <1>1 DEF Crash, CrashesCounted
<1>2. CASE crashes' = crashes
  BY <1>2 DEF CrashesCounted
<1>3. CASE Save \/ Restart \/ AsyncSetup \/ UNCHANGED vars
  BY <1>2, <1>3 DEF Save, Restart, AsyncSetup, diskVars, vars
<1>4. ASSUME NEW o \in OldEntries, Import(o) \/ RemoveOld(o)
      PROVE  crashes' \in Nat
  BY <1>2, <1>4 DEF Import, RemoveOld, diskVars
<1>5. ASSUME NEW f \in Flows, NEW a \in Supported,
             \/ SelectConfigured(f, a) \/ SelectLight(f, a)
             \/ SelectPlug(f, a) \/ SelectH6163(f, a)
      PROVE  crashes' \in Nat
  BY <1>2, <1>5 DEF SelectConfigured, SelectLight, SelectPlug,
                          SelectH6163, diskVars
<1>6. ASSUME NEW f \in Flows,
             \/ StartUser(f) \/ StartBluetooth(f) \/ Abandon(f)
             \/ Begun(f) \/ BeginRaises(f) \/ Submit(f)
             \/ GotToken(f) \/ NoToken(f) \/ FinishFailed(f) \/ FinishPaired(f)
      PROVE  crashes' \in Nat
  BY <1>2, <1>6 DEF StartUser, StartBluetooth, Abandon, Begun, BeginRaises,
                    Submit, GotToken, NoToken, FinishFailed, FinishPaired,
                    diskVars
<1> QED
  BY <1>1, <1>3, <1>4, <1>5, <1>6 DEF Next

\* An entry is never overwritten while Home Assistant runs.
THEOREM EntriesNeverReplaced == Spec => NeverReplaced
<1>1. Init => CrashesCounted
  BY DEF Init, CrashesCounted
<1>2. CrashesCounted /\ [Next]_vars => CrashesCounted'
  BY CrashesStayCounted
<1>3. IndInv /\ IndInv' /\ CrashesCounted /\ [Next]_vars
        => [crashes' = crashes =>
              \A a \in DOMAIN entries :
                a \in DOMAIN entries' /\ entries'[a] = entries[a]]_vars
  BY EntriesOnlyAdded DEF CrashesCounted
<1>4. Spec => []IndInv
  BY Invariance
<1> QED
  BY <1>1, <1>2, <1>3, <1>4, PTL DEF Spec, NeverReplaced

==============================================================================
