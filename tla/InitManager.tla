---------------------------- MODULE InitManager ----------------------------
(***************************************************************************)
(* The boot-time orchestrator of cloudbase-init (init.py): one process,     *)
(* started at every boot, runs the configured plugins stage by stage,       *)
(* remembers in the Windows registry which MAIN plugins are done for the    *)
(* current instance id, reboots when a plugin asks for it and reports the   *)
(* outcome of provisioning to the metadata service.                         *)
(*                                                                          *)
(* Every write that survives the process (a plugin's effect, a registry     *)
(* value, a report) is a step of its own, so that a crash can fall between  *)
(* any two of them.                                                         *)
(***************************************************************************)
EXTENDS Integers, Sequences, FiniteSets

CONSTANTS
  Plugins,          \* plugin classes named by CONF.plugins
  StagePlugins,     \* stage -> the plugins load_plugins(stage) returns, in order
  Supported,        \* plugins whose OS requirements hold on this machine
  Outcomes,         \* plugin -> (is its setting already in place?) -> what execute() may do
  Instances,        \* instance ids a metadata service can report
  NoInstance,       \* the None of a service without instance ids
  Services,         \* metadata services that may be discovered
  NoService,        \* no service: MetadataNotFoundException, or none looked for yet
  Identified,       \* the services that implement get_instance_id
  AllowReboot,      \* CONF.allow_reboot
  ReportStarted,    \* CONF.metadata_report_provisioning_started
  ReportCompleted,  \* CONF.metadata_report_provisioning_completed
  StopOnExit,       \* CONF.stop_service_on_exit
  Faults,           \* what may go wrong around the process, see FaultKinds
  MaxInterruptions  \* bound on power losses, kills and re-imagings of a behaviour

Stages   == {"PRE_NETWORKING", "PRE_METADATA_DISCOVERY", "MAIN"}
Statuses == {"DONE", "NEXT_BOOT"}

\* What plugin.execute() may do: return (status, reboot_required), or raise.
Outcome == [status : Statuses \cup {"raised"}, reboot : BOOLEAN]

\* powerloss: the machine dies and boots again; kill: the process alone dies and is
\* restarted; registry: a registry write fails; report: a call to the metadata service
\* fails; discovery: no metadata service loads, or one raises; reboot: InitiateSystemShutdownEx is
\* refused; clone: the disk is redeployed as another instance.
FaultKinds == {"powerloss", "kill", "registry", "report", "discovery", "reboot", "clone"}

ASSUME ConfigAssumption ==
  /\ StagePlugins \in [Stages -> Seq(Plugins)]
  /\ Supported \subseteq Plugins
  /\ Outcomes \in [Plugins -> [BOOLEAN -> SUBSET Outcome]]
  /\ NoInstance \notin Instances
  /\ NoService \notin Services
  /\ Identified \subseteq Services
  /\ AllowReboot \in BOOLEAN
  /\ ReportStarted \in BOOLEAN
  /\ ReportCompleted \in BOOLEAN
  /\ StopOnExit \in BOOLEAN
  /\ Faults \subseteq FaultKinds
  /\ MaxInterruptions \in Nat

VARIABLES
  pc,             \* where configure_host is
  stage,          \* the stage being handled
  idx,            \* position of the loop over the stage's plugins
  stageSuccess,   \* stage_success of the current stage
  rebootRequired, \* reboot_required as left by the last supported plugin (None is FALSE)
  result,         \* what the plugin just executed did, not yet recorded
  service,        \* the metadata service of this run
  instance,       \* instance_id of this run
  registry,       \* the Plugins section of each instance id, survives everything
  cloud,          \* the instance id the cloud gives this machine
  settled,        \* plugins whose setting is in place on the machine
  rebootPending,  \* a plugin asked for a reboot since the machine last booted
  ran,            \* instance id -> plugins whose execute() returned under it
  handled,        \* MAIN plugins that succeeded or were skipped as DONE in this run
  reports,        \* what this run reported to the metadata service
  interruptions   \* power losses, kills and re-imagings so far

local   == <<stage, idx, stageSuccess, rebootRequired, result, service, instance>>
machine == <<registry, cloud, settled, rebootPending>>
history == <<ran, handled, reports>>
vars    == <<pc, local, machine, history, interruptions>>

Running == {"boot", "stage", "record", "discover", "announce", "identify", "cleanup",
            "verdict", "finish"}
AtRest  == {"idle", "stopped"}

NoResult == [status |-> "raised", reboot |-> FALSE]

Plugin == StagePlugins[stage][idx]

\* Mutant: every plugin looks as if it had never run.
Mut_SavedStatus(p) == "none"

\* A plugin run without an instance id has no saved status.
SavedStatus(p) == IF instance = NoInstance THEN "none" ELSE registry[instance][p]

\* Mutant: the break after a plugin that wants a reboot is missing.
Mut_StageOver == idx > Len(StagePlugins[stage])

\* The loop is left at its end or by the break after a plugin that wants a reboot.
StageOver ==
  idx > Len(StagePlugins[stage]) \/ (rebootRequired /\ AllowReboot)

Enter(s) ==
  /\ stage' = s
  /\ idx' = 1
  /\ stageSuccess' = TRUE
  /\ rebootRequired' = FALSE
  /\ pc' = "stage"

-----------------------------------------------------------------------------
(* Process and machine. *)

Init ==
  /\ pc = "off"
  /\ stage = "PRE_NETWORKING"
  /\ idx = 1
  /\ stageSuccess = TRUE
  /\ rebootRequired = FALSE
  /\ result = NoResult
  /\ service = NoService
  /\ instance = NoInstance
  /\ registry = [i \in Instances |-> [p \in Plugins |-> "none"]]
  /\ cloud \in Instances
  /\ settled = {}
  /\ rebootPending = FALSE
  /\ ran = [i \in Instances |-> {}]
  /\ handled = {}
  /\ reports = {}
  /\ interruptions = 0

\* The process is gone and its local variables with it.
Gone(where) ==
  /\ pc' = where
  /\ stage' = "PRE_NETWORKING"
  /\ idx' = 1
  /\ stageSuccess' = TRUE
  /\ rebootRequired' = FALSE
  /\ result' = NoResult
  /\ service' = NoService
  /\ instance' = NoInstance
  /\ handled' = {}
  /\ reports' = {}

\* The machine boots and the service manager starts the service.
Boot ==
  /\ pc = "off"
  /\ pc' = "boot"
  /\ rebootPending' = FALSE
  /\ UNCHANGED <<local, registry, cloud, settled, history, interruptions>>

\* The service is started again without a boot of the machine.
Restart ==
  /\ pc = "dead"
  /\ pc' = "boot"
  /\ UNCHANGED <<local, machine, history, interruptions>>

\* wait_for_boot_completion returned: the first stage begins.
BootCompleted ==
  /\ pc = "boot"
  /\ Enter("PRE_NETWORKING")
  /\ UNCHANGED <<result, service, instance, machine, history, interruptions>>

Interrupted(fault) ==
  /\ fault \in Faults
  /\ interruptions < MaxInterruptions
  /\ interruptions' = interruptions + 1

PowerLoss ==
  /\ pc # "off"
  /\ Interrupted("powerloss")
  /\ Gone("off")
  /\ UNCHANGED <<machine, ran>>

Kill ==
  /\ pc \in Running
  /\ Interrupted("kill")
  /\ Gone("dead")
  /\ UNCHANGED <<machine, ran>>

\* The disk is captured and redeployed: the registry goes with it, the id does not, and
\* what the metadata of the new instance asks for may differ from what is in place.
Clone ==
  /\ pc = "off"
  /\ Interrupted("clone")
  /\ cloud' \in Instances \ {cloud}
  /\ settled' \in SUBSET settled
  /\ UNCHANGED <<pc, local, registry, rebootPending, history>>

-----------------------------------------------------------------------------
(* The loop of _handle_plugins_stage and _exec_plugin. *)

AtPlugin(p) ==
  /\ pc = "stage"
  /\ ~StageOver
  /\ p = Plugin

SkipUnsupported(p) ==
  /\ AtPlugin(p)
  /\ p \notin Supported
  /\ idx' = idx + 1
  /\ UNCHANGED <<pc, stage, stageSuccess, rebootRequired, result, service, instance,
                 machine, history, interruptions>>

SkipDone(p) ==
  /\ AtPlugin(p)
  /\ p \in Supported
  /\ SavedStatus(p) = "DONE"
  /\ rebootRequired' = FALSE
  /\ handled' = handled \cup {p}
  /\ idx' = idx + 1
  /\ UNCHANGED <<pc, stage, stageSuccess, result, service, instance, machine, ran,
                 reports, interruptions>>

\* Mutant: DONE is saved before the plugin has run.
Mut_Execute(p) ==
  /\ AtPlugin(p)
  /\ p \in Supported
  /\ SavedStatus(p) # "DONE"
  /\ registry' = [i \in Instances |->
                    IF i = instance THEN [registry[i] EXCEPT ![p] = "DONE"] ELSE registry[i]]
  /\ \E o \in Outcomes[p][(p \in settled)] : result' = o
  /\ pc' = "record"
  /\ UNCHANGED <<stage, idx, stageSuccess, rebootRequired, service, instance, cloud,
                 settled, rebootPending, history, interruptions>>

\* plugin.execute(): its effect on the machine is there from this step on, even when it
\* raises half-way (it may then be in place or not).
Execute(p) ==
  /\ AtPlugin(p)
  /\ p \in Supported
  /\ SavedStatus(p) # "DONE"
  /\ \E o \in Outcomes[p][(p \in settled)] :
       /\ result' = o
       /\ rebootPending' = (rebootPending \/ (o.status # "raised" /\ o.reboot))
       /\ \/ settled' = settled \cup {p}
          \/ o.status = "raised" /\ settled' = settled
       /\ ran' = IF o.status = "raised" \/ instance = NoInstance THEN ran
                 ELSE [ran EXCEPT ![instance] = @ \cup {p}]
  /\ pc' = "record"
  /\ UNCHANGED <<stage, idx, stageSuccess, rebootRequired, service, instance, registry,
                 cloud, handled, reports, interruptions>>

NextPlugin ==
  /\ pc' = "stage"
  /\ idx' = idx + 1
  /\ result' = NoResult
  /\ UNCHANGED <<stage, service, instance, cloud, settled, rebootPending, ran,
                 reports, interruptions>>

\* Mutant: the result of a plugin that raised is saved as well.
Mut_RecordRaised(p) ==
  /\ pc = "record" /\ p = Plugin
  /\ result.status = "raised"
  /\ instance # NoInstance
  /\ registry' = [registry EXCEPT ![instance][p] = result.status]
  /\ stageSuccess' = FALSE
  /\ rebootRequired' = FALSE
  /\ NextPlugin
  /\ UNCHANGED handled

RecordRaised(p) ==
  /\ pc = "record" /\ p = Plugin
  /\ result.status = "raised"
  /\ stageSuccess' = FALSE
  /\ rebootRequired' = FALSE
  /\ NextPlugin
  /\ UNCHANGED <<registry, handled>>

RecordUnsaved(p) ==
  /\ pc = "record" /\ p = Plugin
  /\ result.status # "raised"
  /\ instance = NoInstance
  /\ rebootRequired' = result.reboot
  /\ handled' = handled \cup {p}
  /\ NextPlugin
  /\ UNCHANGED <<registry, stageSuccess>>

\* Mutant: the section of the registry does not depend on the instance id.
Mut_SharedSection(p) ==
  /\ pc = "record" /\ p = Plugin
  /\ result.status # "raised"
  /\ instance # NoInstance
  /\ registry' = [i \in Instances |-> [registry[i] EXCEPT ![p] = result.status]]
  /\ rebootRequired' = result.reboot
  /\ handled' = handled \cup {p}
  /\ NextPlugin
  /\ UNCHANGED stageSuccess

\* Mutant: stage_success is the success of the last plugin.
Mut_LastSuccess(p) ==
  /\ pc = "record" /\ p = Plugin
  /\ result.status # "raised"
  /\ instance # NoInstance
  /\ registry' = [registry EXCEPT ![instance][p] = result.status]
  /\ rebootRequired' = result.reboot
  /\ handled' = handled \cup {p}
  /\ stageSuccess' = TRUE
  /\ NextPlugin

RecordSaved(p) ==
  /\ pc = "record" /\ p = Plugin
  /\ result.status # "raised"
  /\ instance # NoInstance
  /\ registry' = [registry EXCEPT ![instance][p] = result.status]
  /\ rebootRequired' = result.reboot
  /\ handled' = handled \cup {p}
  /\ NextPlugin
  /\ UNCHANGED stageSuccess

\* The registry write raises inside the try: the plugin counts as failed, but
\* reboot_required was already assigned.
RecordLost(p) ==
  /\ pc = "record" /\ p = Plugin
  /\ "registry" \in Faults
  /\ result.status # "raised"
  /\ instance # NoInstance
  /\ stageSuccess' = FALSE
  /\ rebootRequired' = result.reboot
  /\ NextPlugin
  /\ UNCHANGED <<registry, handled>>

\* Mutant: the reboot asked for before networking is left to the later stages.
Mut_LeavePreNetworking ==
  /\ pc = "stage" /\ stage = "PRE_NETWORKING" /\ StageOver
  /\ Enter("PRE_METADATA_DISCOVERY")
  /\ UNCHANGED <<result, service, instance, machine, history, interruptions>>

LeavePreNetworking ==
  /\ pc = "stage" /\ stage = "PRE_NETWORKING" /\ StageOver
  /\ IF rebootRequired /\ AllowReboot
       THEN pc' = "finish" /\ UNCHANGED <<stage, idx, stageSuccess, rebootRequired>>
       ELSE Enter("PRE_METADATA_DISCOVERY")
  /\ UNCHANGED <<result, service, instance, machine, history, interruptions>>

LeavePreDiscovery ==
  /\ pc = "stage" /\ stage = "PRE_METADATA_DISCOVERY" /\ StageOver
  /\ pc' = IF rebootRequired /\ AllowReboot THEN "finish" ELSE "discover"
  /\ UNCHANGED <<local, machine, history, interruptions>>

LeaveMain ==
  /\ pc = "stage" /\ stage = "MAIN" /\ StageOver
  /\ pc' = "cleanup"
  /\ UNCHANGED <<local, machine, history, interruptions>>

-----------------------------------------------------------------------------
(* The rest of configure_host. *)

\* get_metadata_service: some service loads, or none does.
Discover ==
  /\ pc = "discover"
  /\ \E s \in Services \cup {NoService} :
       /\ s = NoService => "discovery" \in Faults
       /\ service' = s
       /\ pc' = IF s = NoService THEN "finish"
                ELSE IF ReportStarted THEN "announce" ELSE "identify"
  /\ UNCHANGED <<stage, idx, stageSuccess, rebootRequired, result, instance, machine,
                 history, interruptions>>

\* Only MetadataNotFoundException is caught: that of a service that cannot be made leaves
\* configure_host.
DiscoverFails ==
  /\ pc = "discover"
  /\ "discovery" \in Faults
  /\ pc' = "idle"
  /\ UNCHANGED <<local, machine, history, interruptions>>

\* An exception of provisioning_started leaves configure_host.
Announce ==
  /\ pc = "announce"
  /\ \/ reports' = reports \cup {"started"} /\ pc' = "identify"
     \/ "report" \in Faults /\ UNCHANGED reports /\ pc' = "idle"
  /\ UNCHANGED <<local, machine, ran, handled, interruptions>>

Identify ==
  /\ pc = "identify"
  /\ instance' = IF service \in Identified THEN cloud ELSE NoInstance
  /\ handled' = {}
  /\ Enter("MAIN")
  /\ UNCHANGED <<result, service, machine, ran, reports, interruptions>>

\* An exception of get_instance_id leaves configure_host, before the try that cleans up.
IdentifyFails ==
  /\ pc = "identify"
  /\ "report" \in Faults
  /\ service \in Identified
  /\ pc' = "idle"
  /\ UNCHANGED <<local, machine, history, interruptions>>

Cleanup ==
  /\ pc = "cleanup"
  /\ pc' = IF ReportCompleted /\ ~stageSuccess THEN "verdict" ELSE "finish"
  /\ UNCHANGED <<local, machine, history, interruptions>>

\* An exception of provisioning_failed is swallowed.
ReportFailure ==
  /\ pc = "verdict"
  /\ \/ reports' = reports \cup {"failed"}
     \/ "report" \in Faults /\ UNCHANGED reports
  /\ pc' = "finish"
  /\ UNCHANGED <<local, machine, ran, handled, interruptions>>

Reboot ==
  /\ pc = "finish"
  /\ rebootRequired /\ AllowReboot
  /\ \/ Gone("off")
     \/ /\ "reboot" \in Faults
        /\ pc' = "idle"
        /\ UNCHANGED <<local, handled, reports>>
  /\ UNCHANGED <<machine, ran, interruptions>>

Finish ==
  /\ pc = "finish"
  /\ ~(rebootRequired /\ AllowReboot)
  /\ \/ /\ service # NoService /\ ReportCompleted /\ stageSuccess
        /\ reports' = reports \cup {"completed"}
     \/ /\ service = NoService \/ ~ReportCompleted \/ ~stageSuccess \/ "report" \in Faults
        /\ UNCHANGED reports
  /\ pc' = IF StopOnExit THEN "stopped" ELSE "idle"
  /\ UNCHANGED <<local, machine, ran, handled, interruptions>>

\* The process is over and the machine stays up.
Rest ==
  /\ pc \in AtRest
  /\ UNCHANGED vars

-----------------------------------------------------------------------------

PluginStep ==
  \E p \in Plugins :
    \/ SkipUnsupported(p)
    \/ SkipDone(p)
    \/ Execute(p)
    \/ RecordRaised(p)
    \/ RecordUnsaved(p)
    \/ RecordSaved(p)
    \/ RecordLost(p)

ProcessStep ==
  \/ BootCompleted
  \/ PluginStep
  \/ LeavePreNetworking
  \/ LeavePreDiscovery
  \/ LeaveMain
  \/ Discover
  \/ Announce
  \/ Identify
  \/ DiscoverFails
  \/ IdentifyFails
  \/ Cleanup
  \/ ReportFailure
  \/ Reboot
  \/ Finish

Next ==
  \/ Boot
  \/ Restart
  \/ ProcessStep
  \/ PowerLoss
  \/ Kill
  \/ Clone
  \/ Rest

Spec == Init /\ [][Next]_vars

\* The machine boots after a power loss or a reboot, a killed service is restarted, and a
\* single sequential process always reaches its next statement. Nothing is assumed of the
\* interruptions.
FairSpec == Spec /\ WF_vars(Boot) /\ WF_vars(Restart) /\ WF_vars(ProcessStep)

-----------------------------------------------------------------------------
(* Properties. *)

MainPlugins == {StagePlugins["MAIN"][k] : k \in 1 .. Len(StagePlugins["MAIN"])}

\* Type invariant of the orchestrator's state.
TypeOK ==
  /\ pc \in Running \cup AtRest \cup {"off", "dead"}
  /\ stage \in Stages
  /\ idx \in 1 .. Len(StagePlugins[stage]) + 1
  /\ stageSuccess \in BOOLEAN
  /\ rebootRequired \in BOOLEAN
  /\ result \in Outcome
  /\ service \in Services \cup {NoService}
  /\ instance \in Instances \cup {NoInstance}
  /\ registry \in [Instances -> [Plugins -> Statuses \cup {"none"}]]
  /\ cloud \in Instances
  /\ settled \subseteq Plugins
  /\ rebootPending \in BOOLEAN
  /\ ran \in [Instances -> SUBSET Plugins]
  /\ handled \subseteq Plugins
  /\ reports \subseteq {"started", "failed", "completed"}
  /\ interruptions \in 0 .. MaxInterruptions

\* Once a plugin has asked for a reboot that is allowed, no further plugin of any stage is
\* executed before the machine has booted again, whatever the later statements of
\* configure_host do (a failed registry write, a refused reboot, an aborted run): a plugin
\* may rely on what the reboot puts in place. It needs the machine to restart with the
\* service, so a run with the fault "kill" cannot have it.
RebootBeforeNextPlugin ==
  [][AllowReboot /\ rebootPending => ~(pc = "stage" /\ pc' = "record")]_vars

\* A status saved under an instance id comes from a successful execution under that same
\* id: a redeployed disk does not hand its saved statuses to the new instance, and no
\* failed execution is saved.
StatusFromOwnRun ==
  \A i \in Instances, p \in Plugins : registry[i][p] # "none" => p \in ran[i]

\* Provisioning is reported as completed only when every MAIN plugin of this machine has
\* succeeded in this run or was already done, and none of them was cut off by a reboot.
CompletedIsTrue ==
  "completed" \in reports => MainPlugins \cap Supported \subseteq handled

\* Provisioning is never reported as completed, nor the service stopped, while a reboot
\* that was asked for and allowed has not happened.
NotDoneWhileRebootPending ==
  AllowReboot /\ ("completed" \in reports \/ pc = "stopped") => ~rebootPending

\* A saved DONE is final: nothing rewrites it and the plugin is never executed again
\* under that instance id, across reboots, crashes and redeployments.
DoneIsFinal ==
  [][\A i \in Instances, p \in Plugins :
       registry[i][p] = "DONE" =>
         /\ registry'[i][p] = "DONE"
         /\ ~(pc = "stage" /\ pc' = "record" /\ instance = i /\ Plugin = p)]_vars

Ledger ==
  INSTANCE PluginLedger WITH
    Ids <- Instances, Tasks <- Plugins, Nothing <- NoInstance, ledger <- registry,
    current <- IF pc = "record" /\ instance # NoInstance THEN <<instance, Plugin>>
               ELSE NoInstance

\* The orchestrator keeps the promise of PluginLedger for every instance id: executions
\* under an id come one at a time, none follows a saved DONE, and a status is saved only
\* for the execution that has just returned.
ImplementsLedger == Ledger!Spec

\* When the plugins settle (a setting in place asks for no further reboot) and the
\* interruptions end, the machine does not keep rebooting: the process comes to rest for
\* good with every supported MAIN plugin done.
Converges ==
  <>[](pc \in AtRest /\ MainPlugins \cap Supported \subseteq handled)

=============================================================================
