------------------------- MODULE InitManagerProofs -------------------------
(***************************************************************************)
(* Proofs about InitManager, for every value of its constants.              *)
(***************************************************************************)
EXTENDS InitManager, TLAPS

\* The plugins of a stage are plugins, and the loop position stays within the stage.
LEMMA PluginInStage ==
  ASSUME NEW s \in Stages, NEW k \in 1 .. Len(StagePlugins[s])
  PROVE  StagePlugins[s][k] \in Plugins
  BY ConfigAssumption

LEMMA LenInNat ==
  ASSUME NEW s \in Stages
  PROVE  Len(StagePlugins[s]) \in Nat
  BY ConfigAssumption

\* Where every stage starts, and what an empty result is.
LEMMA StageStart ==
  ASSUME NEW s \in Stages
  PROVE  1 \in 1 .. Len(StagePlugins[s]) + 1
  BY LenInNat

LEMMA NoResultIsOutcome == NoResult \in Outcome
  BY DEF NoResult, Outcome

LEMMA BoundInNat == MaxInterruptions \in Nat
  BY ConfigAssumption

\* Whatever execute() does is an Outcome.
LEMMA OutcomeOfPlugin ==
  ASSUME NEW p \in Plugins, NEW b \in BOOLEAN, NEW o \in Outcomes[p][b]
  PROVE  o \in Outcome
  BY ConfigAssumption

\* A plugin that has just been executed is one of the stage.
RecordInRange == pc = "record" => idx <= Len(StagePlugins[stage])

TypeInv == TypeOK /\ RecordInRange

LEMMA InitTypeInv == Init => TypeInv
<1> SUFFICES ASSUME Init PROVE TypeInv
  OBVIOUS
<1>1. stage \in Stages /\ idx \in 1 .. Len(StagePlugins[stage]) + 1
  BY StageStart DEF Init, Stages
<1>2. result \in Outcome
  BY NoResultIsOutcome DEF Init
<1>3. registry \in [Instances -> [Plugins -> Statuses \cup {"none"}]]
  BY DEF Init
<1>4. ran \in [Instances -> SUBSET Plugins]
  BY DEF Init
<1>5. interruptions \in 0 .. MaxInterruptions
  BY BoundInNat DEF Init
<1>6. QED
  BY <1>1, <1>2, <1>3, <1>4, <1>5 DEF Init, TypeInv, TypeOK, RecordInRange

LEMMA GoneTypeInv ==
  ASSUME TypeInv, NEW w \in {"off", "dead"}, Gone(w),
         UNCHANGED <<registry, cloud, settled, rebootPending, ran>>,
         interruptions' \in 0 .. MaxInterruptions
  PROVE  TypeInv'
<1>1. stage' \in Stages /\ (idx \in 1 .. Len(StagePlugins[stage]) + 1)'
  BY StageStart DEF Gone, Stages
<1>2. result' \in Outcome
  BY NoResultIsOutcome DEF Gone
<1>3. QED
  BY <1>1, <1>2 DEF Gone, TypeInv, TypeOK, RecordInRange

\* The steps that end the work on one plugin and move on to the next one.
LEMMA AdvanceTypeInv ==
  ASSUME TypeInv, pc' = "stage", stage' = stage,
         idx <= Len(StagePlugins[stage]), idx' = idx + 1,
         stageSuccess' \in BOOLEAN, rebootRequired' \in BOOLEAN, result' \in Outcome,
         handled' \subseteq Plugins,
         registry' \in [Instances -> [Plugins -> Statuses \cup {"none"}]],
         UNCHANGED <<service, instance, cloud, settled, rebootPending, ran, reports,
                     interruptions>>
  PROVE  TypeInv'
<1> USE DEF TypeInv, TypeOK, RecordInRange
<1>1. Len(StagePlugins[stage]) \in Nat
  BY LenInNat
<1>2. (idx \in 1 .. Len(StagePlugins[stage]) + 1)'
  BY <1>1
<1>3. QED
  BY <1>2 DEF Running

LEMMA PluginStepTypeInv ==
  ASSUME TypeInv, NEW p \in Plugins,
         \/ SkipUnsupported(p) \/ SkipDone(p) \/ Execute(p) \/ RecordRaised(p)
         \/ RecordUnsaved(p) \/ RecordSaved(p) \/ RecordLost(p)
  PROVE  TypeInv'
<1> USE DEF TypeInv, TypeOK, RecordInRange
<1>0. Len(StagePlugins[stage]) \in Nat /\ NoResult \in Outcome
  BY LenInNat, NoResultIsOutcome
<1>1. CASE SkipUnsupported(p)
  BY <1>0, <1>1 DEF SkipUnsupported, AtPlugin, StageOver, machine, history
<1>2. CASE SkipDone(p)
  <2>1. pc = "stage" /\ idx <= Len(StagePlugins[stage])
    BY <1>0, <1>2 DEF SkipDone, AtPlugin, StageOver
  <2>2. handled' \subseteq Plugins /\ rebootRequired' \in BOOLEAN
    BY <1>2 DEF SkipDone
  <2>3. QED
    BY <1>2, <2>1, <2>2, AdvanceTypeInv DEF SkipDone, machine
<1>3. CASE Execute(p)
  <2>1. PICK o \in Outcomes[p][(p \in settled)] :
          /\ result' = o
          /\ rebootPending' = (rebootPending \/ (o.status # "raised" /\ o.reboot))
          /\ \/ settled' = settled \cup {p}
             \/ o.status = "raised" /\ settled' = settled
          /\ ran' = IF o.status = "raised" \/ instance = NoInstance THEN ran
                    ELSE [ran EXCEPT ![instance] = @ \cup {p}]
    BY <1>3 DEF Execute
  <2>2. o \in Outcome
    <3>1. (p \in settled) \in BOOLEAN
      OBVIOUS
    <3>2. QED
      BY <2>1, <3>1, OutcomeOfPlugin, Zenon
  <2>3. rebootPending' \in BOOLEAN /\ settled' \subseteq Plugins
    BY <2>1
  <2>4. ran' \in [Instances -> SUBSET Plugins]
    BY <2>1
  <2>5. QED
    BY <1>0, <1>3, <2>1, <2>2, <2>3, <2>4
       DEF Execute, AtPlugin, StageOver, Running
<1>4. CASE RecordRaised(p)
  <2>1. stageSuccess' \in BOOLEAN /\ rebootRequired' \in BOOLEAN /\ handled' \subseteq Plugins
    BY <1>4 DEF RecordRaised, Outcome
  <2>2. registry' \in [Instances -> [Plugins -> Statuses \cup {"none"}]]
    BY <1>4 DEF RecordRaised
  <2>3. QED
    BY <1>0, <1>4, <2>1, <2>2, AdvanceTypeInv DEF RecordRaised, NextPlugin
<1>5. CASE RecordUnsaved(p)
  <2>1. stageSuccess' \in BOOLEAN /\ rebootRequired' \in BOOLEAN /\ handled' \subseteq Plugins
    BY <1>5 DEF RecordUnsaved, Outcome
  <2>2. registry' \in [Instances -> [Plugins -> Statuses \cup {"none"}]]
    BY <1>5 DEF RecordUnsaved
  <2>3. QED
    BY <1>0, <1>5, <2>1, <2>2, AdvanceTypeInv DEF RecordUnsaved, NextPlugin
<1>6. CASE RecordSaved(p)
  <2>1. stageSuccess' \in BOOLEAN /\ rebootRequired' \in BOOLEAN /\ handled' \subseteq Plugins
    BY <1>6 DEF RecordSaved, Outcome
  <2>2. registry' \in [Instances -> [Plugins -> Statuses \cup {"none"}]]
    <3>1. result.status \in Statuses /\ instance \in Instances
      BY <1>6 DEF RecordSaved, Outcome
    <3>2. QED
      BY <1>6, <3>1 DEF RecordSaved
  <2>3. QED
    BY <1>0, <1>6, <2>1, <2>2, AdvanceTypeInv DEF RecordSaved, NextPlugin
<1>7. CASE RecordLost(p)
  <2>1. stageSuccess' \in BOOLEAN /\ rebootRequired' \in BOOLEAN /\ handled' \subseteq Plugins
    BY <1>7 DEF RecordLost, Outcome
  <2>2. registry' \in [Instances -> [Plugins -> Statuses \cup {"none"}]]
    BY <1>7 DEF RecordLost
  <2>3. QED
    BY <1>0, <1>7, <2>1, <2>2, AdvanceTypeInv DEF RecordLost, NextPlugin
<1>8. QED
  BY <1>1, <1>2, <1>3, <1>4, <1>5, <1>6, <1>7

LEMMA ProcessStepTypeInv ==
  ASSUME TypeInv, ProcessStep
  PROVE  TypeInv'
<1> USE DEF TypeInv, TypeOK, RecordInRange, Running, AtRest, local, machine, history
<1>0. \A s \in Stages : Len(StagePlugins[s]) \in Nat /\ 1 \in 1 .. Len(StagePlugins[s]) + 1
  BY LenInNat, StageStart
<1>1. CASE BootCompleted
  BY <1>0, <1>1 DEF BootCompleted, Enter, Stages
<1>2. CASE PluginStep
  BY <1>2, PluginStepTypeInv DEF PluginStep
<1>3. CASE LeavePreNetworking
  BY <1>0, <1>3 DEF LeavePreNetworking, Enter, Stages
<1>4. CASE LeavePreDiscovery
  BY <1>0, <1>4 DEF LeavePreDiscovery
<1>5. CASE LeaveMain
  BY <1>0, <1>5 DEF LeaveMain
<1>6. CASE Discover
  BY <1>0, <1>6 DEF Discover
<1>7. CASE Announce
  BY <1>0, <1>7 DEF Announce
<1>8. CASE Identify
  BY <1>0, <1>8 DEF Identify, Enter, Stages
<1>9. CASE IdentifyFails \/ DiscoverFails
  BY <1>0, <1>9 DEF IdentifyFails, DiscoverFails
<1>10. CASE Cleanup
  BY <1>0, <1>10 DEF Cleanup
<1>11. CASE ReportFailure
  BY <1>0, <1>11 DEF ReportFailure
<1>12. CASE Reboot
  <2>1. CASE Gone("off") /\ UNCHANGED <<machine, ran, interruptions>>
    BY <2>1, GoneTypeInv
  <2>2. CASE pc' = "idle" /\ UNCHANGED <<local, handled, reports, machine, ran, interruptions>>
    BY <2>2
  <2>3. QED
    BY <1>12, <2>1, <2>2 DEF Reboot
<1>13. CASE Finish
  BY <1>0, <1>13 DEF Finish
<1>14. QED
  BY <1>1, <1>2, <1>3, <1>4, <1>5, <1>6, <1>7, <1>8, <1>9, <1>10, <1>11, <1>12, <1>13
     DEF ProcessStep

LEMMA NextTypeInv ==
  ASSUME TypeInv, [Next]_vars
  PROVE  TypeInv'
<1> USE DEF local, machine, history
<1>1. CASE Boot
  BY <1>1 DEF Boot, TypeInv, TypeOK, RecordInRange, Running
<1>2. CASE Restart
  BY <1>2 DEF Restart, TypeInv, TypeOK, RecordInRange, Running
<1>3. CASE ProcessStep
  BY <1>3, ProcessStepTypeInv
<1>4. CASE PowerLoss
  <2>1. interruptions' \in 0 .. MaxInterruptions
    BY <1>4, BoundInNat DEF PowerLoss, Interrupted, TypeInv, TypeOK
  <2>2. QED
    BY <1>4, <2>1, GoneTypeInv DEF PowerLoss
<1>5. CASE Kill
  <2>1. interruptions' \in 0 .. MaxInterruptions
    BY <1>5, BoundInNat DEF Kill, Interrupted, TypeInv, TypeOK
  <2>2. QED
    BY <1>5, <2>1, GoneTypeInv DEF Kill
<1>6. CASE Clone
  BY <1>6, BoundInNat DEF Clone, Interrupted, TypeInv, TypeOK, RecordInRange
<1>7. CASE Rest \/ UNCHANGED vars
  BY <1>7 DEF Rest, vars, TypeInv, TypeOK, RecordInRange
<1>8. QED
  BY <1>1, <1>2, <1>3, <1>4, <1>5, <1>6, <1>7 DEF Next

\* Every reachable state of the orchestrator is well typed.
THEOREM TypeCorrect == Spec => []TypeOK
<1>1. Spec => []TypeInv
  BY InitTypeInv, NextTypeInv, PTL DEF Spec
<1>2. QED
  BY <1>1, PTL DEF TypeInv

-----------------------------------------------------------------------------
(* Saved statuses. *)

\* An execution that returned under an instance id is remembered before it is saved, and
\* was not preceded by a saved DONE.
LedgerInv ==
  /\ StatusFromOwnRun
  /\ pc = "record" /\ instance # NoInstance =>
       /\ result.status # "raised" => Plugin \in ran[instance]
       /\ registry[instance][Plugin] # "DONE"

LEMMA InitLedgerInv == Init => LedgerInv
  BY DEF Init, LedgerInv, StatusFromOwnRun

\* Steps that are not about plugins under an instance id.
LEMMA StutterLedgerInv ==
  ASSUME LedgerInv, UNCHANGED <<registry, ran>>, pc' # "record"
  PROVE  LedgerInv'
  BY DEF LedgerInv, StatusFromOwnRun

LEMMA ExecuteLedgerInv ==
  ASSUME TypeInv, LedgerInv, NEW p \in Plugins, Execute(p)
  PROVE  LedgerInv'
<1> USE DEF TypeInv, TypeOK
<1>1. PICK o : /\ result' = o
               /\ ran' = IF o.status = "raised" \/ instance = NoInstance THEN ran
                         ELSE [ran EXCEPT ![instance] = @ \cup {p}]
  BY DEF Execute
<1>2. /\ registry' = registry /\ instance' = instance /\ Plugin' = p
      /\ SavedStatus(p) # "DONE"
  BY DEF Execute, AtPlugin, Plugin
<1>3. \A i \in Instances : ran[i] \subseteq ran'[i]
  BY <1>1
<1>4. StatusFromOwnRun'
  BY <1>2, <1>3 DEF LedgerInv, StatusFromOwnRun
<1>5. instance # NoInstance => registry[instance][p] # "DONE"
  BY <1>2 DEF SavedStatus
<1>6. instance # NoInstance /\ result'.status # "raised" => p \in ran'[instance]
  BY <1>1
<1>7. QED
  BY <1>2, <1>4, <1>5, <1>6 DEF LedgerInv

LEMMA RecordSavedLedgerInv ==
  ASSUME TypeInv, LedgerInv, NEW p \in Plugins, RecordSaved(p)
  PROVE  LedgerInv'
<1> USE DEF TypeInv, TypeOK
<1>1. /\ instance \in Instances /\ p \in ran[instance] /\ ran' = ran
      /\ registry' = [registry EXCEPT ![instance][p] = result.status]
      /\ pc' = "stage"
  BY DEF RecordSaved, NextPlugin, LedgerInv
<1>2. StatusFromOwnRun'
  <2>1. SUFFICES ASSUME NEW i \in Instances, NEW q \in Plugins, registry'[i][q] # "none"
                 PROVE  q \in ran[i]
    BY <1>1 DEF StatusFromOwnRun
  <2>2. CASE i = instance /\ q = p
    BY <1>1, <2>2
  <2>3. CASE ~(i = instance /\ q = p)
    BY <1>1, <2>1, <2>3 DEF LedgerInv, StatusFromOwnRun
  <2>4. QED
    BY <2>2, <2>3
<1>3. QED
  BY <1>1, <1>2 DEF LedgerInv

LEMMA NextLedgerInv ==
  ASSUME TypeInv, LedgerInv, [Next]_vars
  PROVE  LedgerInv'
<1> USE DEF machine, history, local
<1>1. ASSUME NEW p \in Plugins, SkipUnsupported(p) \/ SkipDone(p)
      PROVE  LedgerInv'
  BY <1>1, StutterLedgerInv DEF SkipUnsupported, SkipDone, AtPlugin
<1>2. ASSUME NEW p \in Plugins, RecordRaised(p) \/ RecordUnsaved(p) \/ RecordLost(p)
      PROVE  LedgerInv'
  BY <1>2, StutterLedgerInv DEF RecordRaised, RecordUnsaved, RecordLost, NextPlugin
<1>3. CASE PluginStep
  BY <1>1, <1>2, <1>3, ExecuteLedgerInv, RecordSavedLedgerInv DEF PluginStep
<1>4. CASE BootCompleted \/ LeavePreNetworking \/ LeavePreDiscovery \/ LeaveMain
  BY <1>4, StutterLedgerInv
     DEF BootCompleted, LeavePreNetworking, LeavePreDiscovery, LeaveMain, Enter
<1>5. CASE Discover \/ DiscoverFails \/ Announce \/ Identify \/ IdentifyFails
  BY <1>5, StutterLedgerInv DEF Discover, DiscoverFails, Announce, Identify, IdentifyFails, Enter
<1>6. CASE Cleanup \/ ReportFailure \/ Reboot \/ Finish
  BY <1>6, StutterLedgerInv DEF Cleanup, ReportFailure, Reboot, Finish, Gone
<1>7. CASE Boot \/ Restart \/ PowerLoss \/ Kill \/ Clone
  BY <1>7, StutterLedgerInv DEF Boot, Restart, PowerLoss, Kill, Clone, Gone
<1>8. CASE Rest \/ UNCHANGED vars
  BY <1>8 DEF Rest, vars, LedgerInv, StatusFromOwnRun, Plugin
<1>9. QED
  BY <1>3, <1>4, <1>5, <1>6, <1>7, <1>8 DEF Next, ProcessStep

\* A saved status comes from a successful execution under its own instance id.
THEOREM SavedStatusesAreOwn == Spec => []StatusFromOwnRun
<1>1. Spec => [](TypeInv /\ LedgerInv)
  BY InitTypeInv, NextTypeInv, InitLedgerInv, NextLedgerInv, PTL DEF Spec
<1>2. QED
  BY <1>1, PTL DEF LedgerInv

\* Only RecordSaved writes the registry, and only Execute starts a plugin.
LEMMA WhoWrites ==
  ASSUME [Next]_vars
  PROVE  /\ registry' # registry => \E p \in Plugins : RecordSaved(p)
         /\ pc = "stage" /\ pc' = "record" => \E p \in Plugins : Execute(p)
<1> USE DEF machine, history, local
<1>1. CASE PluginStep
  <2>1. PICK p \in Plugins :
          \/ SkipUnsupported(p) \/ SkipDone(p) \/ RecordRaised(p) \/ RecordUnsaved(p)
             \/ RecordLost(p)
          \/ Execute(p)
          \/ RecordSaved(p)
    BY <1>1 DEF PluginStep
  <2>2. CASE SkipUnsupported(p) \/ SkipDone(p) \/ RecordRaised(p) \/ RecordUnsaved(p)
             \/ RecordLost(p)
    BY <2>2 DEF SkipUnsupported, SkipDone, AtPlugin, RecordRaised, RecordUnsaved,
                RecordLost, NextPlugin
  <2>3. CASE Execute(p)
    BY <2>3 DEF Execute
  <2>4. CASE RecordSaved(p)
    BY <2>4 DEF RecordSaved, NextPlugin
  <2>5. QED
    BY <2>1, <2>2, <2>3, <2>4
<1>2. CASE BootCompleted \/ LeavePreNetworking \/ LeavePreDiscovery \/ LeaveMain
  BY <1>2 DEF BootCompleted, LeavePreNetworking, LeavePreDiscovery, LeaveMain, Enter
<1>3. CASE Discover \/ DiscoverFails \/ Announce \/ Identify \/ IdentifyFails
  BY <1>3 DEF Discover, DiscoverFails, Announce, Identify, IdentifyFails, Enter
<1>4. CASE Cleanup \/ ReportFailure \/ Reboot \/ Finish
  BY <1>4 DEF Cleanup, ReportFailure, Reboot, Finish, Gone
<1>5. CASE Boot \/ Restart \/ PowerLoss \/ Kill \/ Clone
  BY <1>5 DEF Boot, Restart, PowerLoss, Kill, Clone, Gone
<1>6. CASE Rest \/ UNCHANGED vars
  BY <1>6 DEF Rest, vars
<1>7. QED
  BY <1>1, <1>2, <1>3, <1>4, <1>5, <1>6 DEF Next, ProcessStep

\* A saved DONE is never rewritten, and its plugin never executed again under that id.
THEOREM DoneForever == Spec => DoneIsFinal
<1>1. ASSUME TypeInv, LedgerInv, [Next]_vars,
             NEW i \in Instances, NEW p \in Plugins, registry[i][p] = "DONE"
      PROVE  /\ registry'[i][p] = "DONE"
             /\ ~(pc = "stage" /\ pc' = "record" /\ instance = i /\ Plugin = p)
  <2> USE DEF TypeInv, TypeOK
  <2>1. ASSUME registry' # registry
        PROVE  registry'[i][p] = "DONE"
    <3>1. PICK q \in Plugins : RecordSaved(q)
      BY <1>1, <2>1, WhoWrites
    <3>2. /\ instance \in Instances /\ registry[instance][q] # "DONE"
          /\ registry' = [registry EXCEPT ![instance][q] = result.status]
      BY <1>1, <3>1 DEF RecordSaved, LedgerInv
    <3>3. ~(instance = i /\ q = p)
      BY <1>1, <3>2
    <3>4. QED
      BY <1>1, <3>2, <3>3
  <2>2. ASSUME pc = "stage", pc' = "record", instance = i, Plugin = p
        PROVE  FALSE
    <3>1. PICK q \in Plugins : Execute(q)
      BY <1>1, <2>2, WhoWrites
    <3>2. q = p /\ SavedStatus(q) # "DONE"
      BY <2>2, <3>1 DEF Execute, AtPlugin
    <3>3. instance # NoInstance
      BY <2>2, ConfigAssumption
    <3>4. QED
      BY <1>1, <2>2, <3>2, <3>3 DEF SavedStatus
  <2>3. QED
    BY <1>1, <2>1, <2>2
<1>2. TypeInv /\ LedgerInv /\ [Next]_vars =>
        [\A i \in Instances, p \in Plugins :
           registry[i][p] = "DONE" =>
             /\ registry'[i][p] = "DONE"
             /\ ~(pc = "stage" /\ pc' = "record" /\ instance = i /\ Plugin = p)]_vars
  BY <1>1
<1>3. QED
  BY <1>2, InitTypeInv, NextTypeInv, InitLedgerInv, NextLedgerInv, PTL DEF Spec, DoneIsFinal

-----------------------------------------------------------------------------
(* The orchestrator implements PluginLedger. *)

Current == IF pc = "record" /\ instance # NoInstance THEN <<instance, Plugin>> ELSE NoInstance

\* A step that ends an execution without saving it.
LEMMA ForgettingStep ==
  ASSUME registry' = registry, Current' = NoInstance
  PROVE  [Ledger!Next]_(Ledger!vars)
  BY DEF Ledger!Next, Ledger!Forget, Ledger!vars, Current

LEMMA LedgerStep ==
  ASSUME TypeInv, LedgerInv, [Next]_vars
  PROVE  [Ledger!Next]_(Ledger!vars)
<1> USE DEF machine, history, local
<1>1. ASSUME NEW p \in Plugins, Execute(p)
      PROVE  [Ledger!Next]_(Ledger!vars)
  <2>1. /\ registry' = registry /\ instance' = instance /\ Plugin' = p /\ Plugin = p
        /\ pc = "stage" /\ pc' = "record" /\ SavedStatus(p) # "DONE"
    BY <1>1 DEF Execute, AtPlugin, Plugin
  <2>2. CASE instance = NoInstance
    BY <2>1, <2>2, ForgettingStep DEF Current
  <2>3. CASE instance # NoInstance
    <3>1. instance \in Instances
      BY <2>3 DEF TypeInv, TypeOK
    <3>2. Ledger!Begin(instance, p)
      BY <2>1, <2>3 DEF Ledger!Begin, SavedStatus
    <3>3. QED
      BY <3>1, <3>2 DEF Ledger!Next
  <2>4. QED
    BY <2>2, <2>3
<1>2. ASSUME NEW p \in Plugins, RecordSaved(p)
      PROVE  [Ledger!Next]_(Ledger!vars)
  <2>1. /\ instance \in Instances /\ result.status \in {"DONE", "NEXT_BOOT"}
        /\ pc = "record" /\ pc' = "stage" /\ Plugin = p /\ instance # NoInstance
        /\ registry' = [registry EXCEPT ![instance][p] = result.status]
    BY <1>2 DEF RecordSaved, NextPlugin, TypeInv, TypeOK, Outcome, Statuses
  <2>2. Ledger!Save(instance, p, result.status)
    BY <2>1 DEF Ledger!Save
  <2>3. QED
    BY <2>1, <2>2 DEF Ledger!Next
<1>3. ASSUME NEW p \in Plugins,
             SkipUnsupported(p) \/ SkipDone(p) \/ RecordRaised(p) \/ RecordUnsaved(p)
               \/ RecordLost(p)
      PROVE  [Ledger!Next]_(Ledger!vars)
  BY <1>3, ForgettingStep
     DEF SkipUnsupported, SkipDone, AtPlugin, RecordRaised, RecordUnsaved, RecordLost,
         NextPlugin, Current
<1>4. CASE PluginStep
  BY <1>1, <1>2, <1>3, <1>4 DEF PluginStep
<1>5. CASE BootCompleted \/ LeavePreNetworking \/ LeavePreDiscovery \/ LeaveMain
  BY <1>5, ForgettingStep
     DEF BootCompleted, LeavePreNetworking, LeavePreDiscovery, LeaveMain, Enter, Current
<1>6. CASE Discover \/ DiscoverFails \/ Announce \/ Identify \/ IdentifyFails
  BY <1>6, ForgettingStep DEF Discover, DiscoverFails, Announce, Identify, IdentifyFails, Enter, Current
<1>7. CASE Cleanup \/ ReportFailure \/ Reboot \/ Finish
  BY <1>7, ForgettingStep DEF Cleanup, ReportFailure, Reboot, Finish, Gone, Current
<1>8. CASE Boot \/ Restart \/ PowerLoss \/ Kill \/ Clone
  BY <1>8, ForgettingStep DEF Boot, Restart, PowerLoss, Kill, Clone, Gone, Current
<1>9. CASE Rest \/ UNCHANGED vars
  BY <1>9 DEF Rest, vars, Ledger!vars, Plugin
<1>10. QED
  BY <1>4, <1>5, <1>6, <1>7, <1>8, <1>9 DEF Next, ProcessStep

\* Every behaviour of the orchestrator is, through the registry, one of PluginLedger.
THEOREM Refinement == Spec => ImplementsLedger
<1>1. Init => Ledger!Init
  BY DEF Init, Ledger!Init
<1>2. QED
  BY <1>1, LedgerStep, InitTypeInv, NextTypeInv, InitLedgerInv, NextLedgerInv, PTL
     DEF Spec, ImplementsLedger, Ledger!Spec

-----------------------------------------------------------------------------
(* The verdict reported to the metadata service. *)

\* The MAIN plugins before the loop position were handled, as long as none failed.
HandledInv ==
  stage = "MAIN" /\ stageSuccess =>
    \A k \in 1 .. idx - 1 :
      StagePlugins["MAIN"][k] \in Supported => StagePlugins["MAIN"][k] \in handled

\* Where a run can be, given what it has found and reported.
FlowInv ==
  /\ pc \in {"stage", "record"} /\ stage # "MAIN" => service = NoService
  /\ pc \in {"boot", "discover"} => service = NoService
  /\ pc \in {"cleanup", "verdict"} => stage = "MAIN" /\ StageOver
  /\ pc = "finish" /\ service # NoService => stage = "MAIN" /\ StageOver
  /\ pc \in {"off", "dead"} => service = NoService /\ stage # "MAIN"
  /\ pc \in {"boot", "discover", "announce", "identify"} => stage # "MAIN"
  /\ pc = "verdict" => ~stageSuccess

ReportInv ==
  "completed" \in reports =>
    pc \in AtRest /\ stageSuccess /\ MainPlugins \cap Supported \subseteq handled

VerdictInv == HandledInv /\ FlowInv /\ ReportInv

LEMMA InitVerdictInv == Init => VerdictInv
  BY DEF Init, VerdictInv, HandledInv, FlowInv, ReportInv

LEMMA GoneVerdictInv ==
  ASSUME NEW w \in {"off", "dead"}, Gone(w)
  PROVE  VerdictInv'
  BY DEF Gone, VerdictInv, HandledInv, FlowInv, ReportInv

\* A step of the loop moves on by one; the plugin it leaves behind was handled if it was
\* one to handle and the stage is still successful.
LEMMA AdvanceVerdictInv ==
  ASSUME TypeInv, VerdictInv, pc \in {"stage", "record"}, pc' = "stage",
         idx <= Len(StagePlugins[stage]), idx' = idx + 1,
         stageSuccess' => stageSuccess,
         handled \subseteq handled',
         stageSuccess' /\ Plugin \in Supported => Plugin \in handled',
         UNCHANGED <<stage, service, reports>>
  PROVE  VerdictInv'
<1> USE DEF TypeInv, TypeOK
<1>1. idx \in Nat
  OBVIOUS
<1>2. HandledInv'
  <2>1. SUFFICES ASSUME stage = "MAIN", stageSuccess', NEW k \in 1 .. idx,
                        StagePlugins["MAIN"][k] \in Supported
                 PROVE  StagePlugins["MAIN"][k] \in handled'
    BY <1>1 DEF HandledInv
  <2>2. CASE k = idx
    BY <2>1, <2>2 DEF Plugin
  <2>3. CASE k # idx
    BY <1>1, <2>1, <2>3 DEF VerdictInv, HandledInv
  <2>4. QED
    BY <2>2, <2>3
<1>3. FlowInv'
  BY DEF VerdictInv, FlowInv
<1>4. ReportInv'
  BY DEF VerdictInv, ReportInv, AtRest
<1>5. QED
  BY <1>2, <1>3, <1>4 DEF VerdictInv

LEMMA PluginStepVerdictInv ==
  ASSUME TypeInv, VerdictInv, NEW p \in Plugins,
         \/ SkipUnsupported(p) \/ SkipDone(p) \/ Execute(p) \/ RecordRaised(p)
         \/ RecordUnsaved(p) \/ RecordSaved(p) \/ RecordLost(p)
  PROVE  VerdictInv'
<1> USE DEF machine, history
<1>0. idx \in Nat /\ Len(StagePlugins[stage]) \in Nat
  BY LenInNat DEF TypeInv, TypeOK
<1>1. CASE SkipUnsupported(p)
  <2>1. pc = "stage" /\ pc' = "stage" /\ Plugin = p /\ idx <= Len(StagePlugins[stage])
    BY <1>0, <1>1 DEF SkipUnsupported, AtPlugin, StageOver
  <2>2. QED
    BY <1>1, <2>1, AdvanceVerdictInv DEF SkipUnsupported
<1>2. CASE SkipDone(p)
  <2>1. pc = "stage" /\ pc' = "stage" /\ Plugin = p /\ idx <= Len(StagePlugins[stage])
    BY <1>0, <1>2 DEF SkipDone, AtPlugin, StageOver
  <2>2. QED
    BY <1>2, <2>1, AdvanceVerdictInv DEF SkipDone
<1>3. CASE Execute(p)
  BY <1>3 DEF Execute, AtPlugin, VerdictInv, HandledInv, FlowInv, ReportInv, AtRest
<1>4. CASE RecordRaised(p) \/ RecordLost(p)
  BY <1>4, AdvanceVerdictInv DEF RecordRaised, RecordLost, NextPlugin, TypeInv, RecordInRange
<1>5. CASE RecordUnsaved(p)
  BY <1>5, AdvanceVerdictInv DEF RecordUnsaved, NextPlugin, TypeInv, RecordInRange
<1>6. CASE RecordSaved(p)
  BY <1>6, AdvanceVerdictInv DEF RecordSaved, NextPlugin, TypeInv, RecordInRange
<1>7. QED
  BY <1>1, <1>2, <1>3, <1>4, <1>5, <1>6

LEMMA NextVerdictInv ==
  ASSUME TypeInv, VerdictInv, [Next]_vars
  PROVE  VerdictInv'
<1> USE DEF machine, history, local, VerdictInv, HandledInv, FlowInv, ReportInv, AtRest
<1>1. CASE PluginStep
  BY <1>1, PluginStepVerdictInv DEF PluginStep
<1>2. CASE BootCompleted
  BY <1>2 DEF BootCompleted, Enter
<1>3. CASE LeavePreNetworking
  BY <1>3 DEF LeavePreNetworking, Enter
<1>4. CASE LeavePreDiscovery
  BY <1>4 DEF LeavePreDiscovery
<1>5. CASE LeaveMain
  BY <1>5 DEF LeaveMain, StageOver
<1>6. CASE Discover
  BY <1>6 DEF Discover
<1>7. CASE Announce
  BY <1>7 DEF Announce
<1>8. CASE Identify
  BY <1>8 DEF Identify, Enter
<1>9. CASE IdentifyFails \/ DiscoverFails
  BY <1>9 DEF IdentifyFails, DiscoverFails
<1>10. CASE Cleanup
  BY <1>10 DEF Cleanup, StageOver
<1>11. CASE ReportFailure
  BY <1>11 DEF ReportFailure, StageOver
<1>12. CASE Reboot
  <2>1. CASE Gone("off")
    BY <2>1, GoneVerdictInv
  <2>2. CASE pc' = "idle" /\ UNCHANGED <<local, handled, reports>>
    BY <2>2, <1>12
  <2>3. QED
    BY <1>12, <2>1, <2>2 DEF Reboot
<1>13. CASE Finish
  <2>1. CASE reports' = reports
    BY <1>13, <2>1 DEF Finish
  <2>2. CASE /\ service # NoService /\ stageSuccess
             /\ reports' = reports \cup {"completed"}
    <3>1. stage = "MAIN" /\ idx > Len(StagePlugins["MAIN"])
      BY <1>13, <2>2 DEF Finish, StageOver
    <3>2. idx \in Nat /\ Len(StagePlugins["MAIN"]) \in Nat
      BY <3>1, LenInNat DEF TypeInv, TypeOK
    <3>3. MainPlugins \cap Supported \subseteq handled
      BY <2>2, <3>1, <3>2 DEF MainPlugins
    <3>4. QED
      BY <1>13, <2>2, <3>3 DEF Finish, StageOver, MainPlugins
  <2>3. QED
    BY <1>13, <2>1, <2>2 DEF Finish
<1>14. CASE Boot \/ Restart \/ Clone
  BY <1>14 DEF Boot, Restart, Clone
<1>15. CASE PowerLoss \/ Kill
  BY <1>15, GoneVerdictInv DEF PowerLoss, Kill
<1>16. CASE Rest \/ UNCHANGED vars
  BY <1>16 DEF Rest, vars, StageOver
<1>17. QED
  BY <1>1, <1>2, <1>3, <1>4, <1>5, <1>6, <1>7, <1>8, <1>9, <1>10, <1>11, <1>12, <1>13,
     <1>14, <1>15, <1>16 DEF Next, ProcessStep

\* A completed report is true.
THEOREM CompletedReportsAreTrue == Spec => []CompletedIsTrue
<1>1. Spec => [](TypeInv /\ VerdictInv)
  BY InitTypeInv, NextTypeInv, InitVerdictInv, NextVerdictInv, PTL DEF Spec
<1>2. VerdictInv => CompletedIsTrue
  BY DEF VerdictInv, ReportInv, CompletedIsTrue
<1>3. QED
  BY <1>1, <1>2, PTL

-----------------------------------------------------------------------------
(* Pending reboots, on a machine that restarts together with the service. *)

\* Where an allowed reboot that was asked for is still remembered by the process, or has
\* become the business of whoever restarts the machine.
PendingInv ==
  AllowReboot /\ rebootPending =>
    \/ pc = "record" /\ result.status # "raised" /\ result.reboot
    \/ pc \in {"stage", "cleanup", "verdict", "finish"} /\ rebootRequired
    \/ pc \in {"idle", "off"} /\ "completed" \notin reports

LEMMA InitPendingInv == Init => PendingInv
  BY DEF Init, PendingInv

LEMMA PluginStepPendingInv ==
  ASSUME PendingInv, NEW p \in Plugins,
         \/ SkipUnsupported(p) \/ SkipDone(p) \/ Execute(p) \/ RecordRaised(p)
         \/ RecordUnsaved(p) \/ RecordSaved(p) \/ RecordLost(p)
  PROVE  PendingInv'
<1> USE DEF machine, history, PendingInv
<1>1. CASE SkipUnsupported(p)
  BY <1>1 DEF SkipUnsupported, AtPlugin, StageOver
<1>2. CASE SkipDone(p)
  BY <1>2 DEF SkipDone, AtPlugin, StageOver
<1>3. CASE Execute(p)
  BY <1>3 DEF Execute, AtPlugin, StageOver
<1>4. CASE RecordRaised(p)
  BY <1>4 DEF RecordRaised, NextPlugin
<1>5. CASE RecordUnsaved(p)
  BY <1>5 DEF RecordUnsaved, NextPlugin
<1>6. CASE RecordSaved(p)
  BY <1>6 DEF RecordSaved, NextPlugin
<1>7. CASE RecordLost(p)
  BY <1>7 DEF RecordLost, NextPlugin
<1>8. QED
  BY <1>1, <1>2, <1>3, <1>4, <1>5, <1>6, <1>7

LEMMA NextPendingInv ==
  ASSUME "kill" \notin Faults, VerdictInv, PendingInv, [Next]_vars
  PROVE  PendingInv'
<1> USE DEF machine, history, local, PendingInv
<1>1. CASE PluginStep
  BY <1>1, PluginStepPendingInv DEF PluginStep
<1>2. CASE BootCompleted
  BY <1>2 DEF BootCompleted, Enter
<1>3. CASE LeavePreNetworking
  BY <1>3 DEF LeavePreNetworking, Enter
<1>4. CASE LeavePreDiscovery \/ LeaveMain
  BY <1>4 DEF LeavePreDiscovery, LeaveMain
<1>5. CASE Discover \/ DiscoverFails \/ Announce \/ Identify \/ IdentifyFails
  BY <1>5 DEF Discover, DiscoverFails, Announce, Identify, IdentifyFails, Enter
<1>6. CASE Cleanup \/ ReportFailure
  BY <1>6 DEF Cleanup, ReportFailure
<1>7. CASE Reboot
  <2>1. CASE Gone("off")
    BY <1>7, <2>1 DEF Reboot, Gone
  <2>2. CASE pc' = "idle" /\ UNCHANGED <<local, handled, reports>>
    BY <1>7, <2>2 DEF Reboot, VerdictInv, ReportInv, AtRest
  <2>3. QED
    BY <1>7, <2>1, <2>2 DEF Reboot
<1>8. CASE Finish
  BY <1>8 DEF Finish
<1>9. CASE Boot \/ Clone
  BY <1>9 DEF Boot, Clone
<1>10. CASE Restart
  BY <1>10 DEF Restart
<1>11. CASE PowerLoss
  BY <1>11 DEF PowerLoss, Gone
<1>12. CASE Kill
  BY <1>12 DEF Kill, Interrupted
<1>13. CASE Rest \/ UNCHANGED vars
  BY <1>13 DEF Rest, vars
<1>14. QED
  BY <1>1, <1>2, <1>3, <1>4, <1>5, <1>6, <1>7, <1>8, <1>9, <1>10, <1>11, <1>12, <1>13
     DEF Next, ProcessStep

LEMMA PendingAlways ==
  ASSUME "kill" \notin Faults
  PROVE  Spec => [](TypeInv /\ VerdictInv /\ PendingInv)
<1>1. TypeInv /\ VerdictInv /\ PendingInv /\ [Next]_vars => PendingInv'
  BY NextPendingInv
<1>2. QED
  BY <1>1, InitTypeInv, NextTypeInv, InitVerdictInv, NextVerdictInv, InitPendingInv, PTL
     DEF Spec

\* The run is not reported complete, nor the service stopped, before an allowed reboot.
THEOREM RebootBeforeDone ==
  ASSUME "kill" \notin Faults
  PROVE  Spec => []NotDoneWhileRebootPending
<1>1. VerdictInv /\ PendingInv => NotDoneWhileRebootPending
  BY DEF VerdictInv, ReportInv, PendingInv, NotDoneWhileRebootPending, AtRest
<1>2. QED
  BY <1>1, PendingAlways, PTL

\* No plugin runs between a plugin that asked for an allowed reboot and that reboot.
THEOREM RebootBeforePlugins ==
  ASSUME "kill" \notin Faults
  PROVE  Spec => RebootBeforeNextPlugin
<1>1. ASSUME PendingInv, [Next]_vars, AllowReboot, rebootPending,
             pc = "stage", pc' = "record"
      PROVE  FALSE
  <2>1. PICK p \in Plugins : Execute(p)
    BY <1>1, WhoWrites
  <2>2. ~StageOver
    BY <2>1 DEF Execute, AtPlugin
  <2>3. rebootRequired
    BY <1>1 DEF PendingInv
  <2>4. QED
    BY <1>1, <2>2, <2>3 DEF StageOver
<1>2. PendingInv /\ [Next]_vars =>
        [AllowReboot /\ rebootPending => ~(pc = "stage" /\ pc' = "record")]_vars
  BY <1>1
<1>3. Spec => [][Next]_vars
  BY PTL DEF Spec
<1>4. QED
  BY <1>2, <1>3, PendingAlways, PTL DEF RebootBeforeNextPlugin

=============================================================================
