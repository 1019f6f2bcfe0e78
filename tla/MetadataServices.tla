-------------------------- MODULE MetadataServices --------------------------
(***************************************************************************)
(* The metadata services of one process: the configured ones are tried in  *)
(* order until one of them loads, the plugins read from that one, and it   *)
(* is cleaned up at the end.  What the services read may change meanwhile. *)
(*                                                                         *)
(* The functions of NativeResources keep nothing from one call to the      *)
(* next; each of them is a process of its own here.                        *)
(***************************************************************************)
EXTENDS Naturals, Sequences, FiniteSets

CONSTANTS
  Clouds,       \* [services, machine, fabric, lacking]: where the process may run
  RetryCount, DhcpTries, BindAttempts, Timeout,
  Functions,
  MaxFailures, MaxChanges, MaxAsked, MaxRounds   \* bounds

VARIABLES
  turn,         \* "off", "search", "drive", "azure", "load", "use", "native", "over" or "hung"
  cloud,
  untried,      \* services that have not been tried
  loading,      \* the one that is tried or in use, or "none"
  drivePc, machine, label, routes, route, todo, taken, folder, found, failures,
  azurePc, fabric, incarnation, searches, attempts, clock, endpoint, version, goal,
  azureTries, shown, ok, reboot, unheard,
  sessionPc, service, source, method, item, name, tries, cache, told, result, changes, asked,
  function, frames, held, wrong, raised, rounds

Drive == INSTANCE ConfigDrive WITH
  Machines <- {c.machine : c \in Clouds}, pc <- drivePc, untried <- routes

Azure == INSTANCE AzureProvisioning WITH
  Fabrics <- {c.fabric : c \in Clouds}, pc <- azurePc, tries <- azureTries

Session == INSTANCE MetadataSession WITH pc <- sessionPc

Native == INSTANCE NativeResources

ASSUME MetadataServicesAssumption ==
  /\ {RetryCount, DhcpTries, MaxFailures, MaxChanges, MaxAsked, MaxRounds} \subseteq Nat
  /\ {BindAttempts, Timeout} \subseteq Nat \ {0}
  /\ Functions \subseteq DOMAIN Native!Body
  /\ \A c \in Clouds :
       /\ c.services \in Seq(DOMAIN Session!Services \cup {"AzureService"})
       /\ c.fabric \in Azure!Fabric
       /\ c.machine.devices \subseteq Drive!Device
       \* An image has blocks, a partition its disk.
       /\ \A d \in c.machine.devices :
            /\ d.format = "iso" => d.blocks > 0
            /\ d.where = "partition" =>
                 \E e \in c.machine.devices : e.where = "disk" /\ e.disk = d.disk
       \* load() raises for other types and locations.
       /\ Drive!SearchedTypes(c.machine.config) \subseteq {Drive!Iso, Drive!Vfat}
       /\ Drive!SearchedLocations(c.machine.config) \subseteq {"cdrom", "hdd", "partition"}

driveVars == <<drivePc, machine, label, routes, route, todo, taken, folder, found, failures>>
azureVars == <<azurePc, fabric, incarnation, searches, attempts, clock, endpoint, version, goal,
               azureTries, shown, ok, reboot, unheard>>
sessionVars == <<sessionPc, service, source, method, item, name, tries, cache, told, result,
                 changes, asked>>
nativeVars == <<function, frames, held, wrong, raised, rounds>>
vars == <<turn, cloud, untried, loading, driveVars, azureVars, sessionVars, nativeVars>>

-----------------------------------------------------------------------------
Init ==
  /\ turn = "off" /\ cloud \in Clouds /\ untried = cloud.services /\ loading = "none"
  /\ Drive!Init /\ Azure!Init /\ Session!Init /\ Native!Init
  /\ machine = cloud.machine /\ fabric = cloud.fabric /\ failures = 0

Start ==
  /\ turn = "off" /\ turn' = "search"
  /\ UNCHANGED <<cloud, untried, loading, driveVars, azureVars, sessionVars, nativeVars>>

\* The services with a drive, and its label.
Label ==
  [s \in {"ConfigDriveService", "NoCloudConfigDriveService"} |->
     IF s = "ConfigDriveService" THEN "config-2" ELSE "cidata"]

\* What is there for a service to read, but for what this cloud lacks.
LoadFrom(s) == Session!Load(s, Session!NamesOf(s) \ cloud.lacking)

\* The next service is made and loaded.
TryService ==
  /\ turn = "search" /\ untried # <<>>
  /\ loading' = Head(untried) /\ untried' = Tail(untried) /\ UNCHANGED <<cloud, nativeVars>>
  /\ \/ /\ loading' \in DOMAIN Label
        /\ Drive!Load(Label[loading']) /\ turn' = "drive" /\ UNCHANGED <<azureVars, sessionVars>>
     \/ /\ loading' = "AzureService"
        /\ Azure!Load /\ turn' = "azure" /\ UNCHANGED <<driveVars, sessionVars>>
     \/ /\ loading' \notin DOMAIN Label \cup {"AzureService"}
        /\ LoadFrom(loading') /\ turn' = "load" /\ UNCHANGED <<driveVars, azureVars>>

\* MetadataNotFoundException: the main stage is left out.
NoService ==
  /\ turn = "search" /\ untried = <<>>
  /\ turn' = "over" /\ loading' = "none"
  /\ UNCHANGED <<cloud, untried, driveVars, azureVars, sessionVars, nativeVars>>

\* A class that cannot be loaded or made raises outside of the try, and ends the run.
NotMade ==
  /\ turn = "search" /\ untried # <<>>
  /\ turn' = "over" /\ loading' = "none"
  /\ UNCHANGED <<cloud, untried, driveVars, azureVars, sessionVars, nativeVars>>

SearchDrive ==
  /\ turn = "drive" /\ Drive!Next
  /\ UNCHANGED <<turn, cloud, untried, loading, azureVars, sessionVars, nativeVars>>

\* The service reads from the folder from now on.
DriveFound ==
  /\ turn = "drive" /\ drivePc = "over" /\ found
  /\ LoadFrom(loading) /\ turn' = "load"
  /\ UNCHANGED <<cloud, untried, loading, driveVars, azureVars, nativeVars>>

DriveNotFound ==
  /\ turn = "drive" /\ drivePc = "over" /\ ~found
  /\ turn' = "search"
  /\ UNCHANGED <<cloud, untried, loading, driveVars, azureVars, sessionVars, nativeVars>>

SearchAzure ==
  /\ turn = "azure" /\ Azure!Searching
  /\ UNCHANGED <<turn, cloud, untried, loading, driveVars, sessionVars, nativeVars>>

AzureOver ==
  /\ turn = "azure" /\ azurePc \in {"loaded", "not loaded"}
  /\ turn' = IF azurePc = "loaded" THEN "use" ELSE "search"
  /\ UNCHANGED <<cloud, untried, loading, driveVars, azureVars, sessionVars, nativeVars>>

Read ==
  /\ turn \in {"load", "use"} /\ Session!Next
  /\ UNCHANGED <<turn, cloud, untried, loading, driveVars, azureVars, nativeVars>>

\* A service that raises is logged, and not used either.
LoadOver ==
  /\ turn = "load" /\ sessionPc = "idle"
  /\ turn' = IF Session!Loaded THEN "use" ELSE "search"
  /\ UNCHANGED <<cloud, untried, loading, driveVars, azureVars, sessionVars, nativeVars>>

Ask ==
  /\ turn = "use" /\ loading # "AzureService" /\ Session!Ask
  /\ UNCHANGED <<turn, cloud, untried, loading, driveVars, azureVars, nativeVars>>

RunAzure ==
  /\ turn = "use" /\ loading = "AzureService" /\ Azure!Running
  /\ UNCHANGED <<turn, cloud, untried, loading, driveVars, sessionVars, nativeVars>>

\* service.cleanup(), without effect for a service that copied nothing; left out when
\* the first thing that is asked, the instance id, cannot be read.
Cleanup ==
  /\ turn = "use" /\ turn' = "over"
  /\ IF loading = "AzureService" THEN azurePc \in {"over", "aborted"} ELSE sessionPc = "idle"
  /\ \/ loading \in DOMAIN Label /\ Drive!Cleanup
     \/ (loading \notin DOMAIN Label \/ (asked = 1 /\ result # "ok")) /\ UNCHANGED driveVars
  /\ UNCHANGED <<cloud, untried, loading, azureVars, sessionVars, nativeVars>>

Own ==
  \/ Start \/ TryService \/ NoService \/ NotMade \/ SearchDrive \/ DriveFound \/ DriveNotFound
  \/ SearchAzure \/ AzureOver \/ Read \/ LoadOver \/ Ask \/ RunAzure \/ Cleanup

\* requests.request has no timeout: a server that has taken a request and does not answer
\* holds up the process for good.
Hang ==
  /\ \/ turn \in {"load", "use"} /\ loading # "AzureService" /\ Session!Requesting
     \/ (turn = "azure" \/ (turn = "use" /\ loading = "AzureService")) /\ Azure!Requesting
  /\ turn' = "hung"
  /\ UNCHANGED <<cloud, untried, loading, driveVars, azureVars, sessionVars, nativeVars>>

\* What is read changes.
Publish ==
  /\ turn \in {"load", "use"} /\ Session!Publish
  /\ UNCHANGED <<turn, cloud, untried, loading, driveVars, azureVars, nativeVars>>

Move ==
  /\ loading = "AzureService" /\ turn = "use" /\ Azure!Move
  /\ UNCHANGED <<turn, cloud, untried, loading, driveVars, sessionVars, nativeVars>>

\* Where no metadata service is configured, so that the rest is not in the way.
CallNative ==
  /\ turn = "off" /\ cloud.services = <<>> /\ Native!Begin /\ turn' = "native"
  /\ UNCHANGED <<cloud, untried, loading, driveVars, azureVars, sessionVars>>

RunNative ==
  /\ turn = "native" /\ Native!Next
  /\ UNCHANGED <<turn, cloud, untried, loading, driveVars, azureVars, sessionVars>>

Next == Own \/ Hang \/ Publish \/ Move \/ CallNative \/ RunNative

Spec == Init /\ [][Next]_vars

\* The process goes on, unless it waits for an answer that does not come.
FairSpec == Spec /\ WF_vars(Own)

-----------------------------------------------------------------------------
(* Properties *)

TypeOK ==
  /\ turn \in {"off", "search", "drive", "azure", "load", "use", "native", "over", "hung"}
  /\ cloud \in Clouds /\ Len(untried) <= Len(cloud.services)
  /\ failures \in 0..MaxFailures
  /\ Drive!TypeOK /\ Azure!TypeOK /\ Session!TypeOK /\ Native!TypeOK

\* What a config drive service reads comes from one drive, and from all of it.
DriveIsWhole == Drive!DriveIsWhole

\* A drive that is attached where it is searched is found, if nothing fails.
NotMissed == Drive!NotMissed

\* All plugins of a run see the same metadata, from the one service that was loaded.
SteadyReads ==
  /\ turn \in {"load", "use"} => Session!SteadyReads
  /\ turn = "use" /\ loading # "AzureService" => service = loading

\* The fabric is told the truth about the run.
HealthReports == Azure!HealthReports

\* Native memory, handles and certificates are given back, whatever fails.
NothingLeft == Native!NothingLeft

\* A search comes to an end, in a service or in none, whatever fails, is refused, lost or
\* answered wrongly, with one exception: a request that is taken and never answered.  The
\* wait for a DHCP reply, which has a deadline, is none.
DiscoveryEnds == turn = "search" ~> turn \in {"use", "over", "hung"}

=============================================================================
