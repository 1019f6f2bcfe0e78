---------------------------- MODULE HostSettings ----------------------------
(***************************************************************************)
(* The plugins that bring settings of the host to the values of the        *)
(* configuration or the metadata: host name, clock and time service, page  *)
(* files, SAN policy, boot configuration, licensing, the Azure agent, ...  *)
(*                                                                         *)
(* Such a plugin makes a fixed sequence of calls and keeps nothing, so it  *)
(* is written down as that sequence; one action per kind of call says what *)
(* the call does to the stored settings.  Any call may raise: the manager  *)
(* logs it and goes on with the next plugin, and forgets the reboot the    *)
(* plugin would have asked for.                                            *)
(***************************************************************************)
EXTENDS Naturals, Sequences

CONSTANTS
  Hosts,        \* [plugins |-> in their order, given |-> settings with a wanted value]
  MaxFailures   \* bound: calls that raise

VARIABLES
  pc,           \* "idle", "next", "call", "over" or "reboot"
  at,           \* position in the list of plugins
  calls,        \* that the plugin still has to make
  host,         \* the host's plugins and the settings with a wanted value
  stored,       \* the settings as the system stores them: "old", "new" or "none"
  active,       \* the settings the running system uses since its boot
  asked,        \* settings the execution wants a reboot for (reboot_required)
  done,         \* plugins that need not run again
  forgotten,    \* settings whose reboot was asked for by an execution that raised
  failures

vars == <<pc, at, calls, host, stored, active, asked, done, forgotten, failures>>

-----------------------------------------------------------------------------
(* The kinds of calls. *)

When(s)       == [do |-> "when", of |-> s]       \* without a wanted value the plugin is done
Skip(s, n)    == [do |-> "skip", of |-> s, by |-> n] \* without one, the next n calls are not made
Lookup(s)     == [do |-> "lookup", of |-> s]     \* without an answer, again at the next boot
Ask(s)        == [do |-> "ask", of |-> s]        \* a call that changes nothing
Put(s)        == [do |-> "put", of |-> s]        \* sets the wanted value
Drop(s)       == [do |-> "drop", of |-> s]       \* removes the value
Try(s)        == [do |-> "try", of |-> s]        \* sets it, its exit code is not looked at
TryDrop(s)    == [do |-> "trydrop", of |-> s]
Sync(s)       == [do |-> "sync", of |-> s]       \* sets it when another value is stored
Reconfigure(s) == [do |-> "stored", of |-> s]    \* the same, and asks for a reboot
Rename(s)     == [do |-> "active", of |-> s]     \* the same, compared with the running system

-----------------------------------------------------------------------------
(* The plugins and the functions they call. *)

HostName == <<Rename("hostname")>>
SetHostName == <<When("hostname")>> \o HostName

RealTimeClock == <<Reconfigure("rtc")>>
TriggerMode == <<TryDrop("triggers"), Try("triggers")>>
VerifyTimeService == <<Sync("w32time mode")>> \o TriggerMode \o <<Sync("w32time status"), Ask("w32time status")>>
DhcpHosts == <<Ask("dhcp hosts")>>
ClientConfig == <<Put("ntp")>>
NTPClient ==
  RealTimeClock \o <<Skip("w32time", Len(VerifyTimeService))>> \o VerifyTimeService
    \o <<When("ntp")>> \o DhcpHosts \o <<Lookup("ntp")>> \o ClientConfig

MTU == <<Skip("mtu", 3)>> \o DhcpHosts \o <<Ask("mtu"), Put("mtu")>>

MountPoints == <<Ask("mount points")>>
Labels == <<Ask("labels")>>
PageFileVolumes == MountPoints \o Labels

\* Mutant: the page files are stored, no reboot is asked for.
Mut_SetPageFiles == <<Sync("pagefiles")>>

SetPageFiles == <<Reconfigure("pagefiles")>>

PageFiles == PageFileVolumes \o <<Skip("pagefiles", 1)>> \o SetPageFiles

VdsSanPolicy == <<Ask("san"), Sync("san")>>
SanPolicy == <<When("san")>> \o VdsSanPolicy

KeepAlive == <<Put("keepalive"), Put("keepalive interval")>>
RDPSettings == KeepAlive

Thumbprint == <<Ask("rdp certificate")>>
RDPPostCertificateThumbprint == <<When("thumbprint")>> \o Thumbprint \o <<Put("thumbprint")>>

PowerCfg == <<Put("video idle")>>
DisplayIdleTimeout == PowerCfg

Bcdedit == <<Put("boot status")>>
BootStatusPolicy == <<When("boot status")>> \o Bcdedit

CurrentStore == <<Ask("bcd store")>>
BootPartition == CurrentStore \o <<Put("os device"), Put("application device")>>
UniqueDiskId == <<Ask("layout"), Put("disk id"), Ask("layout")>>
AutoRecovery == CurrentStore \o <<Put("auto recovery"), Ask("auto recovery")>>
BCDConfig ==
  <<Skip("disk id", 1 + Len(BootPartition) + Len(UniqueDiskId)), Ask("boot volumes")>>
    \o BootPartition \o UniqueDiskId \o AutoRecovery

AutomaticUpdates == <<Put("updates")>>
WindowsAutoUpdates == <<When("updates")>> \o AutomaticUpdates

Fsutil == <<Put("trim")>>
Trim == Fsutil

KmsProduct == <<Ask("kms product")>>
KeyTable == <<Ask("key table")>>
InstallKey == <<Sync("product key")>>
ProductKey == <<Skip("product key", 3)>> \o KmsProduct \o KeyTable \o InstallKey
KmsMachine == <<Put("kms host"), Put("kms port")>>
KmsHost == <<Skip("kms host", 2)>> \o KmsMachine
Slmgr == <<Put("activation")>>
WindowsLicensing ==
  <<When("licensing")>> \o ProductKey \o KmsHost \o <<Skip("activation", 1)>> \o Slmgr \o <<Ask("license")>>

Extents == <<Ask("extents")>>
ExtendVolume == Extents \o <<Sync("volume size")>>
ExtendVolumes == <<Ask("packs")>> \o ExtendVolume

EphemeralVolume == MountPoints \o Labels
Warning == <<Ask("warning"), Drop("warning"), Put("warning")>>
EphemeralDisk == <<When("warning")>> \o EphemeralVolume \o <<Skip("warning path", 3)>> \o Warning

UserHome == <<Ask("user home")>>
SSHPublicKeys == <<When("ssh keys")>> \o UserHome \o <<Ask("ssh folder"), Drop("ssh keys"), Put("ssh keys")>>

\* Stopped if it runs, then deleted.
RemoveService(s) == <<Ask(s), Ask(s), Drop(s)>>
RemoveAgent ==
  RemoveService("RdAgent") \o RemoveService("WindowsAzureGuestAgent")
    \o RemoveService("WindowsAzureTelemetryService")
RemoveAgentFolders == <<TryDrop("agent package")>>
AgentPackage == <<Lookup("agent package"), Lookup("agent package")>>
EventTraces == <<Ask("event traces"), Ask("event traces")>>
CreateRdAgent == <<Put("RdAgent"), Ask("agent version"), Put("VM type"), Put("agent version")>>
CreateVmAgent == <<Ask("agent log"), Put("agent package"), Put("WindowsAzureGuestAgent")>>
StartAgent == <<Put("agent start mode"), Put("agent status")>>

\* The package is looked for when the old agent is gone; without .Net the agent is not
\* started.
DesktopAgent ==
  AgentPackage \o EventTraces \o <<Drop("agent package"), Ask("agent folder"), Put("agent package")>>
    \o CreateRdAgent \o <<Skip("dotnet", Len(StartAgent))>> \o StartAgent
NanoAgent == <<Ask("agent folder")>> \o CreateVmAgent \o StartAgent
AzureGuestAgent ==
  <<When("provision")>> \o RemoveAgent \o RemoveAgentFolders
    \o <<Skip("desktop", Len(DesktopAgent))>> \o DesktopAgent
    \o <<Skip("nano", Len(NanoAgent))>> \o NanoAgent

Calls ==
  [SetHostName |-> SetHostName, NTPClient |-> NTPClient, MTU |-> MTU, PageFiles |-> PageFiles,
   SanPolicy |-> SanPolicy, RDPSettings |-> RDPSettings, DisplayIdleTimeout |-> DisplayIdleTimeout,
   RDPPostCertificateThumbprint |-> RDPPostCertificateThumbprint,
   BootStatusPolicy |-> BootStatusPolicy, BCDConfig |-> BCDConfig,
   WindowsAutoUpdates |-> WindowsAutoUpdates, Trim |-> Trim, WindowsLicensing |-> WindowsLicensing,
   ExtendVolumes |-> ExtendVolumes, EphemeralDisk |-> EphemeralDisk, SSHPublicKeys |-> SSHPublicKeys,
   AzureGuestAgent |-> AzureGuestAgent]

\* Executed at each boot: the result of the first two, which run before there is an
\* instance id, is not recorded, the others return PLUGIN_EXECUTE_ON_NEXT_BOOT.
EachBoot == {"NTPClient", "MTU", "PageFiles", "ExtendVolumes"}

Of(program) == {program[n].of : n \in DOMAIN program}
Settings == UNION {Of(Calls[p]) : p \in DOMAIN Calls}

\* The system reads these at its boot only.
AtBoot == {"hostname", "rtc", "pagefiles"}

-----------------------------------------------------------------------------
Init ==
  /\ pc = "idle" /\ at = 1 /\ calls = <<>>
  /\ host \in Hosts
  /\ stored = [s \in Settings |-> "old"] /\ active = stored
  /\ asked = {} /\ done = {} /\ forgotten = {}

Plugin == host.plugins[at]
Call == Head(calls)
Given(s) == s \in host.given

\* The stage begins after a boot: what was stored is what the system uses.
Start ==
  /\ pc = "idle"
  /\ pc' = "next" /\ at' = 1
  /\ active' = stored /\ forgotten' = {}
  /\ UNCHANGED <<calls, host, stored, asked, done, failures>>

\* The process is gone, with everything it kept in memory.
Halt ==
  /\ pc' = "idle" /\ at' = 1 /\ calls' = <<>> /\ asked' = {}
  /\ UNCHANGED <<host, stored, active, done, forgotten>>

Pass ==
  /\ pc = "next" /\ at <= Len(host.plugins) /\ Plugin \in done
  /\ at' = at + 1
  /\ UNCHANGED <<pc, calls, host, stored, active, asked, done, forgotten, failures>>

Execute ==
  /\ pc = "next" /\ at <= Len(host.plugins) /\ Plugin \notin done
  /\ pc' = "call" /\ calls' = Calls[Plugin]
  /\ UNCHANGED <<at, host, stored, active, asked, done, forgotten, failures>>

StageOver ==
  /\ pc = "next" /\ at > Len(host.plugins)
  /\ pc' = "over"
  /\ UNCHANGED <<at, calls, host, stored, active, asked, done, forgotten, failures>>

-----------------------------------------------------------------------------
(* The execution of a plugin ends: its result is recorded, and a reboot it *)
(* asks for ends the stage.                                                *)

Return(result) ==
  /\ done' = IF result = "done" THEN done \cup ({Plugin} \ EachBoot) ELSE done
  /\ pc' = IF asked # {} THEN "reboot" ELSE "next"
  /\ at' = at + 1 /\ calls' = <<>> /\ asked' = {}
  /\ UNCHANGED <<host, stored, active, forgotten, failures>>

End ==
  /\ pc = "call" /\ calls = <<>>
  /\ Return("done")

Making(kinds) == pc = "call" /\ calls # <<>> /\ Call.do \in kinds

NotWanted == Making({"when"}) /\ ~Given(Call.of) /\ Return("done")
NoAnswer == Making({"lookup"}) /\ Return("again")

\* Mutant: a plugin that raised is not executed again.
Mut_Raise ==
  /\ Making({"lookup", "ask", "put", "drop", "sync", "stored", "active"})
  /\ failures < MaxFailures /\ failures' = failures + 1
  /\ forgotten' = forgotten \cup asked
  /\ pc' = "next" /\ at' = at + 1 /\ calls' = <<>> /\ asked' = {}
  /\ done' = done \cup ({Plugin} \ EachBoot)
  /\ UNCHANGED <<host, stored, active>>

\* The exception is logged; a reboot the execution would have asked for is forgotten.
Raise ==
  /\ Making({"lookup", "ask", "put", "drop", "sync", "stored", "active"})
  /\ failures < MaxFailures /\ failures' = failures + 1
  /\ forgotten' = forgotten \cup asked
  /\ pc' = "next" /\ at' = at + 1 /\ calls' = <<>> /\ asked' = {}
  /\ UNCHANGED <<host, stored, active, done>>

Goes(n) == calls' = SubSeq(calls, n + 1, Len(calls)) /\ UNCHANGED <<pc, at, host, active, done, forgotten>>

Same == UNCHANGED <<stored, asked, failures>>

Wanted == Making({"when"}) /\ Given(Call.of) /\ Goes(1) /\ Same
SkipCalls == Making({"skip"}) /\ Goes(IF Given(Call.of) THEN 1 ELSE 1 + Call.by) /\ Same
Answer == Making({"lookup", "ask"}) /\ Goes(1) /\ Same

Set(value) == stored' = [stored EXCEPT ![Call.of] = value]

PutValue == Making({"put", "sync"}) /\ Set("new") /\ Goes(1) /\ UNCHANGED <<asked, failures>>
DropValue == Making({"drop", "trydrop"}) /\ Set("none") /\ Goes(1) /\ UNCHANGED <<asked, failures>>
TryValue == Making({"try"}) /\ Set("new") /\ Goes(1) /\ UNCHANGED <<asked, failures>>

\* The command fails, and the caller does not look at its exit code.
Unnoticed ==
  /\ Making({"try", "trydrop"})
  /\ failures < MaxFailures /\ failures' = failures + 1
  /\ Goes(1)
  /\ UNCHANGED <<stored, asked>>

\* Mutant: what is stored never compares equal to what is wanted.
Mut_Current == "old"

Current == IF Call.do = "active" THEN active[Call.of] ELSE stored[Call.of]

AskReboot ==
  /\ Making({"stored", "active"})
  /\ Goes(1)
  /\ IF Current = "new" THEN UNCHANGED <<stored, asked>> ELSE Set("new") /\ asked' = asked \cup {Call.of}
  /\ UNCHANGED failures

Next ==
  \/ Start \/ Pass \/ Execute \/ StageOver
  \/ End \/ NotWanted \/ NoAnswer \/ Raise
  \/ Wanted \/ SkipCalls \/ Answer
  \/ PutValue \/ DropValue \/ TryValue \/ Unnoticed \/ AskReboot

-----------------------------------------------------------------------------
(* What the plugins promise. *)

\* The settings a plugin with a record of its own is there for.
Promised ==
  [SetHostName |-> {"hostname"}, SanPolicy |-> {"san"},
   RDPSettings |-> {"keepalive", "keepalive interval"}, DisplayIdleTimeout |-> {"video idle"},
   RDPPostCertificateThumbprint |-> {"thumbprint"}, BootStatusPolicy |-> {"boot status"},
   BCDConfig |-> {"os device", "application device", "disk id", "auto recovery"},
   WindowsAutoUpdates |-> {"updates"}, Trim |-> {"trim"},
   WindowsLicensing |-> {"product key", "kms host", "activation"},
   EphemeralDisk |-> {"warning"}, SSHPublicKeys |-> {"ssh keys"},
   AzureGuestAgent |-> {"RdAgent", "WindowsAzureGuestAgent", "agent package", "VM type",
                        "agent version", "agent start mode", "agent status"}]

\* The settings with a wanted value go with what their plugin looks at before it sets them:
\* an option or the metadata (disk id, provision, ...), or the Windows it finds.
Consistent(given) ==
  /\ {"os device", "application device"} \cap given # {} => "disk id" \in given
  /\ {"product key", "kms host", "activation"} \cap given # {} => "licensing" \in given
  /\ "warning" \in given => "warning path" \in given
  /\ Promised.AzureGuestAgent \cap given # {} => "provision" \in given
  /\ {"RdAgent", "VM type", "agent version"} \cap given # {} => "desktop" \in given
  /\ "WindowsAzureGuestAgent" \in given => "nano" \in given
  /\ "agent package" \in given => {"desktop", "nano"} \cap given # {}
  /\ {"agent start mode", "agent status"} \cap given # {} =>
       {"desktop", "dotnet"} \subseteq given \/ "nano" \in given

TypeOK ==
  /\ pc \in {"idle", "next", "call", "over", "reboot"}
  /\ host \in Hosts
  /\ at \in 1..Len(host.plugins) + 1 /\ (pc # "call" => calls = <<>>)
  /\ \A s \in DOMAIN stored : {stored[s], active[s]} \subseteq {"old", "new", "none"}
  /\ asked \subseteq AtBoot /\ done \subseteq {host.plugins[n] : n \in DOMAIN host.plugins} \ EachBoot
  /\ forgotten \subseteq AtBoot

\* A plugin that need not run again has set everything it is there for: what an
\* execution left halfway (a truncated file, half of two writes) is completed by a
\* later one.
DoneIsSet ==
  \A p \in done : \A s \in Promised[p] \cap host.given : stored[s] = "new"

\* When the stage ends without a reboot, the running system uses what was stored,
\* unless the execution that would have asked for the reboot raised after it had
\* stored the setting: the next one finds it stored and does not ask.
RebootNotMissed ==
  pc = "over" => \A s \in AtBoot : active[s] = stored[s] \/ s \in forgotten

=============================================================================
