# A verification project for cloudbase-init

cloudbase-init configures a freshly deployed (mostly Windows) machine at boot. A service starts
one Python process; the process finds a metadata service, runs a list of plugins stage by stage,
records which of them are done in the registry, reboots when a plugin asks for it, and reports the
outcome. The process is sequential. What makes it hard is everything around it: it may be cut off
after any statement, it is started again at every boot with nothing but the registry and the machine
as its memory, several plugins hand a secret to one another through a dictionary that dies with the
process, the metadata service loses answers, and the disk it runs from may be captured and deployed
as another instance.

This directory holds TLA+ modules of that behaviour, TLC configurations that check them on small
instances, and TLAPS proofs of the properties that hold for every value of the constants. Paths
below are relative to `src/cloudbaseinit/` unless they begin with `doc/` (`src/doc/`).

## Contents

| module | models | checked by |
| --- | --- | --- |
| `InitManager` | the orchestrator: stages, plugins, saved statuses, reboots, reports | `init_safety`, `init_converge` |
| `PluginLedger` | abstract specification: what the orchestrator promises about saved statuses | refined by `InitManager` |
| `InitManagerProofs` | proofs about `InitManager` | TLAPS |
| `UserPassword` | the password of the cloud user, from CreateUser to its owner | `password_*` |
| `UserPasswordProofs` | proofs about `UserPassword` | TLAPS |
| `UserScripts` | UserData and LocalScripts: parts, scripts, exit codes, part handlers | `scripts_*` |
| `UserScriptsProofs` | proofs about `UserScripts` | TLAPS |
| `NetworkConfig` | the network plugin: which of the next two runs | `network`, `network_v6only` |
| `NetworkLinks` | the network plugin with version 2 details, teams and nested retries | in `NetworkConfig` |
| `NetworkAdapters` | the network plugin with version 1 details, call by call | in `NetworkConfig` |
| `NetworkAdaptersProofs` | invariants of `NetworkAdapters`, for the theorems of the next | TLAPS |
| `NetworkLinksProofs` | invariants of `NetworkLinks`, theorems about `NetworkConfig` | TLAPS |
| `HostConfiguration` | boots of a machine: the service's account, settings, remote access | `host` |
| `HostConfigurationProofs` | proofs about `HostConfiguration` | TLAPS |
| `ServiceAccount` | the reset of the service's password, the respawned process | in `HostConfiguration` |
| `HostSettings` | the plugins that bring a setting to a wanted value, as programs of calls | in `HostConfiguration` |
| `RemoteAccess` | certificates, WinRM listeners and mappings, the UAC remote restrictions | in `HostConfiguration` |
| `MetadataServices` | discovery, the service in use, cleanup | `metadata` |
| `ConfigDrive` | the search for a config drive, copying and extracting | in `MetadataServices` |
| `AzureProvisioning` | the Azure service: DHCP, goal state, health reports | in `MetadataServices` |
| `MetadataSession` | what a service reads: items, cache, retries, a cloud that changes | in `MetadataServices` |
| `NativeResources` | memory, handles and certificates got from Windows, over every exception | in `MetadataServices` |
| `MetadataServicesProofs` | proofs about `MetadataServices`: config drives, reads, health reports, types | TLAPS |
| `NativeResourcesProofs` | proofs about `MetadataServices`: the native functions | TLAPS |
| `MC*` | constants for TLC | |

`PROJECT.json` lists the runs, the source lines behind each definition, the mutations of the model
that each property detects, the hazards of the code, and the findings.

## The system: inventory

**Orchestration** (`init.py`, `shell.py`, `plugins/common/base.py`, `plugins/factory.py`).
State: the statuses of the plugins in the registry, in a section per instance id; the locals of
`configure_host`; `shared_data`, one dictionary for a stage. Operations: the wait for the end of
sysprep, the stage loop (`_handle_plugins_stage`, `_exec_plugin`), discovery, the three provisioning
reports, cleanup, reboot, stop of the service. It calls every other part. Hard: crashes between a
plugin's effect and its status, a registry write that fails, a refused reboot, a redeployed disk,
endless reboots. Correct when: a plugin is executed until an execution of it is saved as done and
never afterwards; statuses belong to their instance id; nothing runs on top of a pending reboot; the
verdict that is reported is true; the reboots end. *Modelled.*

**User account and password** (`plugins/common/createuser.py`, `plugins/common/setuserpassword.py`,
`plugins/windows/winrmcertificateauth.py`, `metadata/services/httpservice.py`,
`metadata/services/cloudstack.py`). State: the accounts, `shared_data`, the OpenStack password slot,
the CloudStack password server, the certificate mapping. Hard: three plugins that can each be
skipped, fail and be repeated independently; a POST that is not idempotent; a read that is followed
by a deletion. Correct when the account ends up with a password that somebody knows. *Modelled.*

**User scripts** (`plugins/common/userdata.py`, `localscripts.py`, `execcmd.py`, `userdatautils.py`,
`userdataplugins/`). State: the position in a multi-part message, the combined result, the
registered part handlers. Hard: the protocol of exit codes (1001 to 1003) through four layers that
combine them differently. Correct when reboots and repetitions happen as the scripts asked.
*Modelled*, without what a directive does to the machine.

**Metadata session** (`metadata/factory.py`, `metadata/services/base.py`). State: the chosen service,
its cache, its retry counter. Operations: trying each configured service, `_exec_with_retry`,
`_get_cache_data`. Interaction: every plugin reads through it. Hard: a service that answers late or
comes up after a lower one was chosen; retries that are per request; failures that are not cached.
Correct when the first service that loads is used for the whole run, and all that read something from
it read the same. *Modelled* (`MetadataSession`, `MetadataServices`; the POST of the password with its
retries in `UserPassword`).

**Config drive** (`metadata/services/baseconfigdrive.py`, `osconfigdrive/`, `utils/windows/disk.py`,
`vfat.py`). State: the target folder. Operations: search over types and locations, copying, ISO
extraction, cleanup. Hard: a failed candidate leaves the folder missing or half filled for the next
one; the search order is that of a set. Correct when what is read comes from one drive, and all of it,
and when a drive that is attached is found. *Modelled* (`ConfigDrive`).

**Azure** (`metadata/services/azureservice.py`, `utils/dhcp.py`, `plugins/windows/azureguestagent.py`).
State: the endpoint, the negotiated version, the cached goal state, the transport certificate.
Hard: DHCP replies to others, timeouts, a goal state that moves on, an installation that is cut off.
Correct when the search ends, every report tells the truth about the run, and no certificate is left.
*Modelled* (`AzureProvisioning`; the certificate in `NativeResources`, the agent in `HostSettings`).

**Network configuration** (`plugins/common/networkconfig.py`, `models/network.py`,
`utils/network.py`, `utils/debiface.py`). State: the adapters. Operations: matching details to
adapters (v1), and the v2 passes over physical links, bonds, VLANs, networks. Hard: partial details,
duplicate MACs, a failure in the middle followed by a repetition. Correct when each adapter gets the
configuration meant for it and a repetition converges. *Modelled* (`NetworkConfig` with
`NetworkAdapters` and `NetworkLinks`), from the details on; how a metadata service parses them is not.

**NIC teaming** (`utils/windows/netlbfo.py`, `utils/retry_decorator.py`). State: teams, members,
NICs. Hard: retries nested three deep around operations that are not idempotent. Correct when a
failed creation leaves no team and a repeated one makes no second NIC. *Modelled* (`NetworkLinks`).

**Service account** (`init.py:125`, `osutils/windows.py:1259`). State: the account's password, the
service's credentials, two processes. Hard: a crash between two writes that must agree; a process
that starts another with an option that must stop the recursion. *Modelled* (`ServiceAccount`).

**WinRM, certificates, UAC** (`plugins/windows/winrmlistener.py`, `certificates.py`,
`utils/windows/winrmconfig.py`, `security.py`, `x509.py`). State: listeners, mappings, the UAC remote
restrictions. Hard: delete-then-create, a security setting that is lifted for a while. *Modelled*
(`RemoteAccess`; which password a mapping carries in `UserPassword`).

**Convergent settings** (host name, NTP, MTU, page files, SAN policy, RDP, boot configuration,
display timeout, updates, licensing, SSH keys, volumes, the ephemeral disk, the Azure guest agent). Each
compares, writes, perhaps asks for a reboot. Correct when what is done is set, a needed reboot is asked
for and repeated executions come to rest. *Modelled* (`HostSettings`); in `InitManager` they are
arbitrary results, or settling ones for `init_converge`.

**Native resources** (`utils/windows/x509.py`, `disk.py`, `storage/`, parts of `osutils/windows.py`).
State: what Windows handed out. Hard: two dozen functions that get several things one after the other
and may raise between any two. Correct when each is given back once. *Modelled* (`NativeResources`).

**No protocol of their own**: templates, serialization, cryptography, configuration, logging, the
version check, the parsers of network data. Data conversions and single calls; `PROJECT.json` gives
the reason for each.

## InitManager and PluginLedger

**Correspondence.** `pc` is the statement of `configure_host` the process has reached, `stage` and
`idx` its loop, `stageSuccess`, `rebootRequired`, `service`, `instance` its variables. A missing
`reboot_required` (None) is FALSE. `registry[i][p]` is what `_set_plugin_status` wrote. `Execute(p)`
is `plugin.execute()`: its result is any of `Outcomes[p]`, which may depend on whether the plugin's
setting is already in place (`settled`); when it raises the effect is there or not. The result is
recorded in a later step (`RecordSaved`, `RecordUnsaved`, `RecordRaised`, `RecordLost`), so that a
crash can fall in between. `SkipDone` and `SkipUnsupported` are the two ways past a plugin.
`rebootPending`, `ran`, `handled`, `reports` are history: what the machine still owes, which plugins
have returned under which id, which succeeded in this run, what this run reported.

**Environment.** `PowerLoss` (machine boots again), `Kill` (service restarted without a boot),
`Clone` (the registry goes to another instance id, and any of the settings may have to be made
again), a failing registry write, a failing call to the metadata service, no service found, a refused
`InitiateSystemShutdownEx`. `Faults` selects among them; `MaxInterruptions` bounds the first three.
An exception of `provisioning_started` or `get_instance_id` (init.py:199) leaves `configure_host` before
its `try` block, with no MAIN plugin run and nothing reported: it is modelled, and nothing in the
repository says what should happen, so no property forbids it.

**Runs.** `init_safety` lets the three MAIN plugins return anything or raise, and the two early
plugins ask for a reboot, not ask for one or raise; one service gives instance ids, the other none;
one plugin is unsupported on this OS. It shows the type invariant and the five safety properties in `InitManager` (statuses
come from own executions, DONE is final, a completed report is true, no completion and
no plugin on top of a pending reboot) and the refinement of `PluginLedger`. The fault "kill" is left out of
this run because the code keeps no record of a pending reboot: after a restart of the service alone
the plugin is skipped as DONE and the reboot is never made. `init_converge` includes it, with plugins
that ask for a reboot only when they changed something, except for one that asks once whatever it found.

**Bounds.** Two instance ids are enough for a status to go to the wrong one, one plugin in each early
stage for a reboot there, three MAIN plugins for one before, at and after any plugin of interest;
two interruptions allow a crash in the recovery from a crash. The bound limits interruptions only;
reboots are unbounded, which is why `init_converge` is a real question.

**Fairness.** `FairSpec` assumes weak fairness of `Boot` (the hypervisor or the reset brings the
machine up), `Restart` (a killed service is restarted) and `ProcessStep` (a single thread goes on to
its next statement; waiting for sysprep ends, and a request to the metadata service is answered or fails:
what happens to one that is not is in `MetadataServices`). Nothing is assumed of interruptions or results: there
are finitely many of the former because of the bound.

**Proved** (`InitManagerProofs`, for any plugins, stages, services, ids, options and faults):

| theorem | property | argument |
| --- | --- | --- |
| `TypeCorrect` | `TypeOK` | inductive with `RecordInRange`: a plugin being recorded is in the list |
| `SavedStatusesAreOwn` | `StatusFromOwnRun` | `LedgerInv`: what waits to be recorded has returned under this id |
| `DoneForever` | `DoneIsFinal` | `WhoWrites`: only `RecordSaved` writes, and only for a plugin not yet DONE |
| `Refinement` | `ImplementsLedger` | every step maps to a step of the ledger or a stutter |
| `CompletedReportsAreTrue` | `CompletedIsTrue` | `VerdictInv` = `HandledInv` (while the stage is a success every plugin before `idx` was handled), `FlowInv` (where the process can be with a service or a plugin stage), `ReportInv` |
| `RebootBeforeDone` | `NotDoneWhileRebootPending` | `PendingInv`, assuming "kill" is no fault |
| `RebootBeforePlugins` | `RebootBeforeNextPlugin` | `PendingInv`, assuming "kill" is no fault |

`PendingInv` is the heart of the last two: while a reboot that is allowed is pending, either the
plugin that asked is being recorded, or `rebootRequired` still says so on a path that leads to the
reboot, or the process has ended without doing anything more. It fails after a kill, which is exactly
the assumption. `ConfigAssumption` is the only other one, the types of the constants.

## UserPassword

**Correspondence.** `pc` walks through CreateUser, the plugins between, SetUserPassword and
ConfigWinRMCertificateAuth, one step for each call that changes the machine or the cloud.
`account[u]` is a password or `Absent`; generated passwords are numbers in the order of generation,
so that no two are the same. `slot` is the OpenStack password slot, which takes one password;
`server` the CloudStack password server, which a cloud user may refill (`Reset`). `sharedUser` and
`sharedPwd` are `shared_data`; `user`, `pwd`, `tries` the locals of the running plugin. `config` is
chosen at the start: the kind of service, `inject_user_password`, `rename_admin_user`, an admin
password, an SSH key, a user name in the metadata. The plugins between CreateUser and SetUserPassword
(network, user data and so on) matter only because they may reboot (`Between`).

**Windows.** The code cannot keep its promise in every case, and the model says precisely when: the
history variable `windows` records each way in which a behaviour has left the path, at the step where
it happens, and the properties may fail only with one of them.

| window | what happened |
| --- | --- |
| `reposted` | SetUserPassword ran again after it had posted; the slot does not take the new password |
| `recreated` | CreateUser ran (again) after the delivery and set a temporary password |
| `wronguser` | the user name in `shared_data` was lost and the configured user took its place |
| `nouser` | the account did not exist, the plugin was saved as DONE nevertheless |
| `metadata` | the certificate is mapped with the metadata's password, which the account may not have |
| `unshared` | the password was set and the plugin failed before it shared it |
| `lost` | the CloudStack password was deleted and then the plugin crashed, the account refused it (`set_user_password` raised), the deletion was not answered, or only the certificate plugin asked for it |
| `overtaken` | a new CloudStack password arrived between the read and the deletion |

The last choice of the cloud user is what counts: a `Reset` closes `lost`, `overtaken` and `recreated`,
and `Discarded` opens `lost` only when neither the server nor the account has that choice any more.

**Runs.** `password_windows` checks, over 34 configurations, three kinds of image and every fault:
`PasswordKnown`, `ChosenIsNotLost`, `PostedIsSet`, `MappingOpensSession`. Three interruptions allow a
failure at one boot, a crash in the repetition and a reboot; `RetryCount` 1 allows one repeated POST;
two resets allow one to overtake the other. `password_temporary`, `password_username` and
`password_conflict` each show one disagreement, see Findings.

**Proved** (`UserPasswordProofs`, for any accounts, configurations, faults, retries and resets; the
only assumption is `PasswordAssumption`, the types of the constants and that CloudStack has no user
name in its metadata, as `metadata/services/cloudstack.py` defines no `get_admin_username`):

| theorem | property | argument |
| --- | --- | --- |
| `TypeCorrect` | `TypeOK` | inductive with `UserInv`: a running plugin keeps the user it chose when it started |
| `PostedPasswordsAreSet` | `PostedIsSet` | `HeldInv`: from the logon to the POST the account has the password in hand |
| `MappingsOpenSessions` | `MappingOpensSession` | `HeldInv`: so it has the one in `shared_data`, and the one about to be mapped |
| `DeliveredPasswordsAreKnown` | `PasswordKnown` | `KnownInv` on top of `HeldInv` |
| `ChosenPasswordsAreKept` | `ChosenIsNotLost` | `ChosenInv` on top of `ServerInv` |

`PasswordKnown` is far from inductive: it speaks of the end of SetUserPassword only. `KnownInv` says
what has to hold on the way as long as no window has opened: the plugin acts on the user of the
metadata, an injected password is the one being applied, and the slot is empty or already holds the
password in hand, so that a POST that was answered too late does no harm. `HeldInv` is needed first,
because the account must still have that password when the plugin is saved as done.

`ChosenIsNotLost` speaks of rest only. `ChosenInv` follows the password that the cloud user has chosen:
it is on the server until the deletion, then in the hand of the plugin, then on the account, which is
always that of the configured user. `ServerInv` says what the server can hold, so that the deletion is
known to remove that password and no other unless it was `overtaken`. Between the deletion and the
account only the plugin has the password: `LossIsDiscarded` covers its two ends there, the crash and a
`set_user_password` that raises.

## UserScripts

**Correspondence.** A user data or a directory is a sequence of parts: tasks (a script, EC2 sections,
a cloud-config with a host name or a runcmd) of one or two pieces, part handlers, parts for part
handlers, parts that are ignored. `RunPiece` runs a script with any exit code of `Codes`; `Combine`
is how the code is added to what the task has come to (`execcmd.py:217`, `cloudconfig.py:72`);
`PartOver` and `ScriptOver` turn the total into a status and a reboot and combine these with the
earlier ones, differently for the two plugins, as the code does. `asked` is what the scripts asked
for, read by the documented meaning of the codes. `windows` names the combinations that do not
preserve it: added codes of EC2 sections, the fixed answer of a cloud-config, a later part that
overwrites an earlier one.

A part handler is registered for its types (`RegisterHandler`, `pc` goes to `"begin"`) and then sent
`__begin__` (`BeginHandler`); `handlers` is the dictionary of types, `begun`, `given` and `ended` are
what the handlers have seen. A handler may list no type of its own (`SkipHandler`) or not load at all
(`HandlerUnusable`), and `__end__` may raise (`EndFails`). `Manages` says, from the message and `begun`
alone, which handler a part at a position belongs to: it is compared with what the dictionary did.

**Runs.** `scripts_codes`: seven user data and three directories over three boots (the first run, its
repetition, and the repetition of that). `scripts_runcmd` shows the finding about runcmd.
`MaxBoots` bounds the boots; nothing else is unbounded.

**Proved** (`UserScriptsProofs`, for any user data, directories, content types and exit codes; the
only assumption is `ScriptsAssumption`, the types of the constants):

| theorem | property | argument |
| --- | --- | --- |
| `TypeCorrect` | `TypeOK` | inductive with `FreshInv`: the first plugin of a boot starts from fresh locals |
| `PartsGoToTheirHandlers` | `GivenToManager` | `HandlersInv`: the dictionary has the newest handler of each type |
| `HandlersAreEnded` | `EndedUnlessReplaced` | `RegisteredManage`, from `HandlersInv` |
| `RebootsAsAsked` | `RebootAsAsked` | `RebootInv` |
| `NothingRunsBeforeReboot` | `NothingAfterRebootRequest` | `RebootInv`, for scripts, parts, handlers begun and ended alike |
| `RerunsAsAsked` | `RerunAsAsked` | `RerunInv` on top of `RebootInv` |

What was asked for travels through three variables, so the invariants say where it is at each
point. Between two tasks `reboot` (`status`) is what was asked. Within a task it is in `total`, which
the bits of `RebootOf` and `StatusOf` must read as the documentation does (`CodesAsDocumented`); of
the tasks with two pieces only a cloud-config keeps a request for a reboot, by answering 1003, which
is why RebootInv covers it and RerunInv does not. While the handlers are ended nobody has asked for a
reboot, or the loop would have returned. That a request for a reboot leaves the loop at once is what
lets the last script alone decide.

## NetworkConfig, NetworkLinks and NetworkAdapters

**NetworkConfig** chooses between the two paths by the version of the details the metadata service has,
or neither. A machine has one version only, so the other path stays where it began.

**Correspondence, version 2.** `pass` and `link` are the three loops of `_process_network_details_v2`
over the physical links, the bonds and the VLANs and the position in them; `pc` is the call being made,
with `"networks"` the fourth loop. `names`, `teams`, `nics` are the machine: the name of each adapter,
the adapters of each team, the NICs with their team; `ready` and `addressed` say which links were given
their settings and their address. Most calls can end in three ways: `X`, they work; `XFails`, they
raise and did nothing; `XUnanswered` (or `RenameUnseen`), they raise although they worked. A call for
something impossible (a name in use, an adapter that is in a team) always fails. `Again` is the retry
decorator around a single call, `FromTheStart` the one around `create_team` and `add_team_nic`, which
call decorated functions themselves: `tries` and `outer` are the two counters. `Delete` is the handler
in `create_team`: the deletion is retried too, and whatever it comes to `create_team` raises, so its own
decorator starts it again. The creation itself precedes the `try`, which is why `CreateTeamFails` and
`CreateTeamUnanswered` do not go through `Delete`.

**Correspondence, version 1.** `Incomplete`, `Match` and `NoPosition` are the loop of `_preprocess_nics`,
with the dictionary `macnics` filled in the same step; `completed` has the details whose IPv4 address was
made from the IPv6 one, which happens only to those without a MAC address. `NextFamily`, `NextAdapter` and
`Unbound` are the statements from `reboot_required = reboot or reboot_required` on; `reboot` starts as
`"unbound"` because the first such statement may come before any assignment. The calls of
`set_static_network_config` are a step each, so that a failure can leave an adapter without its old
address and without a new one. Addresses are the numbers of the details they come from. `asked` is
history: whether some call of this execution asked for a reboot, as an old Windows may.

**Assumed of Windows.** Adapters and NICs have different names; a team's name is unique; an adapter
is in one team at most; a team is created whole or not at all; deleting it removes its NICs; the NIC of
a team takes the MAC address of an adapter in it, so that the look-up by MAC address finds two.

**Windows.** A half-built team has one of three causes, recorded in `windows`: the creation was
`"unanswered"`, the deletion failed to the end (`"undeleted"`), or the machine `"crashed"`.

**Runs.** `network` shows that the plugin, when it is done, has what the details say
(`DoneIsConfigured`; in version 1 for an adapter that one detail alone names, see `Sole`) and made the
teams itself (`DoneIsOwnWork`: a half-built team that it finds is never passed off as done), that
nothing else leaves a half-built team (`NoHalfTeam`), that a team in service is not touched by a
repetition (`ReadyTeamKept`: the order of creation and `try` protects it), and that the plugin asks for a
reboot exactly when one of its calls did (`RebootAsAsked`). It also shows what becomes of failures in
the end (`Converges`): the plugin is done, or it failed after it had created a team. The second case is
no slip of the model: a team that is there makes the look-up of its adapters by MAC address ambiguous,
and its creation impossible, so every later execution fails and the machine keeps what the failed one
left. `network_v6only` shows finding 5.

**Bounds.** Two adapters are one bond with two members; one bond and one VLAN exercise each pass;
the three namings are right, partly wrong and swapped, the last of which no order of renaming resolves
(`Feasible` excludes it). The retry counts are one where the code has three, five and ten: one
repetition distinguishes the first, a middle and the last attempt. Six failures exhaust two nested loops
and leave two for the next execution. In version 1 there are no, one or two adapters, listed in and out
of the order of their names, and details by MAC address, by name and by position, complete and
incomplete, competing.

**Fairness.** `FairSpec` assumes weak fairness of `Next`: the thread goes on to its next call, and a
machine whose plugin failed or crashed is booted again at some time.

**Proved** (`NetworkAdaptersProofs` for version 1, `NetworkLinksProofs` for version 2 and for both
together; for any details, adapters, retry counts, failures and crashes):

| theorem | property | argument |
| --- | --- | --- |
| `NetworkTypes` | `TypeOK` | `PlaceInv`, `MachineInv`, `PluginInv`; `AddressesTypeInv` |
| `NoTeamIsHalf` | `NoHalfTeam` | `TeamsInv` |
| `DoneWorkIsOwn` | `DoneIsOwnWork` | `BuiltInv` |
| `DoneMachineIsConfigured` | `DoneIsConfigured` | `InPlaceInv` for version 2, `SettledInv` for version 1 |
| `RebootIsAsked` | `RebootAsAsked` | `RebootInv` |
| `ReadyTeamsAreKept` | `ReadyTeamKept` | `ReadyInv` |

Version 2. `Over(pass, i)` says that the execution has a link behind it, and most of the work is to
show that a later call does not undo what was done for it. `NamesInv` does that for names: no adapter
has the name of a NIC, no two NICs the same, and once a team exists every physical link has its name.
`TeamsInv` follows `create_team`: at the call for member n the team has the members before n and the
primary one and its NIC; a team outside the call has all of them or does not exist, unless a window has
opened. `ReadyInv` is what protects a team in service: its name is taken by its NIC, so that a creation
under that name fails before the `try` and never reaches the handler which deletes. With these,
`BuiltInv` and `InPlaceInv` say of each link behind what `DoneIsConfigured` says at the end.

Version 1. `MatchedInv`: `macnics` has for each adapter the last detail before `nth` given to it, with
the IPv4 address made from its IPv6 one when it had none. `SettledInv`: each adapter and family is either ahead of the two
loops or has what that detail wants. `CallInv` and `NoneInv` carry it over the calls between which the
adapter has no address.

`NetworkConfigAssumption` has the types of the constants and three facts about the inputs. The adapters
of a machine have different MAC addresses and names. No details give one MAC address two names, and no
two bonds have the same name: links are
keyed by their id where the details are parsed (`metadata/services/baseopenstackservice.py:105-160`),
and the plugin, which does not check either, would rename an adapter twice or create one team twice.

## HostConfiguration, ServiceAccount, HostSettings and RemoteAccess

**Correspondence.** `HostConfiguration` boots a machine again and again: `ServiceAccount` is
`_reset_service_password_and_respawn`, `HostSettings` a stage of plugins, `RemoteAccess` the three
plugins that open the machine for its owner. `turn` says which of them runs; the four share `failures`.

`ServiceAccount`: `password` is the account's, `credentials` what the service manager logs the service
on with; `Startable` compares them. `Logon` and `Spawn` start the child with `--noreset_service_password`
(`NoReset`), the parent then only waits. Passwords are numbers modulo 4, so that a new one always
differs from the last ones.

`HostSettings`: a plugin keeps nothing in memory but its position, so it is written as the sequence of
its calls and one action per *kind* of call says what the call does to `stored` settings (`Put`, `Drop`,
`Sync`, `Try`: exit code not looked at, `Reconfigure` and `Rename`: with a reboot). `active` is what the
running system uses of the settings it reads at its boot only; a host name is compared with it, the
clock setting and the page files with what is stored. `asked` is what the execution wants a reboot for;
`forgotten` what an execution that raised would have asked a reboot for.

`RemoteAccess`: `Lift`, the body and `Restore` are the `try`/`finally` of both configuring plugins,
`lifted` the local variable that `finally` looks at. The body's steps follow the loops over listeners and
client certificates. `Denied` is what Windows before 8 answers while the UAC restrictions are on.
`left` is history: a crash or a failing `finally` has left the restrictions off.

**Run.** `host`: five machines (account missing, built in, of a domain, local, with the program running
as the service's user or not; old and new Windows; 17 plugins), every call may raise, the power may fail
anywhere. `LogonIsFresh`: no plugin runs while the service could not be logged on at the next boot, and
the password is reset once. A crash between the two writes does leave such a service (`Settles` names
that end). `DoneIsSet`: what a failure left halfway is completed before the plugin counts as done.
`RebootNotMissed`: what is stored is in use when a stage ends without a reboot, except after
`forgotten`: the clock setting is stored, `verify_time_service` raises, and the next execution finds
nothing to do. `RemoteAccessAsConfigured` and `LiftedOnlyInside` are the promises of the remote access
plugins; `Settles`: the machine comes to rest, no plugin reboots it for ever.

**Bounds.** Two failures allow one in a `finally` clause after one in the body, or one in the repetition
of a failed plugin; one crash or restart at rest shows what an execution finds of an earlier one.

**Fairness.** `FairSpec` assumes weak fairness of `Own`: process and machine go on. Nothing is assumed
of `Crash`.

**Proved** (`HostConfigurationProofs`, for any machines, settings, failures and crashes; the assumptions
are the types of the constants, and `Consistent`: a setting with a wanted value goes with the option,
the metadata or the Windows version that its plugin looks at before it sets it, for instance no value
for the Azure guest agent without the metadata's request to provision it):

| theorem | argument |
| --- | --- |
| `HostTypes` | `TypeOK`, with `AccountInv`, `SettingsTypeInv` and `StepInv`, which add where each of the three parts is |
| `RemoteAccessIsAsConfigured` | `LoopInv`, `ListenInv` and `MapInv`: of the list in hand, the entries that were handled have their listener and port (the last one for each protocol) and their mapping, and what was deleted is about to be created again. A plugin recorded as done has an empty list left. |
| `RebootsAreNotMissed` | `WaitingInv`: a setting that is stored and not active is in `asked`, or in `forgotten` because an execution that raised would have asked. |
| `RecordedPluginsAreDone` | `SetInv`: each setting wanted is set or one of the calls left sets it (`Sets`), and no call left, of this plugin or of another, removes what a recorded plugin has set (`Keeps`). Every program in `HostSettings` is gone through call by call. |
| `LogonsAreFresh` | `ResetInv` says at each step of the reset which process has the logon of which password: the child exists only after the credentials were set to the account's new password. `AccountInv` adds that plugins run only after its end; they touch neither password nor credentials. |
| `RestrictionsComeBack` | `LiftInv`: inside a body of an old Windows the restrictions are off, `lifted` is false outside bodies and their restore and true only where they were on, and without `left` and `lifted` the restrictions are those of the machine. It is inductive; the property alone is not, because it does not say what `lifted` remembers. |

## MetadataServices and what it composes

**Correspondence.** `MetadataServices` is `get_metadata_service` and what `configure_host` does with its
result: `TryService` makes the next configured service and calls `load()`, `Ask` is a plugin that reads,
`Cleanup` the service's. A class that cannot be loaded or made raises outside of the `try` (`NotMade`) and
ends the run. A request that is taken and never answered (`Hang`) holds up the process for good, since
`requests.request` has no timeout; `turn` is then `"hung"`. Where `load()` is long it is a module of its own.

`ConfigDrive`: `untried` has the pairs of type and location in one of the orders in which two Python sets
may be iterated; `folder` is the target folder with what each attempt left in it. A CD-ROM or volume must
have the label and the metadata file, then the folder is removed (which fails unless it is empty) and
copied to; a VFAT disk must have the label and is read by mcopy, whose exit code nobody looks at; a raw
disk or partition only has to be fixed, longer than the header of an image, and hold one, whose size is
read as two bytes (`IsoFileSize`). Partitions are searched disk by disk, in any order of the disks
(`OpenDisk`); a disk without a partition style raises and ends that search (`BlankDisk`), of which the
partitions of the disks before it are looked at and those after it are not. bsdtar is taken at its word:
its exit code is zero only if all files were extracted.

`AzureProvisioning`: the search for the wire server is three nested loops (`searches`, `attempts`, and
`clock`, which each reply to somebody else's request winds on); then `goal` is fetched at most once and
everything else carries its incarnation. `Unanswered` is a request that fails, `PostLost` a report
that the fabric got. `Move` is the fabric. The steps after `loaded` are the run of `configure_host`.

`MetadataSession`: a method of a service is the sequence of the items it reads, each under the first of
its names that exists (`Must`, `May`, `Lenient`). `cache` and `tries` are the base class's; absence is
not cached and not retried. `Publish` changes the source while it is used. `told` is history: what each
name has been seen to be.

`NativeResources`: a function is the sequence of its calls with blocks (`try`/`finally`), alternatives and
loops; `frames` is what remains to be executed, innermost first, and an exception (`Raise`) leads through
the `finally` clauses. The functions do not interact with the services and run in a cloud without any.

**Run.** `metadata`, over 34 clouds. `DriveIsWhole` says of each way to read a drive how far what is found
can be trusted: copied file by file it is one drive with label and metadata file, all of it; read by mcopy
it may have ended early; extracted from an image neither label nor metadata file was looked for, and
files of an earlier extraction may lie next to it. `NotMissed`: without failures and large images a
drive is found wherever the options have it searched for, whatever the order of the sets and of the
disks. What the code does not see even then is in `ReachedBy`: an image on a removable device or on a
disk smaller than a cylinder, and one on a partition while a blank disk is attached, because of which the
search may end before it. `SteadyReads`: one value for each name in a run, from the service that
was loaded. `HealthReports`: what the fabric shows at each point; a failure is reported whether or not
the machine reboots, success only without. `NothingLeft`: whatever raises, nothing is freed twice or left,
except for what is named: the key container of a self-signed certificate is never deleted, a profile stays
loaded; `delete_certificate_from_store` frees a context that its deletion has freed, and
`_get_forward_table` frees its first table again when there is no memory for the second; a device whose
geometry cannot be read stays open. `DiscoveryEnds`: the loops end, in a service or in none, or in a
request that is never answered.

**Bounds.** Two services suffice for one to fail and the next to be used, three for a middle one. Up to four
devices, so that right ones compete with wrong ones at each location; two failures, so that a failed
attempt is followed by another. The counts of retries, searches, bind attempts and ticks are 1 or 2 where
the code has 5, 75, 10 and a time. One change of the cloud and three methods are enough to read before
and after it. A loop in a native function is repeated twice.

**Fairness.** `FairSpec` assumes weak fairness of `Own`: the process goes on, and so do the programs it
starts (mcopy, bsdtar). The cloud may refuse a request, lose it, answer it wrongly or, with `Hang`, never,
after which the process takes no step: that end is one of those `DiscoveryEnds` names, as nothing in the
code prevents it. Only the wait for a DHCP reply has a deadline (`Timeout`), so that it cannot hang.

**Proved** (`MetadataServicesProofs` and `NativeResourcesProofs`, for any clouds, counts of retries,
failures, lost requests and changes, and any number of rounds of the native loops). The assumptions about
a cloud are the types of its parts, that an image has blocks, and that the types and locations searched
for are among the known ones: `load()` raises for others before it searches
(`metadata/services/baseconfigdrive.py`, `_preprocess_options`). The native functions that are called are
some of those in `Body`.

| theorem | argument |
| --- | --- |
| `ReadsAreSteady` | `CacheInv`: what was told of a name is what is cached under it, and nothing is told of a name that is not cached; so a value that is published later cannot be told next to it. `InUseInv` follows the service from the attempt to its use. |
| `ReportsAreTrue` | `StartedInv` ties what the fabric shows to the goal state fetched at the first report, which no step of the run replaces; `OutcomeInv` says that the steps which report an outcome are entered with it; `ReadyInv` and `OverInv` carry it over lost answers and later goal states. |
| `ServiceTypes` | `TypeOK`: `TurnTypeInv` (services ahead are configured ones), `SessionTypeInv` and `AzureTypeInv`, with the types of the drive search. A position in a method needs that each method of each service is a sequence (`ServicesHaveMethods`). |
| `DrivesAreWhole` | `TakenInv`: what is being copied or extracted has passed the tests of its way of reading. `CleanInv`: while nothing fails and nothing is found, each attempt finds the folder empty, and removed for a copy. `FoundInv` is then what the last call of an attempt makes true, and no later call touches the folder. |
| `DrivesAreNotMissed` | The searches are a walk over two sets in any order, of which a first lemma shows that it has each type at each location. `SearchedInv`: while nothing fails, each of these pairs is ahead, or what it reaches was looked at and was no drive of the service (`Remains`: while it is searched, a partition or the disk it is on is still to be looked at; only a blank disk takes it away). |
| `NativeIsGivenBack` | `NativeInv`: what remains of the blocks is safe from what is held now. The argument is below. |

`NothingLeft` speaks of programs with nested blocks, of which `frames` keeps what remains. What a rest of a
program gives back could be defined by recursion over it, but facts about it would need induction over
data. The proof does without:

- The steps are those of a small machine (`Leads`) over what is held, freed, raised and wrong; `NextLeads`
  shows that each action of the model is one.
- A state is `Safe` if it is in a set of good states that no step leaves (`Closed`). The union of such sets
  is one again, so a state is safe as soon as it is good and its successors are safe (`SafeStep`): no
  induction over runs either. For the model this is the inductive invariant.
- `Triple(p, P, Q, E)` says of a part `p`, whatever comes after it and around it: if that is safe from `Q`,
  and the way out by an exception from `E`, then `p` is safe from `P`. There is a rule for calls, sequences,
  alternatives, `try`/`finally` blocks (`BlockRule`) and loops (`ManyRule`: from an unsafe state with as many
  rounds behind it as possible one more round would lead to an unsafe one with more, and their number is
  bounded by `MaxRounds`, any natural number).
- The assertions (`Holds`) say what a function holds for certain, what it may hold, and what it may have
  freed since it got it last. A `finally` clause frees a pointer to freed memory only where that is one of
  the known double frees (`Tolerant`).
- The functions are then proved as they are written, each once and for whatever calls it
  (`ThumbprintFrees`, `FindCertificateFrees` and `DecodePkcs7Frees` are used by several), and `EveryCall`
  joins them.

## Findings

1. A failure of CreateUser leaves the account, one boot later, with a temporary password that nobody
   knows and nothing replaces (`password_temporary`).
2. After a reboot between CreateUser and SetUserPassword the user name of the metadata is forgotten
   and the password of another account is changed (`password_username`).
3. The handler for a 409 of the password slot catches the wrong exception class, so a password that is
   already there makes the plugin fail (`password_conflict`).
4. A runcmd that returns 1001 makes the machine reboot at every boot, for ever (`scripts_runcmd`).
5. Network details for IPv6 only make the network plugin fail at every boot, because `reboot` is read
   before it is assigned (`network_v6only`).

## What is only model-checked, and what is not modelled

`Converges` of `InitManager` and of `NetworkConfig`, `Settles` and `DiscoveryEnds` are liveness, which the
proof system does not cover, and stay with TLC. Every other property of a passing run has a theorem.

Abstracted in the modelled parts: passwords are identities (length, complexity and encryption are
not there); group membership and logon flags are not there; the script languages and file types do not
matter; template rendering, gzip and MIME parsing are done before the model begins. Of the network
details the addresses are identities too; choosing name servers and the reboot that an old Windows asks
for on the v2 path are not there. Intervals between retries are not there: time appears as the order of
steps, and as ticks where a deadline is tested. Values of settings are old, new or absent.

Not modelled: what a cloud-config directive does to the machine (users, groups, files, time zone), the
parsers of network data (OpenStack JSON, debian interfaces, network-config), instance metadata for
templates and the templates, the notification that Packet's phone-home sends, serialization, cryptography,
options, logging, the version check. They convert data or make a single call without a state of their own.

## Plan

Done: 1. `InitManager`, `PluginLedger` and proofs. 2. `UserPassword`. 3. `UserScripts`, both with proofs.
4. `NetworkConfig` with `NetworkLinks` and `NetworkAdapters`. 5. `MetadataServices` with `ConfigDrive`,
`MetadataSession`, `AzureProvisioning`, `NativeResources`. 6. `HostConfiguration` with `ServiceAccount`,
`HostSettings`, `RemoteAccess`. 7. Proofs of every safety property.

To come: cloud-config directives as programs of `HostSettings`; the parsers of network details as
functions checked over small details.
