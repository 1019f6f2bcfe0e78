------------------------- MODULE HostConfiguration -------------------------
(***************************************************************************)
(* One boot after the other, as configure_host and the plugins drive them: *)
(* the service's account first, then the plugins that set the host up, a   *)
(* reboot as soon as one of them asks for it, then remote access.  Power   *)
(* may be lost at any step, and somebody may restart the machine at rest.  *)
(***************************************************************************)
EXTENDS Naturals, Sequences

CONSTANTS
  Machines,     \* [account, own, settings, remote]: what is set up, and for what
  Self, NoCert, NoListener,
  MaxFailures,  \* bound: calls that raise
  MaxCrashes    \* bound: crashes, and restarts at rest

VARIABLES
  turn,         \* "off", "account", "settings", "remote" or "rest"
  crashes, failures,
  accountPc, account, own, process, password, credentials, resets,
  settingsPc, at, calls, settingsHost, stored, active, asked, settingsDone, forgotten,
  remotePc, plugin, remoteHost, mode, running, restrictions, lifted, todo, store,
  listener, ports, mappings, auth, raised, remoteDone, left

Account == INSTANCE ServiceAccount WITH
  Accounts <- {m.account : m \in Machines}, pc <- accountPc

Settings == INSTANCE HostSettings WITH
  Hosts <- {m.settings : m \in Machines}, pc <- settingsPc, host <- settingsHost, done <- settingsDone

Remote == INSTANCE RemoteAccess WITH
  Hosts <- {m.remote : m \in Machines}, pc <- remotePc, host <- remoteHost, done <- remoteDone

ASSUME HostConfigurationAssumption ==
  /\ MaxFailures \in Nat /\ MaxCrashes \in Nat
  /\ \A m \in Machines :
       /\ m.settings.plugins \in Seq(DOMAIN Settings!Calls) /\ Settings!Consistent(m.settings.given)
       /\ m.remote.restricted \in {"on", "off"} /\ m.remote.mode \in {"manual", "disabled", "auto"}
       /\ m.remote.server \in Seq(Remote!Certs) /\ m.remote.client \in Seq(Remote!Certs)
       /\ m.remote.listeners \in Seq([protocol : Remote!Protocols, cert : Remote!Certs])

accountVars == <<accountPc, account, own, process, password, credentials, resets>>
settingsVars == <<settingsPc, at, calls, settingsHost, stored, active, asked, settingsDone, forgotten>>
remoteVars == <<remotePc, plugin, remoteHost, mode, running, restrictions, lifted, todo, store,
                listener, ports, mappings, auth, raised, remoteDone, left>>
vars == <<turn, crashes, failures, accountVars, settingsVars, remoteVars>>

-----------------------------------------------------------------------------
Init ==
  /\ turn = "off" /\ crashes = 0 /\ failures = 0
  /\ Account!Init /\ Settings!Init /\ Remote!Init
  /\ [account |-> account, own |-> own, settings |-> settingsHost, remote |-> remoteHost] \in Machines

\* The service manager logs the service on, if it can.
Boot ==
  /\ turn = "off" /\ Account!Start
  /\ turn' = "account"
  /\ UNCHANGED <<crashes, settingsVars, remoteVars>>

Reset ==
  /\ turn = "account" /\ Account!Next
  /\ UNCHANGED <<turn, crashes, settingsVars, remoteVars>>

ResetOver ==
  /\ turn = "account" /\ accountPc = "over" /\ Settings!Start
  /\ turn' = "settings"
  /\ UNCHANGED <<crashes, accountVars, remoteVars>>

Gone ==
  /\ turn = "account" /\ accountPc = "gone"
  /\ turn' = "rest"
  /\ UNCHANGED <<crashes, failures, accountVars, settingsVars, remoteVars>>

Configure ==
  /\ turn = "settings" /\ Settings!Next
  /\ UNCHANGED <<turn, crashes, accountVars, remoteVars>>

ConfigureOver ==
  /\ turn = "settings" /\ settingsPc = "over" /\ Remote!Start
  /\ turn' = "remote"
  /\ UNCHANGED <<crashes, accountVars, settingsVars>>

Open ==
  /\ turn = "remote" /\ Remote!Next
  /\ UNCHANGED <<turn, crashes, accountVars, settingsVars>>

OpenOver ==
  /\ turn = "remote" /\ remotePc = "over"
  /\ turn' = "rest"
  /\ UNCHANGED <<crashes, failures, accountVars, settingsVars, remoteVars>>

\* Whatever the processes kept in memory is gone.
Down == turn' = "off" /\ Account!Halt /\ Settings!Halt /\ Remote!Halt /\ UNCHANGED failures

Reboot == turn = "settings" /\ settingsPc = "reboot" /\ Down /\ UNCHANGED crashes

Crash ==
  /\ turn # "off" /\ crashes < MaxCrashes
  /\ crashes' = crashes + 1
  /\ Down

Own ==
  \/ Boot \/ Reset \/ ResetOver \/ Gone
  \/ Configure \/ ConfigureOver \/ Open \/ OpenOver \/ Reboot

Next == Own \/ Crash

Spec == Init /\ [][Next]_vars

\* The machine and the service go on as long as they can.
FairSpec == Spec /\ WF_vars(Own)

-----------------------------------------------------------------------------
(* Properties *)

TypeOK ==
  /\ turn \in {"off", "account", "settings", "remote", "rest"}
  /\ crashes \in 0..MaxCrashes /\ failures \in 0..MaxFailures
  /\ Account!TypeOK /\ Settings!TypeOK /\ Remote!TypeOK

\* While plugins run, and so whenever one of them asks for a reboot, the service
\* can be logged on at the next boot: only an exception or a crash between the two
\* calls of the password reset leaves a service that cannot, and no plugin runs then.
\* The password is reset at most once in a boot, and no plugin has the old logon.
LogonIsFresh ==
  /\ turn \in {"settings", "remote"} => Account!Startable
  /\ Account!OneReset

\* A plugin that need not run again has set what it is there for.
DoneIsSet == Settings!DoneIsSet

\* A setting that takes effect at boot only gets its reboot.
RebootNotMissed == Settings!RebootNotMissed

\* Listeners and certificate mappings are there once their plugins are done.
RemoteAccessAsConfigured == Remote!RemoteAccessAsConfigured

\* The UAC remote restrictions are off while a plugin changes WinRM's configuration,
\* which is then never refused, and come back after each plugin that lifts them.
LiftedOnlyInside == Remote!RestrictionsComeBack /\ Remote!NeverDenied

\* No plugin asks for a reboot at each of its executions: the machine comes to
\* rest, or its service can no longer be started.
Settles == <>[](turn = "rest" \/ (turn = "off" /\ ~Account!Startable))

=============================================================================
