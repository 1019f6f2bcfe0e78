--------------------------- MODULE NetworkConfig ---------------------------
(***************************************************************************)
(* NetworkConfigPlugin.execute: the metadata service has version 2 details  *)
(* (NetworkLinks), else version 1 details (NetworkAdapters), else nothing   *)
(* is to be done.  The plugin works for one machine, and what one path      *)
(* keeps does not concern the other.                                        *)
(***************************************************************************)
EXTENDS Integers, Sequences, FiniteSets

CONSTANTS
  LinkAdapters, Names, LinkDetails, FactoryNames,
  RenameRetries, CallRetries, TeamRetries, NicRetries,
  Macs, NoMac, AdapterLists, AdapterDetails, Legacy,
  MaxFailures

VARIABLES
  version,    \* of the details the service has: 2, 1 or 0 for none
  failures,
  linkPc, pass, link, linkDetails, names, teams, nics, ready, addressed,
  oldName, member, tries, outer, built, windows,
  adapterPc, adapters, adapterDetails, legacy, nth, macnics, completed, family,
  reboot, rebootRequired, address, dhcp, asked

Links == INSTANCE NetworkLinks WITH
  Adapters <- LinkAdapters, Details <- LinkDetails, pc <- linkPc, details <- linkDetails

Addresses == INSTANCE NetworkAdapters WITH
  Details <- AdapterDetails, pc <- adapterPc, details <- adapterDetails

ASSUME NetworkConfigAssumption ==
  /\ LinkDetails \subseteq [physical : Seq(Links!Physical), bonds : Seq(Links!Bond),
                            vlans : Seq(Links!Vlan), networks : Seq(Names)]
  \* No adapter is given two names, and the bonds have ids of their own.
  /\ \A d \in LinkDetails :
       /\ \A i, j \in 1 .. Len(d.physical) :
            d.physical[i].mac = d.physical[j].mac => d.physical[i].name = d.physical[j].name
       /\ \A i, j \in 1 .. Len(d.bonds) : d.bonds[i].name = d.bonds[j].name => i = j
  /\ FactoryNames \subseteq [LinkAdapters -> Names]
  /\ NoMac \notin Macs
  /\ AdapterLists \subseteq Seq(Addresses!Adapter)
  /\ \A list \in AdapterLists : \A i, j \in 1 .. Len(list) :
       list[i].mac = list[j].mac \/ list[i].name = list[j].name => i = j
  /\ AdapterDetails \subseteq Seq(Addresses!Detail)
  /\ Legacy \subseteq BOOLEAN
  /\ {RenameRetries, CallRetries, TeamRetries, NicRetries, MaxFailures} \subseteq Nat

linkVars == <<linkPc, pass, link, linkDetails, names, teams, nics, ready, addressed,
              oldName, member, tries, outer, built, windows>>
adapterVars == <<adapterPc, adapters, adapterDetails, legacy, nth, macnics, completed, family,
                 reboot, rebootRequired, address, dhcp, asked>>
vars == <<version, failures, linkVars, adapterVars>>

-----------------------------------------------------------------------------
\* Of a path that is not taken, one initial state stands for all.
SomeAdapters ==
  CHOOSE m \in AdapterLists \X AdapterDetails \X Legacy : TRUE
SomeLinks == CHOOSE m \in LinkDetails \X FactoryNames : TRUE

Init ==
  /\ version \in 0..2
  /\ Links!Init /\ Addresses!Init
  /\ version # 1 => <<adapters, adapterDetails, legacy>> = SomeAdapters
  /\ version # 2 => <<linkDetails, names>> = SomeLinks

ProcessV2 == version = 2 /\ Links!Next /\ UNCHANGED <<version, adapterVars>>

ProcessV1 == version = 1 /\ Addresses!Next /\ UNCHANGED <<version, linkVars>>

NoDetails == version = 0 /\ UNCHANGED vars

Next == ProcessV2 \/ ProcessV1 \/ NoDetails

Spec == Init /\ [][Next]_vars

\* The plugin goes on to its next call, and the machine is booted again.
FairSpec == Spec /\ WF_vars(Next)

-----------------------------------------------------------------------------
(* Properties: those of the two paths. *)

TypeOK == version \in 0..2 /\ Links!TypeOK /\ Addresses!TypeOK

\* Done, the machine has the names, teams, NICs and addresses of the details.
DoneIsConfigured ==
  /\ version = 2 => Links!DoneIsConfigured
  /\ version = 1 => Addresses!DoneIsConfigured

\* Once create_team is over, the team is whole or there is none, but for named exceptions.
NoHalfTeam == version = 2 => Links!NoHalfTeam

\* A plugin that is done created its teams itself.
DoneIsOwnWork == version = 2 => Links!DoneIsOwnWork

\* The plugin asks for a reboot exactly when one of its calls did.
RebootAsAsked == version = 1 => Addresses!RebootAsAsked

\* networkconfig.py says "In v6 only case, nic.address and nic.netmask could be unset": the
\* plugin gets past such a detail.
V6OnlyIsNoFailure == Addresses!V6OnlyIsNoFailure

\* A team in service is neither taken down nor changed.
ReadyTeamKept == Links!ReadyTeamKept

\* Feasible version 2 details are configured in the end, unless a team is in the way.
Converges == version = 2 => Links!Converges

=============================================================================
