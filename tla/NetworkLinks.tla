---------------------------- MODULE NetworkLinks ----------------------------
(***************************************************************************)
(* NetworkConfigPlugin with version 2 details, on top of NetLBFOTeamManager:*)
(* adapters are renamed, teams and their network adapters (NICs) are        *)
(* created, addresses are set. Calls to Windows fail before or after their  *)
(* effect and are retried, three deep; the plugin is executed again at each *)
(* boot until it has returned once.                                         *)
(***************************************************************************)
EXTENDS Integers, Sequences, FiniteSets

CONSTANTS
  Adapters,       \* the physical adapters, by MAC address
  Names,          \* the names of adapters and NICs
  Details,        \* the network details considered
  FactoryNames,   \* the names the adapters may have at first
  RenameRetries,  \* max_retry_count of rename_network_adapter
  CallRetries,    \* of _create_team, _add_team_member, delete_team, _wait_for_nic
  TeamRetries,    \* of create_team
  NicRetries,     \* of add_team_nic
  MaxFailures     \* bound on the failures and crashes of a behaviour

\* A bond, a VLAN and a network refer to links by name: a link's id is its name. A mode
\* that NETWORK_MODEL_TEAM_MODE_MAP lacks is not supported.
Physical == [name : Names, mac : Adapters]
Bond     == [name : Names, mac : Adapters, members : Seq(Names), supported : BOOLEAN]
Vlan     == [name : Names, bond : Names]

VARIABLES
  pc,         \* the call the plugin is making
  pass,       \* the loop it is in
  link,       \* the link of that loop, or the network
  details,    \* the network details of this machine
  names,      \* adapter -> its name
  teams,      \* bond -> the adapters in its team, empty when there is no team
  nics,       \* the NICs, as pairs of name and bond
  ready,      \* links whose MTU and state were set
  addressed,  \* links whose address was set
  oldName,    \* rename_network_adapter: old_name
  member,     \* create_team: the position in the list of members
  tries,      \* try_count of the innermost decorator
  outer,      \* try_count of create_team or add_team_nic
  built,      \* bonds whose team was created in this execution
  windows,    \* ways in which a team can be left half built
  failures

machine == <<names, teams, nics, ready, addressed>>
plugin  == <<pass, link, oldName, member, tries, outer>>
vars == <<pc, plugin, details, machine, built, windows, failures>>

Links == [physical |-> details.physical, bonds |-> details.bonds, vlans |-> details.vlans]

Link == Links[pass][link]

TheBond == Link.name

Taken == {names[a] : a \in Adapters} \cup {nic[1] : nic \in nics}

Teamed == UNION {teams[b] : b \in Names}

Failure ==
  /\ failures < MaxFailures
  /\ failures' = failures + 1

\* A call fails: without a failure only when what it asks for is not possible.
Fails(possible) == IF possible THEN Failure ELSE UNCHANGED failures

Init ==
  /\ pc = "off"
  /\ pass = "physical" /\ link = 1
  /\ details \in Details
  /\ names \in FactoryNames
  /\ teams = [b \in Names |-> {}]
  /\ nics = {} /\ ready = {} /\ addressed = {}
  /\ oldName = "" /\ member = 1 /\ tries = 0 /\ outer = 0
  /\ built = {} /\ windows = {}
  /\ failures = 0

-----------------------------------------------------------------------------
(* The plugin. *)

\* It is executed at every boot until it has returned.
Execute ==
  /\ pc \in {"off", "failed"}
  /\ pc' = "link"
  /\ pass' = "physical" /\ link' = 1
  /\ built' = {}
  /\ UNCHANGED <<oldName, member, tries, outer, details, machine, windows, failures>>

Working == pc \in {"create", "member", "wait", "delete"} /\ pass = "bonds"

Crash ==
  /\ pc \notin {"off", "failed", "done"}
  /\ Failure
  /\ pc' = "off"
  /\ windows' = windows \cup (IF Working THEN {"crashed"} ELSE {})
  /\ UNCHANGED <<plugin, details, machine, built>>

\* Mutant: the position is kept from one loop to the next.
Mut_NextPass ==
  /\ pc = "link" /\ link > Len(Links[pass])
  /\ pass' = IF pass = "physical" THEN "bonds" ELSE "vlans"
  /\ pc' = IF pass = "vlans" THEN "networks" ELSE "link"
  /\ UNCHANGED <<link, oldName, member, tries, outer, details, machine, built, windows, failures>>

\* The next of the three loops over the links, then the loop over the networks.
NextPass ==
  /\ pc = "link" /\ link > Len(Links[pass])
  /\ pass' = IF pass = "physical" THEN "bonds" ELSE "vlans"
  /\ link' = 1
  /\ pc' = IF pass = "vlans" THEN "networks" ELSE "link"
  /\ UNCHANGED <<oldName, member, tries, outer, details, machine, built, windows, failures>>

\* The end of the body of a loop over the links: _process_link_common.
Common ==
  /\ pc = "common" /\ Link.name \in Taken
  /\ ready' = ready \cup {Link.name}
  /\ link' = link + 1
  /\ pc' = "link"
  /\ UNCHANGED <<pass, oldName, member, tries, outer, details, names, teams, nics, addressed,
                 built, windows, failures>>

CommonFails ==
  /\ pc = "common"
  /\ Fails(Link.name \in Taken)
  /\ pc' = "failed"
  /\ UNCHANGED <<plugin, details, machine, built, windows>>

\* set_static_network_config of the next network.
SetAddress ==
  /\ pc = "networks" /\ link <= Len(details.networks)
  /\ details.networks[link] \in Taken
  /\ addressed' = addressed \cup {details.networks[link]}
  /\ link' = link + 1
  /\ UNCHANGED <<pc, pass, oldName, member, tries, outer, details, names, teams, nics, ready,
                 built, windows, failures>>

SetAddressFails ==
  /\ pc = "networks" /\ link <= Len(details.networks)
  /\ Fails(details.networks[link] \in Taken)
  /\ pc' = "failed"
  /\ UNCHANGED <<plugin, details, machine, built, windows>>

Return ==
  /\ pc = "networks" /\ link > Len(details.networks)
  /\ pc' = "done"
  /\ UNCHANGED <<plugin, details, machine, built, windows, failures>>

-----------------------------------------------------------------------------
(* Retries. *)

\* A call that fails is repeated, limit times at most; then its caller goes on as told.
Again(limit, exhausted) ==
  \/ tries < limit /\ tries' = tries + 1 /\ UNCHANGED <<pc, outer>>
  \/ tries = limit /\ exhausted

\* create_team and add_team_nic begin again or give up, and the plugin with them.
FromTheStart(limit, start) ==
  /\ tries' = 0
  /\ \/ outer < limit /\ outer' = outer + 1 /\ pc' = start
     \/ outer = limit /\ outer' = outer /\ pc' = "failed"

GiveUp == pc' = "failed" /\ UNCHANGED <<tries, outer>>

-----------------------------------------------------------------------------
(* Physical links. *)

\* The adapter of a team and the team's NIC may both have the MAC address: then
\* get_network_adapter_name_by_mac_address raises.
LookUpFails ==
  /\ pc = "link" /\ pass = "physical" /\ link <= Len(details.physical)
  /\ Link.mac \in Teamed
  /\ pc' = "failed"
  /\ UNCHANGED <<plugin, details, machine, built, windows, failures>>

\* Mutant: an adapter that has its name is renamed as well.
Mut_Named == FALSE

Named == names[Link.mac] = Link.name

RenameSkip ==
  /\ pc = "link" /\ pass = "physical" /\ link <= Len(details.physical)
  /\ Named
  /\ pc' = "common"
  /\ UNCHANGED <<plugin, details, machine, built, windows, failures>>

RenameStart ==
  /\ pc = "link" /\ pass = "physical" /\ link <= Len(details.physical)
  /\ ~Named
  /\ oldName' = names[Link.mac]
  /\ tries' = 0
  /\ pc' = "rename"
  /\ UNCHANGED <<pass, link, member, outer, details, machine, built, windows, failures>>

\* The adapter still has its old name, and nothing has the new one.
Renamable == names[Link.mac] = oldName /\ Link.name \notin Taken

Rename ==
  /\ pc = "rename" /\ Renamable
  /\ names' = [names EXCEPT ![Link.mac] = Link.name]
  /\ pc' = "common"
  /\ UNCHANGED <<plugin, details, teams, nics, ready, addressed, built, windows, failures>>

\* The adapter is renamed, but not found by its new name yet.
RenameUnseen ==
  /\ pc = "rename" /\ Renamable
  /\ Failure
  /\ names' = [names EXCEPT ![Link.mac] = Link.name]
  /\ Again(RenameRetries, GiveUp)
  /\ UNCHANGED <<pass, link, oldName, member, details, teams, nics, ready, addressed, built,
                 windows>>

RenameFails ==
  /\ pc = "rename"
  /\ Fails(Renamable)
  /\ Again(RenameRetries, GiveUp)
  /\ UNCHANGED <<pass, link, oldName, member, details, machine, built, windows>>

-----------------------------------------------------------------------------
(* Teams. *)

\* Mutant: a team that is there already is taken for the one to be created.
Mut_BondStart ==
  /\ pc = "link" /\ pass = "bonds" /\ link <= Len(details.bonds)
  /\ tries' = 0 /\ outer' = 0
  /\ pc' = IF teams[TheBond] = {} THEN "create" ELSE "common"
  /\ UNCHANGED <<pass, link, oldName, member, details, machine, built, windows, failures>>

BondStart ==
  /\ pc = "link" /\ pass = "bonds" /\ link <= Len(details.bonds)
  /\ tries' = 0 /\ outer' = 0
  /\ pc' = "create"
  /\ UNCHANGED <<pass, link, oldName, member, details, machine, built, windows, failures>>

\* The adapter with the MAC address of the bond is among its members.
PrimaryKnown ==
  /\ \E m \in 1 .. Len(Link.members) : Link.members[m] = names[Link.mac]
  /\ Link.supported

\* create_team raises before it has created anything.
PrimaryUnknown ==
  /\ pc = "create" /\ ~PrimaryKnown
  /\ FromTheStart(TeamRetries, "create")
  /\ UNCHANGED <<pass, link, oldName, member, details, machine, built, windows, failures>>

\* Windows has no team of that name, the primary adapter is in none, the NIC's name is free.
Creatable ==
  /\ teams[TheBond] = {}
  /\ Link.mac \notin Teamed
  /\ TheBond \notin Taken

\* The put of _create_team: the team has its primary adapter and a NIC.
PutTeam ==
  /\ teams' = [teams EXCEPT ![TheBond] = {Link.mac}]
  /\ nics' = nics \cup {<<TheBond, TheBond>>}

CreateTeam ==
  /\ pc = "create" /\ PrimaryKnown /\ Creatable
  /\ PutTeam
  /\ member' = 1
  /\ tries' = 0
  /\ built' = built \cup {TheBond}
  /\ pc' = "member"
  /\ UNCHANGED <<pass, link, oldName, outer, details, names, ready, addressed, windows, failures>>

\* The team is there, the call raises: no handler deletes the team.
CreateTeamUnanswered ==
  /\ pc = "create" /\ PrimaryKnown /\ Creatable
  /\ Failure
  /\ PutTeam
  /\ windows' = windows \cup {"unanswered"}
  /\ Again(CallRetries, FromTheStart(TeamRetries, "create"))
  /\ UNCHANGED <<pass, link, oldName, member, details, names, ready, addressed, built>>

\* Mutant: the team is not deleted when something fails.
Mut_Delete == FromTheStart(TeamRetries, "create")

\* The handler of create_team: the team is deleted.
Delete == pc' = "delete" /\ tries' = 0 /\ UNCHANGED outer

\* Mutant: the creation of the team is in the try block as well.
Mut_CreateTeamFails ==
  /\ pc = "create" /\ PrimaryKnown
  /\ Fails(Creatable)
  /\ Again(CallRetries, Delete)
  /\ UNCHANGED <<pass, link, oldName, member, details, machine, built, windows>>

CreateTeamFails ==
  /\ pc = "create" /\ PrimaryKnown
  /\ Fails(Creatable)
  /\ Again(CallRetries, FromTheStart(TeamRetries, "create"))
  /\ UNCHANGED <<pass, link, oldName, member, details, machine, built, windows>>

Member == Link.members[member]

IsPrimary == names[Link.mac] = Member

Addable == \E a \in Adapters \ Teamed : names[a] = Member

PutMember == teams' = [teams EXCEPT ![TheBond] = @ \cup {a \in Adapters : names[a] = Member}]

\* The primary adapter is skipped, another member is added.
NextMember ==
  /\ pc = "member" /\ member <= Len(Link.members)
  /\ IF IsPrimary THEN UNCHANGED teams ELSE Addable /\ PutMember
  /\ member' = member + 1
  /\ tries' = 0
  /\ UNCHANGED <<pc, pass, link, oldName, outer, details, names, nics, ready, addressed, built,
                 windows, failures>>

\* The member is there, the call raises; the repeated call finds it in the team.
MemberUnanswered ==
  /\ pc = "member" /\ member <= Len(Link.members)
  /\ ~IsPrimary /\ Addable
  /\ Failure
  /\ PutMember
  /\ Again(CallRetries, Delete)
  /\ UNCHANGED <<pass, link, oldName, member, details, names, nics, ready, addressed, built,
                 windows>>

\* Mutant: a member that could not be added is left out.
Mut_MemberFails ==
  /\ pc = "member" /\ member <= Len(Link.members)
  /\ ~IsPrimary
  /\ Fails(Addable)
  /\ member' = member + 1
  /\ UNCHANGED <<pc, pass, link, oldName, tries, outer, details, machine, built, windows>>

MemberFails ==
  /\ pc = "member" /\ member <= Len(Link.members)
  /\ ~IsPrimary
  /\ Fails(Addable)
  /\ Again(CallRetries, Delete)
  /\ UNCHANGED <<pass, link, oldName, member, details, machine, built, windows>>

MembersOver ==
  /\ pc = "member" /\ member > Len(Link.members)
  /\ tries' = 0
  /\ pc' = "wait"
  /\ UNCHANGED <<pass, link, oldName, member, outer, details, machine, built, windows, failures>>

NicVisible == <<Link.name, IF pass = "bonds" THEN Link.name ELSE Link.bond>> \in nics

NicFound ==
  /\ pc = "wait" /\ NicVisible
  /\ pc' = "common"
  /\ UNCHANGED <<plugin, details, machine, built, windows, failures>>

\* _wait_for_nic gives up: create_team deletes the team, add_team_nic begins again.
NicNotFound ==
  /\ pc = "wait"
  /\ Fails(NicVisible)
  /\ Again(CallRetries, IF pass = "bonds" THEN Delete ELSE FromTheStart(NicRetries, "nic"))
  /\ UNCHANGED <<pass, link, oldName, member, details, machine, built, windows>>

\* The team goes, and its NICs with it.
DropTeam ==
  /\ teams' = [teams EXCEPT ![TheBond] = {}]
  /\ nics' = {nic \in nics : nic[2] # TheBond}
  /\ ready' = ready \ {nic[1] : nic \in nics \ nics'}
  /\ addressed' = addressed \ {nic[1] : nic \in nics \ nics'}

TeamDeleted ==
  /\ pc = "delete" /\ teams[TheBond] # {}
  /\ DropTeam
  /\ FromTheStart(TeamRetries, "create")
  /\ UNCHANGED <<pass, link, oldName, member, details, names, built, windows,
                 failures>>

\* The team is gone, the call raises; the repeated call does not find it.
DeleteUnanswered ==
  /\ pc = "delete" /\ teams[TheBond] # {}
  /\ Failure
  /\ DropTeam
  /\ Again(CallRetries, FromTheStart(TeamRetries, "create"))
  /\ UNCHANGED <<pass, link, oldName, member, details, names, built, windows>>

\* delete_team raises in the handler: its error takes the place of the first one.
DeleteFails ==
  /\ pc = "delete"
  /\ Fails(teams[TheBond] # {})
  /\ Again(CallRetries, FromTheStart(TeamRetries, "create"))
  /\ windows' = windows \cup (IF teams[TheBond] # {} /\ tries = CallRetries THEN {"undeleted"}
                                                                             ELSE {})
  /\ UNCHANGED <<pass, link, oldName, member, details, machine, built>>

-----------------------------------------------------------------------------
(* VLANs: one more NIC on a team. *)

VlanStart ==
  /\ pc = "link" /\ pass = "vlans" /\ link <= Len(details.vlans)
  /\ tries' = 0 /\ outer' = 0
  /\ pc' = "nic"
  /\ UNCHANGED <<pass, link, oldName, member, details, machine, built, windows, failures>>

NicCreatable == teams[Link.bond] # {} /\ Link.name \notin Taken

PutNic == nics' = nics \cup {<<Link.name, Link.bond>>}

AddNic ==
  /\ pc = "nic" /\ NicCreatable
  /\ PutNic
  /\ tries' = 0
  /\ pc' = "wait"
  /\ UNCHANGED <<pass, link, oldName, member, outer, details, names, teams, ready, addressed,
                 built, windows, failures>>

AddNicUnanswered ==
  /\ pc = "nic" /\ NicCreatable
  /\ Failure
  /\ PutNic
  /\ FromTheStart(NicRetries, "nic")
  /\ UNCHANGED <<pass, link, oldName, member, details, names, teams, ready, addressed, built,
                 windows>>

AddNicFails ==
  /\ pc = "nic"
  /\ Fails(NicCreatable)
  /\ FromTheStart(NicRetries, "nic")
  /\ UNCHANGED <<pass, link, oldName, member, details, machine, built, windows>>

Rest ==
  /\ pc = "done"
  /\ UNCHANGED vars

-----------------------------------------------------------------------------

Next ==
  \/ Execute
  \/ Crash
  \/ NextPass
  \/ Common
  \/ CommonFails
  \/ SetAddress
  \/ SetAddressFails
  \/ Return
  \/ LookUpFails
  \/ RenameSkip
  \/ RenameStart
  \/ Rename
  \/ RenameUnseen
  \/ RenameFails
  \/ BondStart
  \/ PrimaryUnknown
  \/ CreateTeam
  \/ CreateTeamUnanswered
  \/ CreateTeamFails
  \/ NextMember
  \/ MemberUnanswered
  \/ MemberFails
  \/ MembersOver
  \/ NicFound
  \/ NicNotFound
  \/ TeamDeleted
  \/ DeleteUnanswered
  \/ DeleteFails
  \/ VlanStart
  \/ AddNic
  \/ AddNicUnanswered
  \/ AddNicFails
  \/ Rest

Spec == Init /\ [][Next]_vars

\* The plugin goes on to its next call, and the machine is booted again.
FairSpec == Spec /\ WF_vars(Next)

-----------------------------------------------------------------------------
(* Properties. *)

AtLink == pc \in {"link", "common", "rename", "create", "member", "wait", "delete", "nic"}

\* Type invariant of the plugin, the retries and the machine.
TypeOK ==
  /\ pc \in {"off", "failed", "link", "common", "rename", "create", "member", "wait", "delete",
             "nic", "networks", "done"}
  /\ pass \in {"physical", "bonds", "vlans"}
  /\ AtLink => link \in 1 .. Len(Links[pass]) + 1
  /\ AtLink /\ pc # "link" => link <= Len(Links[pass])
  /\ pc = "networks" => link \in 1 .. Len(details.networks) + 1
  /\ details \in Details
  /\ names \in [Adapters -> Names]
  /\ teams \in [Names -> SUBSET Adapters]
  /\ nics \subseteq Names \X Names
  /\ ready \subseteq Names /\ addressed \subseteq Names
  /\ oldName \in Names \cup {""}
  /\ member \in Nat \ {0}
  /\ tries \in Nat /\ outer \in Nat
  /\ built \subseteq Names
  /\ windows \subseteq {"unanswered", "undeleted", "crashed"}
  /\ failures \in 0 .. MaxFailures

BondLinks == {details.bonds[i] : i \in 1 .. Len(details.bonds)}
VlanLinks == {details.vlans[i] : i \in 1 .. Len(details.vlans)}
PhysicalLinks == {details.physical[i] : i \in 1 .. Len(details.physical)}

Whole(bond) ==
  /\ \A m \in 1 .. Len(bond.members) :
       \E a \in teams[bond.name] : names[a] = bond.members[m]
  /\ <<bond.name, bond.name>> \in nics

\* When the plugin is done the machine has what the details say: every adapter its name,
\* every team all its members, every VLAN its NIC, and each of them its settings; whatever
\* was retried, half done or undone on the way.
DoneIsConfigured ==
  pc = "done" =>
    /\ \A l \in PhysicalLinks : names[l.mac] = l.name /\ l.name \in ready
    /\ \A l \in BondLinks : Whole(l) /\ l.name \in ready
    /\ \A l \in VlanLinks : <<l.name, l.bond>> \in nics /\ l.name \in ready
    /\ \A n \in 1 .. Len(details.networks) : details.networks[n] \in addressed

Building(bond) == pc \in {"member", "delete"} /\ pass = "bonds" /\ TheBond = bond.name

\* Once create_team is over, the team is whole or there is none. The ways around it: the
\* creation went through although it raised, the deletion failed to the end, a crash.
NoHalfTeam ==
  \A bond \in BondLinks :
    teams[bond.name] = {} \/ Whole(bond) \/ Building(bond) \/ windows # {}

\* A plugin that is done created its teams itself: it never takes a team it found, which may
\* be half built, for its own.
DoneIsOwnWork == pc = "done" => \A bond \in BondLinks : bond.name \in built

\* A team in service is neither taken down nor changed, however often the plugin is repeated.
ReadyTeamKept ==
  [][\A bond \in BondLinks : bond.name \in ready => teams'[bond.name] = teams[bond.name]]_vars

\* Every link can have its name, every mode is supported.
Feasible ==
  /\ \A l \in PhysicalLinks, a \in Adapters : names[a] = l.name => a = l.mac
  /\ \A l \in BondLinks : l.supported /\ l.name \notin Taken
  /\ \A l \in VlanLinks : l.name \notin Taken

\* The plugin is done in the end, if the details can be had at all, unless it failed after it
\* had created a team: that team is in the way of every later execution.
Converges == Feasible => <>(pc = "done") \/ <>[](\E bond \in BondLinks : teams[bond.name] # {})

=============================================================================
