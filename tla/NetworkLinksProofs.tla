------------------------- MODULE NetworkLinksProofs -------------------------
(***************************************************************************)
(* Proofs about the version 2 path of NetworkConfig, the links, the teams   *)
(* and their retries, and the theorems about both paths.                    *)
(*                                                                         *)
(* LinksInv is inductive. Over(pass, i) says that the execution at hand has *)
(* passed a link. NamesInv keeps the names of adapters and NICs apart, and  *)
(* physical links named once they are passed: without it a rename or a new  *)
(* NIC could undo an earlier link. TeamsInv follows the members of a team   *)
(* through the nested retries, ReadyInv says whose names the links in       *)
(* service have, so that no deletion reaches a team in service, and         *)
(* BuiltInv and InPlaceInv say what an execution has done so far.           *)
(***************************************************************************)
EXTENDS NetworkAdaptersProofs

-----------------------------------------------------------------------------
(* Links. *)

Physicals == linkDetails.physical
Bonds     == linkDetails.bonds
Vlans     == linkDetails.vlans

Passes == {"physical", "bonds", "vlans"}

\* The plugin works for the machine it was given, and is at one of its links.
PlaceInv ==
  /\ linkDetails \in LinkDetails
  /\ linkPc \in {"off", "failed", "link", "common", "rename", "create", "member", "wait",
                 "delete", "nic", "networks", "done"}
  /\ pass \in Passes
  /\ Links!AtLink => link \in 1 .. Len(Links!Links[pass]) + 1
  /\ Links!AtLink /\ linkPc # "link" => link <= Len(Links!Links[pass])
  /\ linkPc = "networks" => link \in 1 .. Len(linkDetails.networks) + 1
  /\ linkPc = "rename" => pass = "physical"
  /\ linkPc \in {"create", "member", "delete"} => pass = "bonds"
  /\ linkPc = "wait" => pass \in {"bonds", "vlans"}
  /\ linkPc \in {"nic", "networks", "done"} => pass = "vlans"

LEMMA DetailsFacts ==
  ASSUME linkDetails \in LinkDetails
  PROVE  /\ Physicals \in Seq(Links!Physical) /\ Bonds \in Seq(Links!Bond)
         /\ Vlans \in Seq(Links!Vlan) /\ linkDetails.networks \in Seq(Names)
         /\ Len(Physicals) \in Nat /\ Len(Bonds) \in Nat /\ Len(Vlans) \in Nat
         /\ Len(linkDetails.networks) \in Nat
         /\ Links!Links["physical"] = Physicals /\ Links!Links["bonds"] = Bonds
         /\ Links!Links["vlans"] = Vlans
         /\ \A p \in Passes : Len(Links!Links[p]) \in Nat
         /\ \A i, j \in 1 .. Len(Physicals) :
              Physicals[i].mac = Physicals[j].mac => Physicals[i].name = Physicals[j].name
         /\ \A i, j \in 1 .. Len(Bonds) : Bonds[i].name = Bonds[j].name => i = j
<1>1. linkDetails \in [physical : Seq(Links!Physical), bonds : Seq(Links!Bond),
                       vlans : Seq(Links!Vlan), networks : Seq(Names)]
  BY NetworkConfigAssumption
<1>2. /\ Physicals \in Seq(Links!Physical) /\ Bonds \in Seq(Links!Bond)
      /\ Vlans \in Seq(Links!Vlan) /\ linkDetails.networks \in Seq(Names)
  BY <1>1 DEF Physicals, Bonds, Vlans
<1>3. /\ Len(Physicals) \in Nat /\ Len(Bonds) \in Nat /\ Len(Vlans) \in Nat
      /\ Len(linkDetails.networks) \in Nat
  BY <1>2
<1>4. /\ Links!Links["physical"] = Physicals /\ Links!Links["bonds"] = Bonds
      /\ Links!Links["vlans"] = Vlans
  BY DEF Links!Links, Physicals, Bonds, Vlans
<1>5. \A p \in Passes : Len(Links!Links[p]) \in Nat
  BY <1>3, <1>4 DEF Passes
<1>6. /\ \A i, j \in 1 .. Len(Physicals) :
           Physicals[i].mac = Physicals[j].mac => Physicals[i].name = Physicals[j].name
      /\ \A i, j \in 1 .. Len(Bonds) : Bonds[i].name = Bonds[j].name => i = j
  BY NetworkConfigAssumption DEF Physicals, Bonds
<1>7. QED
  BY <1>2, <1>3, <1>4, <1>5, <1>6

\* The links have the parts that their loops use.
LEMMA LinkTypes ==
  ASSUME linkDetails \in LinkDetails
  PROVE  /\ \A i \in 1 .. Len(Physicals) :
              Physicals[i].name \in Names /\ Physicals[i].mac \in LinkAdapters
         /\ \A i \in 1 .. Len(Bonds) :
              /\ Bonds[i].name \in Names /\ Bonds[i].mac \in LinkAdapters
              /\ Bonds[i].members \in Seq(Names) /\ Len(Bonds[i].members) \in Nat
         /\ \A i \in 1 .. Len(Vlans) : Vlans[i].name \in Names /\ Vlans[i].bond \in Names
         /\ \A i \in 1 .. Len(linkDetails.networks) : linkDetails.networks[i] \in Names
<1>1. /\ \A i \in 1 .. Len(Physicals) : Physicals[i] \in Links!Physical
      /\ \A i \in 1 .. Len(Bonds) : Bonds[i] \in Links!Bond
      /\ \A i \in 1 .. Len(Vlans) : Vlans[i] \in Links!Vlan
      /\ \A i \in 1 .. Len(linkDetails.networks) : linkDetails.networks[i] \in Names
  BY DetailsFacts
<1>2. \A i \in 1 .. Len(Bonds) :
        /\ Bonds[i].name \in Names /\ Bonds[i].mac \in LinkAdapters
        /\ Bonds[i].members \in Seq(Names)
  BY <1>1 DEF Links!Bond
<1>3. \A i \in 1 .. Len(Bonds) : Len(Bonds[i].members) \in Nat
  BY <1>2
<1>4. QED
  BY <1>1, <1>2, <1>3 DEF Links!Physical, Links!Vlan

\* The link that the plugin is at.
LEMMA LinkFacts ==
  ASSUME PlaceInv, Links!AtLink, link <= Len(Links!Links[pass])
  PROVE  /\ Links!Link.name \in Names /\ link \in Nat
         /\ pass = "physical" => /\ link \in 1 .. Len(Physicals) /\ Links!Link = Physicals[link]
                                 /\ Links!Link.mac \in LinkAdapters
         /\ pass = "bonds" => /\ link \in 1 .. Len(Bonds) /\ Links!Link = Bonds[link]
                              /\ Links!Link.mac \in LinkAdapters
                              /\ Links!Link.members \in Seq(Names)
                              /\ Len(Links!Link.members) \in Nat
         /\ pass = "vlans" => /\ link \in 1 .. Len(Vlans) /\ Links!Link = Vlans[link]
                              /\ Links!Link.bond \in Names
<1>1. linkDetails \in LinkDetails /\ link \in 1 .. Len(Links!Links[pass]) + 1 /\ pass \in Passes
  BY DEF PlaceInv
<1>2. link \in 1 .. Len(Links!Links[pass]) /\ link \in Nat
  BY <1>1, DetailsFacts
<1>3. CASE pass = "physical"
  BY <1>1, <1>2, <1>3, DetailsFacts, LinkTypes DEF Links!Link
<1>4. CASE pass = "bonds"
  BY <1>1, <1>2, <1>4, DetailsFacts, LinkTypes DEF Links!Link
<1>5. CASE pass = "vlans"
  BY <1>1, <1>2, <1>5, DetailsFacts, LinkTypes DEF Links!Link
<1>6. QED
  BY <1>1, <1>3, <1>4, <1>5 DEF Passes

LEMMA NextDetails ==
  ASSUME Links!Next
  PROVE  UNCHANGED linkDetails
BY DEF Links!Next, Links!Execute, Links!Crash, Links!NextPass, Links!Common, Links!CommonFails,
  Links!SetAddress, Links!SetAddressFails, Links!Return, Links!LookUpFails, Links!RenameSkip,
  Links!RenameStart, Links!Rename, Links!RenameUnseen, Links!RenameFails, Links!BondStart,
  Links!PrimaryUnknown, Links!CreateTeam, Links!CreateTeamUnanswered, Links!CreateTeamFails,
  Links!NextMember, Links!MemberUnanswered, Links!MemberFails, Links!MembersOver,
  Links!NicFound, Links!NicNotFound, Links!TeamDeleted, Links!DeleteUnanswered,
  Links!DeleteFails, Links!VlanStart, Links!AddNic, Links!AddNicUnanswered, Links!AddNicFails,
  Links!Rest, Links!vars

LEMMA NextPlaceInv ==
  ASSUME PlaceInv, Links!Next
  PROVE  PlaceInv'
<1> USE DEF PlaceInv
<1>0. UNCHANGED linkDetails /\ Links!Links' = Links!Links
  BY NextDetails DEF Links!Links
<1>1. CASE Links!Execute
  BY <1>0, <1>1, DetailsFacts DEF Links!Execute, Links!AtLink, Passes
<1>2. CASE Links!NextPass
  BY <1>0, <1>2, DetailsFacts DEF Links!NextPass, Links!AtLink, Passes
<1>3. CASE Links!Common \/ Links!SetAddress
  BY <1>0, <1>3, DetailsFacts DEF Links!Common, Links!SetAddress, Links!AtLink, Passes
<1>4. CASE linkPc' \in {"off", "failed"} /\ UNCHANGED pass
  BY <1>0, <1>4 DEF Links!AtLink
<1>5. CASE Links!Return \/ Links!Rest
  BY <1>0, <1>5 DEF Links!Return, Links!Rest, Links!plugin, Links!vars, Links!AtLink
<1>6. CASE /\ UNCHANGED <<pass, link>> /\ Links!AtLink /\ link <= Len(Links!Links[pass])
           /\ linkPc' \in {"common", "rename", "create", "member", "wait", "delete", "nic"}
           /\ linkPc' = "rename" => pass = "physical"
           /\ linkPc' \in {"create", "member", "delete"} => pass = "bonds"
           /\ linkPc' = "wait" => pass \in {"bonds", "vlans"}
           /\ linkPc' = "nic" => pass = "vlans"
  BY <1>0, <1>6 DEF Links!AtLink
<1>7. CASE \/ Links!Crash \/ Links!CommonFails \/ Links!SetAddressFails \/ Links!LookUpFails
  BY <1>4, <1>7
  DEF Links!Crash, Links!CommonFails, Links!SetAddressFails, Links!LookUpFails, Links!plugin
<1>8. CASE \/ Links!RenameSkip \/ Links!RenameStart \/ Links!BondStart \/ Links!VlanStart
  BY <1>0, <1>6, <1>8, DetailsFacts
  DEF Links!RenameSkip, Links!RenameStart, Links!BondStart, Links!VlanStart, Links!plugin,
      Links!AtLink, Physicals, Bonds, Vlans
<1>9. CASE Links!Rename \/ Links!RenameUnseen \/ Links!RenameFails
  BY <1>0, <1>4, <1>6, <1>9
  DEF Links!Rename, Links!RenameUnseen, Links!RenameFails, Links!Again, Links!GiveUp,
      Links!plugin, Links!AtLink
<1>10. CASE \/ Links!PrimaryUnknown \/ Links!CreateTeam \/ Links!CreateTeamUnanswered
            \/ Links!CreateTeamFails
  BY <1>0, <1>4, <1>6, <1>10
  DEF Links!PrimaryUnknown, Links!CreateTeam, Links!CreateTeamUnanswered,
      Links!CreateTeamFails, Links!Again, Links!FromTheStart, Links!AtLink
<1>11. CASE \/ Links!NextMember \/ Links!MemberUnanswered \/ Links!MemberFails
            \/ Links!MembersOver
  BY <1>0, <1>4, <1>6, <1>11
  DEF Links!NextMember, Links!MemberUnanswered, Links!MemberFails, Links!MembersOver,
      Links!Again, Links!Delete, Links!AtLink
<1>12. CASE Links!NicFound \/ Links!NicNotFound
  BY <1>0, <1>4, <1>6, <1>12
  DEF Links!NicFound, Links!NicNotFound, Links!Again, Links!Delete, Links!FromTheStart,
      Links!plugin, Links!AtLink
<1>13. CASE Links!TeamDeleted \/ Links!DeleteUnanswered \/ Links!DeleteFails
  BY <1>0, <1>4, <1>6, <1>13
  DEF Links!TeamDeleted, Links!DeleteUnanswered, Links!DeleteFails, Links!Again,
      Links!FromTheStart, Links!AtLink
<1>14. CASE Links!AddNic \/ Links!AddNicUnanswered \/ Links!AddNicFails
  BY <1>0, <1>4, <1>6, <1>14
  DEF Links!AddNic, Links!AddNicUnanswered, Links!AddNicFails, Links!FromTheStart, Links!AtLink
<1>15. QED
  BY <1>1, <1>2, <1>3, <1>5, <1>7, <1>8, <1>9, <1>10, <1>11, <1>12, <1>13, <1>14
  DEF Links!Next

-----------------------------------------------------------------------------
(* What a step does to the machine. *)

SomeAdapterRenamed ==
  /\ linkPc = "rename" /\ Links!Renamable
  /\ names' = [names EXCEPT ![Links!Link.mac] = Links!Link.name]
  /\ UNCHANGED <<teams, nics, ready, addressed>>

SomeTeamCreated ==
  /\ linkPc = "create" /\ Links!PrimaryKnown /\ Links!Creatable /\ Links!PutTeam
  /\ UNCHANGED <<names, ready, addressed>>

SomeMemberAdded ==
  /\ linkPc = "member" /\ ~Links!IsPrimary /\ Links!Addable /\ Links!PutMember
  /\ member <= Len(Links!Link.members)
  /\ UNCHANGED <<names, nics, ready, addressed>>

SomeTeamDropped ==
  linkPc = "delete" /\ Links!DropTeam /\ UNCHANGED names

SomeNicAdded ==
  /\ linkPc = "nic" /\ Links!NicCreatable /\ Links!PutNic
  /\ UNCHANGED <<names, teams, ready, addressed>>

SomeLinkReady ==
  /\ linkPc = "common" /\ Links!Link.name \in Links!Taken
  /\ ready' = ready \cup {Links!Link.name}
  /\ UNCHANGED <<names, teams, nics, addressed>>

SomeLinkAddressed ==
  /\ linkPc = "networks" /\ link <= Len(linkDetails.networks)
  /\ addressed' = addressed \cup {linkDetails.networks[link]}
  /\ UNCHANGED <<names, teams, nics, ready>>

NothingDone == UNCHANGED <<names, teams, nics, ready, addressed>>

Effect ==
  \/ NothingDone \/ SomeAdapterRenamed \/ SomeTeamCreated \/ SomeMemberAdded \/ SomeTeamDropped
  \/ SomeNicAdded \/ SomeLinkReady \/ SomeLinkAddressed

LEMMA NextEffect ==
  ASSUME Links!Next
  PROVE  Effect
<1>1. CASE NothingDone
  BY <1>1 DEF Effect
<1>2. CASE Links!Rename \/ Links!RenameUnseen
  BY <1>2 DEF Effect, Links!Rename, Links!RenameUnseen, SomeAdapterRenamed
<1>3. CASE Links!CreateTeam \/ Links!CreateTeamUnanswered
  BY <1>3 DEF Effect, Links!CreateTeam, Links!CreateTeamUnanswered, SomeTeamCreated
<1>4. CASE Links!NextMember \/ Links!MemberUnanswered
  BY <1>4
  DEF Effect, Links!NextMember, Links!MemberUnanswered, SomeMemberAdded, NothingDone
<1>5. CASE Links!TeamDeleted \/ Links!DeleteUnanswered
  BY <1>5 DEF Effect, Links!TeamDeleted, Links!DeleteUnanswered, SomeTeamDropped
<1>6. CASE Links!AddNic \/ Links!AddNicUnanswered
  BY <1>6 DEF Effect, Links!AddNic, Links!AddNicUnanswered, SomeNicAdded
<1>7. CASE Links!Common \/ Links!SetAddress
  BY <1>7 DEF Effect, Links!Common, Links!SetAddress, SomeLinkReady, SomeLinkAddressed
<1>8. QED
  BY <1>1, <1>2, <1>3, <1>4, <1>5, <1>6, <1>7
  DEF NothingDone, Links!machine, Links!Next, Links!Execute, Links!Crash, Links!NextPass,
      Links!CommonFails, Links!SetAddressFails, Links!Return, Links!LookUpFails,
      Links!RenameSkip, Links!RenameStart, Links!RenameFails, Links!BondStart,
      Links!PrimaryUnknown, Links!CreateTeamFails, Links!MemberFails, Links!MembersOver,
      Links!NicFound, Links!NicNotFound, Links!DeleteFails, Links!VlanStart,
      Links!AddNicFails, Links!Rest, Links!vars

-----------------------------------------------------------------------------
(* Types. *)

MachineInv ==
  /\ names \in [LinkAdapters -> Names]
  /\ teams \in [Names -> SUBSET LinkAdapters]
  /\ nics \subseteq Names \X Names
  /\ ready \subseteq Names /\ addressed \subseteq Names

PluginInv ==
  /\ oldName \in Names \cup {""}
  /\ member \in Nat \ {0}
  /\ tries \in Nat /\ outer \in Nat
  /\ built \subseteq Names
  /\ windows \subseteq {"unanswered", "undeleted", "crashed"}
  /\ failures \in 0 .. MaxFailures

LinksTypeInv == PlaceInv /\ MachineInv /\ PluginInv

LEMMA LinkTypesAreNamed ==
  ASSUME LinksTypeInv
  PROVE  Links!TypeOK
BY DEF LinksTypeInv, PlaceInv, MachineInv, PluginInv, Passes, Links!TypeOK

LEMMA NextMachineInv ==
  ASSUME LinksTypeInv, Links!Next
  PROVE  MachineInv'
<1> USE DEF LinksTypeInv, MachineInv
<1>1. CASE NothingDone
  BY <1>1 DEF NothingDone
<1>2. CASE SomeAdapterRenamed
  BY <1>2, LinkFacts DEF SomeAdapterRenamed, PlaceInv, Links!AtLink
<1>3. CASE SomeTeamCreated
  BY <1>3, LinkFacts
  DEF SomeTeamCreated, PlaceInv, Links!AtLink, Links!PutTeam, Links!TheBond
<1>4. CASE SomeMemberAdded
  BY <1>4, LinkFacts
  DEF SomeMemberAdded, PlaceInv, Links!AtLink, Links!PutMember, Links!TheBond
<1>5. CASE SomeTeamDropped
  BY <1>5, LinkFacts
  DEF SomeTeamDropped, PlaceInv, Links!AtLink, Links!DropTeam, Links!TheBond
<1>6. CASE SomeNicAdded
  BY <1>6, LinkFacts DEF SomeNicAdded, PlaceInv, Links!AtLink, Links!PutNic
<1>7. CASE SomeLinkReady
  BY <1>7, LinkFacts DEF SomeLinkReady, PlaceInv, Links!AtLink
<1>8. CASE SomeLinkAddressed
  BY <1>8, LinkTypes, DetailsFacts DEF SomeLinkAddressed, PlaceInv
<1>9. QED
  BY <1>1, <1>2, <1>3, <1>4, <1>5, <1>6, <1>7, <1>8, NextEffect DEF Effect

LEMMA FailureCounts ==
  ASSUME failures \in 0 .. MaxFailures, Links!Failure
  PROVE  failures' \in 0 .. MaxFailures
BY Bounds DEF Links!Failure

LEMMA FailsCounts ==
  ASSUME failures \in 0 .. MaxFailures, NEW possible, Links!Fails(possible)
  PROVE  failures' \in 0 .. MaxFailures
BY FailureCounts DEF Links!Fails

LEMMA NextFailures ==
  ASSUME failures \in 0 .. MaxFailures, Links!Next
  PROVE  failures' \in 0 .. MaxFailures
<1>1. CASE Links!Failure
  BY <1>1, FailureCounts
<1>2. CASE UNCHANGED failures
  BY <1>2
<1>3. Links!Failure \/ UNCHANGED failures
  BY DEF Links!Next, Links!Execute, Links!Crash, Links!NextPass, Links!Common,
    Links!CommonFails, Links!SetAddress, Links!SetAddressFails, Links!Return,
    Links!LookUpFails, Links!RenameSkip, Links!RenameStart, Links!Rename, Links!RenameUnseen,
    Links!RenameFails, Links!BondStart, Links!PrimaryUnknown, Links!CreateTeam,
    Links!CreateTeamUnanswered, Links!CreateTeamFails, Links!NextMember,
    Links!MemberUnanswered, Links!MemberFails, Links!MembersOver, Links!NicFound,
    Links!NicNotFound, Links!TeamDeleted, Links!DeleteUnanswered, Links!DeleteFails,
    Links!VlanStart, Links!AddNic, Links!AddNicUnanswered, Links!AddNicFails, Links!Rest,
    Links!vars, Links!Fails
<1>4. QED
  BY <1>1, <1>2, <1>3

\* The counters of the decorators.
LEMMA NextTries ==
  ASSUME tries \in Nat, outer \in Nat, Links!Next
  PROVE  tries' \in Nat /\ outer' \in Nat
<1>1. CASE \/ Links!Execute \/ Links!Crash \/ Links!NextPass \/ Links!Common
           \/ Links!CommonFails \/ Links!SetAddress \/ Links!SetAddressFails \/ Links!Return
           \/ Links!LookUpFails \/ Links!RenameSkip \/ Links!Rename \/ Links!NicFound
           \/ Links!Rest
  BY <1>1
  DEF Links!Execute, Links!Crash, Links!NextPass, Links!Common, Links!CommonFails,
      Links!SetAddress, Links!SetAddressFails, Links!Return, Links!LookUpFails,
      Links!RenameSkip, Links!Rename, Links!NicFound, Links!Rest, Links!vars, Links!plugin
<1>2. CASE \/ Links!RenameStart \/ Links!BondStart \/ Links!CreateTeam \/ Links!NextMember
           \/ Links!MembersOver \/ Links!VlanStart \/ Links!AddNic
  BY <1>2
  DEF Links!RenameStart, Links!BondStart, Links!CreateTeam, Links!NextMember,
      Links!MembersOver, Links!VlanStart, Links!AddNic
<1>3. CASE \/ Links!RenameUnseen \/ Links!RenameFails \/ Links!CreateTeamUnanswered
           \/ Links!CreateTeamFails \/ Links!MemberUnanswered \/ Links!MemberFails
           \/ Links!NicNotFound \/ Links!DeleteUnanswered \/ Links!DeleteFails
  BY <1>3
  DEF Links!RenameUnseen, Links!RenameFails, Links!CreateTeamUnanswered,
      Links!CreateTeamFails, Links!MemberUnanswered, Links!MemberFails, Links!NicNotFound,
      Links!DeleteUnanswered, Links!DeleteFails, Links!Again, Links!FromTheStart,
      Links!Delete, Links!GiveUp
<1>4. CASE \/ Links!PrimaryUnknown \/ Links!TeamDeleted \/ Links!AddNicUnanswered
           \/ Links!AddNicFails
  BY <1>4
  DEF Links!PrimaryUnknown, Links!TeamDeleted, Links!AddNicUnanswered, Links!AddNicFails,
      Links!FromTheStart
<1>5. QED
  BY <1>1, <1>2, <1>3, <1>4 DEF Links!Next

LEMMA NextPluginInv ==
  ASSUME LinksTypeInv, Links!Next
  PROVE  PluginInv'
<1>1. failures' \in 0 .. MaxFailures /\ tries' \in Nat /\ outer' \in Nat
  BY NextFailures, NextTries DEF LinksTypeInv, PluginInv
<1>2. oldName' \in Names \cup {""}
  <2>1. CASE Links!RenameStart
    <3>1. Links!AtLink /\ pass = "physical" /\ link <= Len(Links!Links[pass])
      BY <2>1, DetailsFacts
      DEF Links!RenameStart, Links!AtLink, LinksTypeInv, PlaceInv, Physicals
    <3>2. Links!Link.mac \in LinkAdapters
      BY <3>1, LinkFacts DEF LinksTypeInv
    <3>3. QED
      BY <2>1, <3>2 DEF Links!RenameStart, LinksTypeInv, MachineInv
  <2>2. CASE oldName' = oldName
    BY <2>2 DEF LinksTypeInv, PluginInv
  <2>3. QED
    BY <2>1, <2>2
    DEF Links!Next, Links!Execute, Links!Crash, Links!NextPass, Links!Common,
      Links!CommonFails, Links!SetAddress, Links!SetAddressFails, Links!Return,
      Links!LookUpFails, Links!RenameSkip, Links!Rename, Links!RenameUnseen,
      Links!RenameFails, Links!BondStart, Links!PrimaryUnknown, Links!CreateTeam,
      Links!CreateTeamUnanswered, Links!CreateTeamFails, Links!NextMember,
      Links!MemberUnanswered, Links!MemberFails, Links!MembersOver, Links!NicFound,
      Links!NicNotFound, Links!TeamDeleted, Links!DeleteUnanswered, Links!DeleteFails,
      Links!VlanStart, Links!AddNic, Links!AddNicUnanswered, Links!AddNicFails, Links!Rest,
      Links!vars, Links!plugin
<1>3. member' \in Nat \ {0}
  <2>1. member' \in {member, 1, member + 1}
    BY DEF Links!Next, Links!Execute, Links!Crash, Links!NextPass, Links!Common,
      Links!CommonFails, Links!SetAddress, Links!SetAddressFails, Links!Return,
      Links!LookUpFails, Links!RenameSkip, Links!RenameStart, Links!Rename,
      Links!RenameUnseen, Links!RenameFails, Links!BondStart, Links!PrimaryUnknown,
      Links!CreateTeam, Links!CreateTeamUnanswered, Links!CreateTeamFails,
      Links!NextMember, Links!MemberUnanswered, Links!MemberFails, Links!MembersOver,
      Links!NicFound, Links!NicNotFound, Links!TeamDeleted, Links!DeleteUnanswered,
      Links!DeleteFails, Links!VlanStart, Links!AddNic, Links!AddNicUnanswered,
      Links!AddNicFails, Links!Rest, Links!vars, Links!plugin
  <2>2. member \in Nat /\ member # 0
    BY DEF LinksTypeInv, PluginInv
  <2>3. QED
    BY <2>1, <2>2
<1>4. built' \subseteq Names
  <2>1. CASE Links!CreateTeam
    <3>1. Links!AtLink /\ link <= Len(Links!Links[pass])
      BY <2>1 DEF Links!CreateTeam, LinksTypeInv, PlaceInv, Links!AtLink
    <3>2. Links!Link.name \in Names
      BY <3>1, LinkFacts DEF LinksTypeInv
    <3>3. QED
      BY <2>1, <3>2 DEF Links!CreateTeam, LinksTypeInv, PluginInv, Links!TheBond
  <2>2. CASE built' \subseteq built
    BY <2>2 DEF LinksTypeInv, PluginInv
  <2>3. QED
    BY <2>1, <2>2
    DEF Links!Next, Links!Execute, Links!Crash, Links!NextPass, Links!Common,
      Links!CommonFails, Links!SetAddress, Links!SetAddressFails, Links!Return,
      Links!LookUpFails, Links!RenameSkip, Links!RenameStart, Links!Rename,
      Links!RenameUnseen, Links!RenameFails, Links!BondStart, Links!PrimaryUnknown,
      Links!CreateTeamUnanswered, Links!CreateTeamFails, Links!NextMember,
      Links!MemberUnanswered, Links!MemberFails, Links!MembersOver, Links!NicFound,
      Links!NicNotFound, Links!TeamDeleted, Links!DeleteUnanswered, Links!DeleteFails,
      Links!VlanStart, Links!AddNic, Links!AddNicUnanswered, Links!AddNicFails, Links!Rest,
      Links!vars
<1>5. windows' \subseteq {"unanswered", "undeleted", "crashed"}
  <2>1. windows' \subseteq windows \cup {"unanswered", "undeleted", "crashed"}
    BY DEF Links!Next, Links!Execute, Links!Crash, Links!NextPass, Links!Common,
      Links!CommonFails, Links!SetAddress, Links!SetAddressFails, Links!Return,
      Links!LookUpFails, Links!RenameSkip, Links!RenameStart, Links!Rename,
      Links!RenameUnseen, Links!RenameFails, Links!BondStart, Links!PrimaryUnknown,
      Links!CreateTeam, Links!CreateTeamUnanswered, Links!CreateTeamFails,
      Links!NextMember, Links!MemberUnanswered, Links!MemberFails, Links!MembersOver,
      Links!NicFound, Links!NicNotFound, Links!TeamDeleted, Links!DeleteUnanswered,
      Links!DeleteFails, Links!VlanStart, Links!AddNic, Links!AddNicUnanswered,
      Links!AddNicFails, Links!Rest, Links!vars
  <2>2. QED
    BY <2>1 DEF LinksTypeInv, PluginInv
<1>6. QED
  BY <1>1, <1>2, <1>3, <1>4, <1>5 DEF PluginInv

LEMMA NextLinksTypeInv ==
  ASSUME LinksTypeInv, Links!Next
  PROVE  LinksTypeInv'
BY NextPlaceInv, NextMachineInv, NextPluginInv DEF LinksTypeInv

LEMMA InitLinksTypeInv ==
  ASSUME Links!Init
  PROVE  LinksTypeInv
<1>1. linkDetails \in LinkDetails /\ names \in [LinkAdapters -> Names]
  BY NetworkConfigAssumption DEF Links!Init
<1>2. PlaceInv
  BY <1>1 DEF Links!Init, PlaceInv, Passes, Links!AtLink
<1>3. MachineInv
  BY <1>1 DEF Links!Init, MachineInv
<1>4. PluginInv
  <2>1. member = 1 /\ tries = 0 /\ outer = 0 /\ failures = 0
    BY DEF Links!Init
  <2>2. oldName = "" /\ built = {} /\ windows = {}
    BY DEF Links!Init
  <2>3. member \in Nat \ {0} /\ tries \in Nat /\ outer \in Nat /\ failures \in 0 .. MaxFailures
    BY <2>1, Bounds
  <2>4. oldName \in Names \cup {""} /\ built \subseteq Names
        /\ windows \subseteq {"unanswered", "undeleted", "crashed"}
    BY <2>2
  <2>5. QED
    BY <2>3, <2>4 DEF PluginInv
<1>5. QED
  BY <1>2, <1>3, <1>4 DEF LinksTypeInv

-----------------------------------------------------------------------------
(* What this execution is over with. *)

After(p) == IF p = "physical" THEN {"bonds", "vlans"} ELSE IF p = "bonds" THEN {"vlans"} ELSE {}

Over(p, i) ==
  \/ linkPc \in {"networks", "done"}
  \/ Links!AtLink /\ pass \in After(p)
  \/ Links!AtLink /\ pass = p /\ i < link

\* Only the end of a loop's body gets over with a link.
LEMMA NextOver ==
  ASSUME PlaceInv, Links!Next, NEW p \in Passes, NEW i \in 1 .. Len(Links!Links[p]), Over(p, i)'
  PROVE  Over(p, i) \/ (Links!Common /\ pass = p /\ i = link)
<1>0. /\ i \in Nat /\ linkDetails \in LinkDetails
      /\ Links!AtLink => link \in Nat
  BY DetailsFacts DEF PlaceInv
<1>1. CASE Links!Execute
  BY <1>0, <1>1 DEF Links!Execute, Over, After, Passes, Links!AtLink
<1>2. CASE Links!NextPass
  <2>1. Links!AtLink /\ link > Len(Links!Links[pass])
    BY <1>2 DEF Links!NextPass, Links!AtLink
  <2>2. pass = p => i < link
    BY <1>0, <2>1, DetailsFacts
  <2>3. CASE pass = "physical"
    BY <1>0, <1>2, <2>1, <2>2, <2>3 DEF Links!NextPass, Over, After, Passes, Links!AtLink
  <2>4. CASE pass = "bonds"
    BY <1>0, <1>2, <2>1, <2>2, <2>4 DEF Links!NextPass, Over, After, Passes, Links!AtLink
  <2>5. CASE pass = "vlans"
    BY <1>0, <1>2, <2>1, <2>2, <2>5 DEF Links!NextPass, Over, After, Passes, Links!AtLink
  <2>6. QED
    BY <2>3, <2>4, <2>5 DEF PlaceInv, Passes
<1>3. CASE Links!Common
  BY <1>0, <1>3 DEF Links!Common, Over, Links!AtLink
<1>4. CASE linkPc' \in {"off", "failed"}
  BY <1>4 DEF Over, Links!AtLink
<1>5. CASE linkPc \in {"networks", "done"}
  BY <1>5 DEF Over
<1>6. CASE UNCHANGED <<pass, link>> /\ Links!AtLink /\ Links!AtLink'
  BY <1>6 DEF Over, Links!AtLink
<1>7. CASE \/ Links!Crash \/ Links!CommonFails \/ Links!SetAddressFails \/ Links!LookUpFails
  BY <1>4, <1>7
  DEF Links!Crash, Links!CommonFails, Links!SetAddressFails, Links!LookUpFails
<1>8. CASE \/ Links!SetAddress \/ Links!Return \/ Links!Rest
  BY <1>5, <1>8 DEF Links!SetAddress, Links!Return, Links!Rest
<1>9. CASE \/ Links!RenameSkip \/ Links!RenameStart \/ Links!BondStart \/ Links!VlanStart
           \/ Links!Rename \/ Links!NicFound \/ Links!CreateTeam \/ Links!NextMember
           \/ Links!MembersOver \/ Links!AddNic
  BY <1>6, <1>9
  DEF Links!RenameSkip, Links!RenameStart, Links!BondStart, Links!VlanStart, Links!Rename,
      Links!NicFound, Links!CreateTeam, Links!NextMember, Links!MembersOver, Links!AddNic,
      Links!plugin, Links!AtLink
<1>10. CASE \/ Links!RenameUnseen \/ Links!RenameFails \/ Links!CreateTeamUnanswered
            \/ Links!CreateTeamFails \/ Links!MemberUnanswered \/ Links!MemberFails
            \/ Links!NicNotFound \/ Links!DeleteUnanswered \/ Links!DeleteFails
  BY <1>4, <1>6, <1>10
  DEF Links!RenameUnseen, Links!RenameFails, Links!CreateTeamUnanswered,
      Links!CreateTeamFails, Links!MemberUnanswered, Links!MemberFails, Links!NicNotFound,
      Links!DeleteUnanswered, Links!DeleteFails, Links!Again, Links!FromTheStart,
      Links!Delete, Links!GiveUp, Links!AtLink
<1>11. CASE \/ Links!PrimaryUnknown \/ Links!TeamDeleted \/ Links!AddNicUnanswered
            \/ Links!AddNicFails
  BY <1>4, <1>6, <1>11
  DEF Links!PrimaryUnknown, Links!TeamDeleted, Links!AddNicUnanswered, Links!AddNicFails,
      Links!FromTheStart, Links!AtLink
<1>12. QED
  BY <1>1, <1>2, <1>3, <1>7, <1>8, <1>9, <1>10, <1>11 DEF Links!Next

-----------------------------------------------------------------------------
(* Names. *)

PhysicalNamed(i) == names[Physicals[i].mac] = Physicals[i].name

PhysicalsNamed == \A i \in 1 .. Len(Physicals) : PhysicalNamed(i)

NamesInv ==
  /\ \A nic \in nics, a \in LinkAdapters : nic[1] # names[a]
  /\ \A nic, other \in nics : nic[1] = other[1] => nic = other
  /\ \A i \in 1 .. Len(Physicals) : Over("physical", i) => PhysicalNamed(i)
  /\ \A b \in Names : teams[b] # {} => PhysicalsNamed
  /\ linkPc = "common" /\ pass = "physical" => names[Links!Link.mac] = Links!Link.name
  /\ linkPc = "rename" => oldName # Links!Link.name

\* An adapter keeps the name of its link.
LEMMA NamedStays ==
  ASSUME LinksTypeInv, Links!Next, NEW i \in 1 .. Len(Physicals), PhysicalNamed(i)
  PROVE  PhysicalNamed(i)'
<1>0. Physicals' = Physicals /\ linkDetails \in LinkDetails
  BY NextDetails DEF Physicals, LinksTypeInv, PlaceInv
<1>1. CASE SomeAdapterRenamed
  <2>1. /\ link \in 1 .. Len(Physicals) /\ Links!Link = Physicals[link]
        /\ names \in [LinkAdapters -> Names]
        /\ names' = [names EXCEPT ![Links!Link.mac] = Links!Link.name]
    BY <1>1, LinkFacts
    DEF SomeAdapterRenamed, LinksTypeInv, PlaceInv, MachineInv, Links!AtLink
  <2>2. Physicals[i].mac \in LinkAdapters
    BY <1>0, LinkTypes
  <2>3. Physicals[i].mac = Physicals[link].mac => Physicals[i].name = Physicals[link].name
    BY <1>0, <2>1, DetailsFacts
  <2>4. QED
    BY <1>0, <2>1, <2>2, <2>3 DEF PhysicalNamed
<1>2. CASE UNCHANGED names
  BY <1>0, <1>2 DEF PhysicalNamed
<1>3. QED
  BY <1>1, <1>2, NextEffect
  DEF Effect, NothingDone, SomeTeamCreated, SomeMemberAdded, SomeTeamDropped, SomeNicAdded,
      SomeLinkReady, SomeLinkAddressed

\* No adapter is renamed when there is a team.
LEMMA NamedIsNotRenamed ==
  ASSUME LinksTypeInv, NamesInv, SomeAdapterRenamed
  PROVE  ~PhysicalsNamed /\ \A b \in Names : teams[b] = {}
<1>1. link \in 1 .. Len(Physicals) /\ Links!Link = Physicals[link]
  BY LinkFacts DEF SomeAdapterRenamed, LinksTypeInv, PlaceInv, Links!AtLink
<1>2. names[Links!Link.mac] = oldName /\ oldName # Links!Link.name
  BY DEF SomeAdapterRenamed, Links!Renamable, NamesInv
<1>3. ~PhysicalsNamed
  BY <1>1, <1>2 DEF PhysicalsNamed, PhysicalNamed
<1>4. QED
  BY <1>3 DEF NamesInv

\* The effects on names and NICs, for the proofs that need no more.
LEMMA NicEffects ==
  ASSUME LinksTypeInv, Links!Next
  PROVE  \/ UNCHANGED <<names, nics>>
         \/ UNCHANGED names /\ nics' \subseteq nics
         \/ /\ UNCHANGED nics /\ linkPc = "rename" /\ Links!Renamable
            /\ Links!Link.mac \in LinkAdapters
            /\ names' = [names EXCEPT ![Links!Link.mac] = Links!Link.name]
         \/ /\ UNCHANGED names
            /\ \E b : nics' = nics \cup {<<Links!Link.name, b>>}
            /\ Links!Link.name \notin Links!Taken
<1>1. CASE SomeAdapterRenamed
  BY <1>1, LinkFacts DEF SomeAdapterRenamed, LinksTypeInv, PlaceInv, Links!AtLink
<1>2. CASE SomeTeamCreated
  BY <1>2 DEF SomeTeamCreated, Links!Creatable, Links!PutTeam, Links!TheBond
<1>3. CASE SomeNicAdded
  BY <1>3 DEF SomeNicAdded, Links!NicCreatable, Links!PutNic
<1>4. CASE SomeTeamDropped
  BY <1>4 DEF SomeTeamDropped, Links!DropTeam
<1>5. QED
  BY <1>1, <1>2, <1>3, <1>4, NextEffect
  DEF Effect, NothingDone, SomeMemberAdded, SomeLinkReady, SomeLinkAddressed

LEMMA NextNamesInv ==
  ASSUME LinksTypeInv, NamesInv, Links!Next
  PROVE  NamesInv'
<1>0. /\ UNCHANGED linkDetails /\ Physicals' = Physicals /\ linkDetails \in LinkDetails
      /\ names \in [LinkAdapters -> Names] /\ teams \in [Names -> SUBSET LinkAdapters]
      /\ Links!Links' = Links!Links /\ PlaceInv
  BY NextDetails DEF Physicals, LinksTypeInv, PlaceInv, MachineInv, Links!Links
<1>1. \A nic \in nics', a \in LinkAdapters : nic[1] # names'[a]
  <2>1. CASE \/ UNCHANGED <<names, nics>>
             \/ UNCHANGED names /\ nics' \subseteq nics
    BY <2>1 DEF NamesInv
  <2>2. CASE /\ UNCHANGED nics /\ Links!Renamable
             /\ names' = [names EXCEPT ![Links!Link.mac] = Links!Link.name]
    BY <1>0, <2>2 DEF NamesInv, Links!Renamable, Links!Taken
  <2>3. CASE /\ UNCHANGED names /\ Links!Link.name \notin Links!Taken
             /\ \E b : nics' = nics \cup {<<Links!Link.name, b>>}
    BY <2>3 DEF NamesInv, Links!Taken
  <2>4. QED
    BY <2>1, <2>2, <2>3, NicEffects
<1>2. \A nic, other \in nics' : nic[1] = other[1] => nic = other
  <2>1. CASE nics' \subseteq nics
    BY <2>1 DEF NamesInv
  <2>2. CASE /\ Links!Link.name \notin Links!Taken
             /\ \E b : nics' = nics \cup {<<Links!Link.name, b>>}
    BY <2>2 DEF NamesInv, Links!Taken
  <2>3. QED
    BY <2>1, <2>2, NicEffects
<1>3. \A i \in 1 .. Len(Physicals) : Over("physical", i)' => PhysicalNamed(i)'
  <2>1. SUFFICES ASSUME NEW i \in 1 .. Len(Physicals), Over("physical", i)'
                 PROVE  PhysicalNamed(i)'
    OBVIOUS
  <2>2. Over("physical", i) \/ (Links!Common /\ pass = "physical" /\ i = link)
    BY <1>0, <2>1, NextOver, DetailsFacts DEF Passes
  <2>3. CASE Over("physical", i)
    BY <2>3, NamedStays DEF NamesInv
  <2>4. CASE Links!Common /\ pass = "physical" /\ i = link
    <3>1. names[Links!Link.mac] = Links!Link.name /\ Links!Link = Physicals[link]
      BY <1>0, <2>4, DetailsFacts DEF Links!Common, NamesInv, Links!Link
    <3>2. QED
      BY <2>4, <3>1, NamedStays DEF PhysicalNamed
  <2>5. QED
    BY <2>2, <2>3, <2>4
<1>4. \A b \in Names : teams'[b] # {} => PhysicalsNamed'
  <2>1. PhysicalsNamed => PhysicalsNamed'
    BY <1>0, NamedStays DEF PhysicalsNamed
  <2>2. CASE SomeTeamCreated \/ SomeMemberAdded
    <3>1. Links!AtLink /\ pass = "bonds"
      BY <2>2 DEF SomeTeamCreated, SomeMemberAdded, LinksTypeInv, PlaceInv, Links!AtLink
    <3>2. PhysicalsNamed
      BY <3>1 DEF NamesInv, PhysicalsNamed, Over, After
    <3>3. QED
      BY <2>1, <3>2
  <2>3. CASE SomeTeamDropped
    BY <1>0, <2>1, <2>3 DEF SomeTeamDropped, Links!DropTeam, NamesInv
  <2>4. CASE UNCHANGED teams
    BY <2>1, <2>4 DEF NamesInv
  <2>5. QED
    BY <2>2, <2>3, <2>4, NextEffect
    DEF Effect, NothingDone, SomeAdapterRenamed, SomeNicAdded, SomeLinkReady,
        SomeLinkAddressed
<1>5. (linkPc = "common" /\ pass = "physical" => names[Links!Link.mac] = Links!Link.name)'
  <2>1. CASE Links!RenameSkip
    BY <1>0, <2>1
    DEF Links!RenameSkip, Links!Named, Links!plugin, Links!machine, Links!Link
  <2>2. CASE Links!Rename
    <3>1. Links!Link.mac \in LinkAdapters
      BY <1>0, <2>2, LinkFacts DEF Links!Rename, PlaceInv, Links!AtLink
    <3>2. Links!Link' = Links!Link
      BY <1>0, <2>2 DEF Links!Rename, Links!plugin, Links!Link
    <3>3. QED
      BY <1>0, <2>2, <3>1, <3>2 DEF Links!Rename
  <2>3. CASE Links!NicFound
    BY <1>0, <2>3 DEF Links!NicFound, Links!plugin, PlaceInv
  <2>4. CASE linkPc' # "common"
    BY <2>4
  <2>5. QED
    BY <2>1, <2>2, <2>3, <2>4
    DEF Links!Next, Links!Execute, Links!Crash, Links!NextPass, Links!Common,
      Links!CommonFails, Links!SetAddress, Links!SetAddressFails, Links!Return,
      Links!LookUpFails, Links!RenameStart, Links!RenameUnseen,
      Links!RenameFails, Links!BondStart, Links!PrimaryUnknown, Links!CreateTeam,
      Links!CreateTeamUnanswered, Links!CreateTeamFails, Links!NextMember,
      Links!MemberUnanswered, Links!MemberFails, Links!MembersOver,
      Links!NicNotFound, Links!TeamDeleted, Links!DeleteUnanswered, Links!DeleteFails,
      Links!VlanStart, Links!AddNic, Links!AddNicUnanswered, Links!AddNicFails, Links!Rest,
      Links!vars, Links!Again, Links!GiveUp, Links!FromTheStart, Links!Delete
<1>6. (linkPc = "rename" => oldName # Links!Link.name)'
  <2>1. CASE Links!RenameStart
    BY <1>0, <2>1 DEF Links!RenameStart, Links!Named, Links!Link
  <2>2. CASE Links!RenameUnseen \/ Links!RenameFails
    BY <1>0, <2>2 DEF Links!RenameUnseen, Links!RenameFails, Links!Link, NamesInv
  <2>3. CASE linkPc' # "rename"
    BY <2>3
  <2>4. QED
    BY <2>1, <2>2, <2>3
    DEF Links!Next, Links!Execute, Links!Crash, Links!NextPass, Links!Common,
      Links!CommonFails, Links!SetAddress, Links!SetAddressFails, Links!Return,
      Links!LookUpFails, Links!RenameSkip, Links!Rename, Links!BondStart,
      Links!PrimaryUnknown, Links!CreateTeam,
      Links!CreateTeamUnanswered, Links!CreateTeamFails, Links!NextMember,
      Links!MemberUnanswered, Links!MemberFails, Links!MembersOver, Links!NicFound,
      Links!NicNotFound, Links!TeamDeleted, Links!DeleteUnanswered, Links!DeleteFails,
      Links!VlanStart, Links!AddNic, Links!AddNicUnanswered, Links!AddNicFails, Links!Rest,
      Links!vars, Links!Again, Links!GiveUp, Links!FromTheStart, Links!Delete
<1>7. QED
  BY <1>0, <1>1, <1>2, <1>3, <1>4, <1>5, <1>6 DEF NamesInv

-----------------------------------------------------------------------------
(* Teams. *)

\* The bond that is being worked on.
LEMMA AtBond ==
  ASSUME PlaceInv, Links!AtLink, linkPc # "link", pass = "bonds"
  PROVE  /\ link \in 1 .. Len(Bonds) /\ Links!Link = Bonds[link]
         /\ Links!TheBond = Bonds[link].name /\ Links!TheBond \in Names
         /\ Links!Link.mac \in LinkAdapters
         /\ Links!Link.members \in Seq(Names) /\ Len(Links!Link.members) \in Nat
         /\ \A i \in 1 .. Len(Bonds) : Bonds[i].name \in Names
         /\ \A i \in 1 .. Len(Bonds) : Bonds[i].name = Links!TheBond => i = link
<1>1. link <= Len(Links!Links[pass]) /\ linkDetails \in LinkDetails
  BY DEF PlaceInv
<1>2. QED
  BY <1>1, LinkFacts, LinkTypes, DetailsFacts DEF Links!TheBond

\* A whole team stays whole unless it is being deleted.
LEMMA WholeStays ==
  ASSUME LinksTypeInv, NamesInv, Links!Next,
         NEW i \in 1 .. Len(Bonds), Links!Whole(Bonds[i]), ~(linkPc = "delete" /\ link = i)
  PROVE  Links!Whole(Bonds[i])'
<1> DEFINE b == Bonds[i]
<1>0. /\ UNCHANGED linkDetails /\ Bonds' = Bonds /\ PlaceInv /\ b.name \in Names
      /\ names \in [LinkAdapters -> Names] /\ teams \in [Names -> SUBSET LinkAdapters]
  BY NextDetails, LinkTypes DEF Bonds, LinksTypeInv, PlaceInv, MachineInv
<1>1. CASE SomeAdapterRenamed
  <2>1. teams[b.name] = {}
    BY <1>0, <1>1, NamedIsNotRenamed
  <2>2. \A m : m \notin 1 .. Len(b.members)
    BY <2>1 DEF Links!Whole
  <2>3. UNCHANGED nics
    BY <1>1 DEF SomeAdapterRenamed
  <2>4. QED
    BY <1>0, <2>2, <2>3 DEF Links!Whole
<1>2. CASE SomeTeamCreated
  <2>1. Links!TheBond \notin Links!Taken /\ Links!TheBond \in Names
    BY <1>0, <1>2, AtBond DEF SomeTeamCreated, Links!Creatable, PlaceInv, Links!AtLink
  <2>2. b.name # Links!TheBond
    BY <2>1 DEF Links!Whole, Links!Taken
  <2>3. UNCHANGED names /\ teams'[b.name] = teams[b.name] /\ nics \subseteq nics'
    BY <1>0, <1>2, <2>1, <2>2 DEF SomeTeamCreated, Links!PutTeam
  <2>4. QED
    BY <1>0, <2>3 DEF Links!Whole
<1>3. CASE SomeMemberAdded
  <2>1. Links!TheBond \in Names
    BY <1>0, <1>3, AtBond DEF SomeMemberAdded, PlaceInv, Links!AtLink
  <2>2. UNCHANGED <<names, nics>> /\ teams[b.name] \subseteq teams'[b.name]
    BY <1>0, <1>3, <2>1 DEF SomeMemberAdded, Links!PutMember
  <2>3. QED
    BY <1>0, <2>2 DEF Links!Whole
<1>4. CASE SomeTeamDropped
  <2>1. Links!TheBond \in Names /\ b.name # Links!TheBond
    BY <1>0, <1>4, AtBond DEF SomeTeamDropped, PlaceInv, Links!AtLink
  <2>2. /\ UNCHANGED names /\ teams'[b.name] = teams[b.name]
        /\ <<b.name, b.name>> \in nics => <<b.name, b.name>> \in nics'
    BY <1>0, <1>4, <2>1 DEF SomeTeamDropped, Links!DropTeam
  <2>3. QED
    BY <1>0, <2>2 DEF Links!Whole
<1>5. CASE UNCHANGED <<names, teams>> /\ nics \subseteq nics'
  BY <1>0, <1>5 DEF Links!Whole
<1>6. QED
  BY <1>1, <1>2, <1>3, <1>4, <1>5, NextEffect
  DEF Effect, NothingDone, SomeNicAdded, Links!PutNic, SomeLinkReady, SomeLinkAddressed

MembersAdded(n) ==
  \A m \in 1 .. Len(Links!Link.members) :
    m < n => \E a \in teams[Links!TheBond] : names[a] = Links!Link.members[m]

\* What NoHalfTeam says of a bond.
WholeOrNone(i) ==
  \/ teams[Bonds[i].name] = {} \/ Links!Whole(Bonds[i]) \/ Links!Building(Bonds[i])
  \/ windows # {}

\* A team has the members that were added, and is whole when all of them were.
TeamsInv ==
  /\ linkPc = "member" =>
       /\ MembersAdded(member)
       /\ Links!Link.mac \in teams[Links!TheBond]
       /\ <<Links!TheBond, Links!TheBond>> \in nics
  /\ linkPc \in {"wait", "common"} /\ pass = "bonds" => Links!Whole(Links!Link)
  /\ \A i \in 1 .. Len(Bonds) : WholeOrNone(i)

\* The loop over the members, once the team exists.
LEMMA NextMembers ==
  ASSUME LinksTypeInv, NamesInv, TeamsInv, Links!Next, linkPc' = "member"
  PROVE  /\ MembersAdded(member)'
         /\ Links!Link.mac' \in teams'[Links!TheBond']
         /\ <<Links!TheBond, Links!TheBond>>' \in nics'
<1>0. /\ UNCHANGED linkDetails /\ PlaceInv /\ Links!Links' = Links!Links
      /\ names \in [LinkAdapters -> Names] /\ teams \in [Names -> SUBSET LinkAdapters]
      /\ member \in Nat \ {0}
  BY NextDetails DEF LinksTypeInv, MachineInv, PluginInv, Links!Links
<1>1. CASE Links!CreateTeam
  <2>1. /\ Links!TheBond \in Names /\ Links!TheBond' = Links!TheBond
        /\ Links!Link' = Links!Link /\ member' = 1
    BY <1>0, <1>1, AtBond DEF Links!CreateTeam, PlaceInv, Links!AtLink, Links!TheBond, Links!Link
  <2>2. MembersAdded(member)'
    BY <2>1 DEF MembersAdded
  <2>3. QED
    BY <1>0, <1>1, <2>1, <2>2 DEF Links!CreateTeam, Links!PutTeam
<1>2. CASE linkPc = "member" /\ UNCHANGED <<pass, link, names, nics>>
  <2>1. /\ Links!TheBond \in Names /\ Links!TheBond' = Links!TheBond /\ Links!Link' = Links!Link
        /\ Links!Link.members \in Seq(Names) /\ Len(Links!Link.members) \in Nat
    BY <1>0, <1>2, AtBond DEF PlaceInv, Links!AtLink, Links!TheBond, Links!Link
  <2>2. CASE Links!NextMember
    <3>1. /\ member' = member + 1
          /\ teams[Links!TheBond] \subseteq teams'[Links!TheBond]
          /\ \E a \in teams'[Links!TheBond] : names[a] = Links!Member
      <4>1. CASE Links!IsPrimary
        BY <1>2, <2>2, <4>1 DEF Links!NextMember, Links!IsPrimary, TeamsInv
      <4>2. CASE ~Links!IsPrimary
        BY <1>0, <2>1, <2>2, <4>2 DEF Links!NextMember, Links!PutMember, Links!Addable
      <4>3. QED
        BY <4>1, <4>2
    <3>2. \A m \in 1 .. Len(Links!Link.members) : m < member + 1 => m < member \/ m = member
      BY <1>0
    <3>3. MembersAdded(member)'
      BY <1>2, <2>1, <3>1, <3>2 DEF MembersAdded, TeamsInv, Links!Member
    <3>4. QED
      BY <1>2, <2>1, <3>1, <3>3 DEF TeamsInv
  <2>3. CASE /\ member' = member
             /\ teams[Links!TheBond] \subseteq teams'[Links!TheBond]
    BY <1>2, <2>1, <2>3 DEF MembersAdded, TeamsInv
  <2>4. CASE Links!MemberUnanswered
    BY <1>0, <2>1, <2>3, <2>4 DEF Links!MemberUnanswered, Links!PutMember
  <2>5. CASE Links!MemberFails
    BY <2>3, <2>5 DEF Links!MemberFails, Links!machine
  <2>6. QED
    BY <1>2, <2>2, <2>4, <2>5
    DEF Links!Next, Links!Execute, Links!Crash, Links!NextPass, Links!Common,
      Links!CommonFails, Links!SetAddress, Links!SetAddressFails, Links!Return,
      Links!LookUpFails, Links!RenameSkip, Links!RenameStart, Links!Rename,
      Links!RenameUnseen, Links!RenameFails, Links!BondStart, Links!PrimaryUnknown,
      Links!CreateTeam, Links!CreateTeamUnanswered, Links!CreateTeamFails,
      Links!MembersOver, Links!NicFound, Links!NicNotFound, Links!TeamDeleted,
      Links!DeleteUnanswered, Links!DeleteFails, Links!VlanStart, Links!AddNic,
      Links!AddNicUnanswered, Links!AddNicFails, Links!Rest, Links!vars
<1>3. CASE linkPc = "member" /\ (Links!NextMember \/ Links!MemberUnanswered \/ Links!MemberFails)
  BY <1>2, <1>3
  DEF Links!NextMember, Links!MemberUnanswered, Links!MemberFails, Links!machine
<1>4. QED
  BY <1>1, <1>3
  DEF Links!Next, Links!Execute, Links!Crash, Links!NextPass, Links!Common,
    Links!CommonFails, Links!SetAddress, Links!SetAddressFails, Links!Return,
    Links!LookUpFails, Links!RenameSkip, Links!RenameStart, Links!Rename,
    Links!RenameUnseen, Links!RenameFails, Links!BondStart, Links!PrimaryUnknown,
    Links!CreateTeamUnanswered, Links!CreateTeamFails, Links!NextMember,
    Links!MemberUnanswered, Links!MemberFails, Links!MembersOver, Links!NicFound,
    Links!NicNotFound, Links!TeamDeleted, Links!DeleteUnanswered, Links!DeleteFails,
    Links!VlanStart, Links!AddNic, Links!AddNicUnanswered, Links!AddNicFails, Links!Rest,
    Links!vars, Links!Again, Links!FromTheStart, Links!Delete, Links!GiveUp

\* create_team is over with all the members.
LEMMA NextWhole ==
  ASSUME LinksTypeInv, NamesInv, TeamsInv, Links!Next,
         linkPc' \in {"wait", "common"}, pass' = "bonds"
  PROVE  Links!Whole(Links!Link)'
<1>0. /\ UNCHANGED linkDetails /\ PlaceInv /\ Links!Links' = Links!Links /\ Bonds' = Bonds
      /\ member \in Nat
  BY NextDetails DEF LinksTypeInv, PluginInv, Links!Links, Bonds
<1>1. CASE Links!MembersOver
  <2>1. /\ linkPc = "member" /\ UNCHANGED <<pass, link, teams, names, nics>>
        /\ member > Len(Links!Link.members)
    BY <1>1 DEF Links!MembersOver, Links!machine
  <2>2. Len(Links!Link.members) \in Nat /\ Links!Link.name = Links!TheBond
    BY <1>0, <2>1, AtBond DEF PlaceInv, Links!AtLink, Links!TheBond
  <2>3. \A m \in 1 .. Len(Links!Link.members) : m < member
    BY <1>0, <2>1, <2>2
  <2>4. Links!Whole(Links!Link)
    BY <2>1, <2>2, <2>3 DEF TeamsInv, MembersAdded, Links!Whole
  <2>5. QED
    BY <1>0, <2>1, <2>4 DEF Links!Whole, Links!Link
<1>2. CASE linkPc = "wait" /\ pass = "bonds" /\ UNCHANGED <<pass, link>>
  <2>1. link \in 1 .. Len(Bonds) /\ Links!Link = Bonds[link] /\ Links!Whole(Bonds[link])
    BY <1>0, <1>2, AtBond DEF PlaceInv, Links!AtLink, TeamsInv
  <2>2. Links!Whole(Bonds[link])'
    BY <1>0, <1>2, <2>1, WholeStays
  <2>3. Links!Link' = Bonds'[link']
    BY <1>0, <1>2, <2>1 DEF Links!Link
  <2>4. QED
    BY <2>2, <2>3 DEF Links!Whole
<1>3. CASE Links!NicFound \/ Links!NicNotFound
  BY <1>2, <1>3 DEF Links!NicFound, Links!NicNotFound, Links!plugin
<1>4. CASE Links!RenameSkip \/ Links!Rename
  BY <1>0, <1>4 DEF Links!RenameSkip, Links!Rename, Links!plugin, PlaceInv
<1>5. CASE Links!AddNic
  BY <1>0, <1>5 DEF Links!AddNic, PlaceInv
<1>6. QED
  BY <1>1, <1>3, <1>4, <1>5
  DEF Links!Next, Links!Execute, Links!Crash, Links!NextPass, Links!Common,
    Links!CommonFails, Links!SetAddress, Links!SetAddressFails, Links!Return,
    Links!LookUpFails, Links!RenameStart, Links!RenameUnseen, Links!RenameFails,
    Links!BondStart, Links!PrimaryUnknown, Links!CreateTeam,
    Links!CreateTeamUnanswered, Links!CreateTeamFails, Links!NextMember,
    Links!MemberUnanswered, Links!MemberFails, Links!TeamDeleted, Links!DeleteUnanswered,
    Links!DeleteFails, Links!VlanStart, Links!AddNicUnanswered, Links!AddNicFails, Links!Rest,
    Links!vars, Links!Again, Links!FromTheStart, Links!Delete, Links!GiveUp

LEMMA NextWholeOrNone ==
  ASSUME LinksTypeInv, NamesInv, TeamsInv, Links!Next, NEW i \in 1 .. Len(Bonds)
  PROVE  WholeOrNone(i)'
<1>0. /\ UNCHANGED linkDetails /\ PlaceInv /\ Bonds' = Bonds /\ Links!Links' = Links!Links
      /\ names \in [LinkAdapters -> Names] /\ teams \in [Names -> SUBSET LinkAdapters]
  BY NextDetails DEF LinksTypeInv, MachineInv, Links!Links, Bonds
<1>1. WholeOrNone(i)
  BY DEF TeamsInv
<1>2. windows \subseteq windows'
  BY DEF Links!Next, Links!Execute, Links!Crash, Links!NextPass, Links!Common,
    Links!CommonFails, Links!SetAddress, Links!SetAddressFails, Links!Return,
    Links!LookUpFails, Links!RenameSkip, Links!RenameStart, Links!Rename,
    Links!RenameUnseen, Links!RenameFails, Links!BondStart, Links!PrimaryUnknown,
    Links!CreateTeam, Links!CreateTeamUnanswered, Links!CreateTeamFails,
    Links!NextMember, Links!MemberUnanswered, Links!MemberFails, Links!MembersOver,
    Links!NicFound, Links!NicNotFound, Links!TeamDeleted, Links!DeleteUnanswered,
    Links!DeleteFails, Links!VlanStart, Links!AddNic, Links!AddNicUnanswered,
    Links!AddNicFails, Links!Rest, Links!vars
<1>3. SUFFICES ASSUME windows' = {}
               PROVE  \/ teams'[Bonds[i].name] = {}
                      \/ Links!Whole(Bonds[i])'
                      \/ Links!Building(Bonds[i])'
  BY <1>0 DEF WholeOrNone
<1> DEFINE b == Bonds[i]
<1>4. \/ teams[b.name] = {}
      \/ Links!Whole(b)
      \/ Links!Building(b)
  BY <1>1, <1>2, <1>3 DEF WholeOrNone
<1>5. b.name \in Names
  BY <1>0, LinkTypes DEF PlaceInv
<1>6. CASE linkPc = "delete" /\ link = i
  <2>1. Links!TheBond = b.name
    BY <1>0, <1>6, AtBond DEF PlaceInv, Links!AtLink
  <2>2. CASE Links!TeamDeleted \/ Links!DeleteUnanswered
    BY <1>0, <1>5, <2>1, <2>2 DEF Links!TeamDeleted, Links!DeleteUnanswered, Links!DropTeam
  <2>3. CASE Links!DeleteFails
    <3>1. UNCHANGED <<teams, pass, link>> /\ Links!TheBond' = Links!TheBond
      BY <1>0, <2>3 DEF Links!DeleteFails, Links!machine, Links!TheBond, Links!Link
    <3>2. CASE tries < CallRetries
      <4>1. linkPc' = "delete" /\ pass' = "bonds"
        <5>1. tries \in Nat /\ CallRetries \in Nat
          BY Bounds DEF LinksTypeInv, PluginInv
        <5>2. tries # CallRetries
          BY <3>2, <5>1
        <5>3. linkPc = "delete" /\ UNCHANGED <<linkPc, pass>>
          BY <1>6, <2>3, <5>2 DEF Links!DeleteFails, Links!Again
        <5>4. QED
          BY <1>0, <5>3 DEF PlaceInv
      <4>2. QED
        BY <1>0, <2>1, <3>1, <4>1 DEF Links!Building, Bonds
    <3>3. CASE tries = CallRetries
      BY <1>3, <2>1, <2>3, <3>1, <3>3 DEF Links!DeleteFails
    <3>4. QED
      BY <2>3, <3>2, <3>3 DEF Links!DeleteFails, Links!Again
  <2>4. CASE Links!Crash
    BY <1>0, <1>3, <1>6, <2>4 DEF Links!Crash, Links!Working, PlaceInv
  <2>5. QED
    BY <1>6, <2>2, <2>3, <2>4
    DEF Links!Next, Links!Execute, Links!NextPass, Links!Common,
      Links!CommonFails, Links!SetAddress, Links!SetAddressFails, Links!Return,
      Links!LookUpFails, Links!RenameSkip, Links!RenameStart, Links!Rename,
      Links!RenameUnseen, Links!RenameFails, Links!BondStart, Links!PrimaryUnknown,
      Links!CreateTeam, Links!CreateTeamUnanswered, Links!CreateTeamFails,
      Links!NextMember, Links!MemberUnanswered, Links!MemberFails, Links!MembersOver,
      Links!NicFound, Links!NicNotFound, Links!VlanStart, Links!AddNic,
      Links!AddNicUnanswered, Links!AddNicFails, Links!Rest
<1>7. CASE Links!Whole(b) /\ ~(linkPc = "delete" /\ link = i)
  BY <1>7, WholeStays
<1>8. CASE teams[b.name] = {} /\ ~(linkPc = "delete" /\ link = i)
  <2>1. CASE SomeTeamCreated
    <3>1. linkPc = "create"
      BY <2>1 DEF SomeTeamCreated
    <3>2. Links!TheBond \in Names /\ Links!TheBond = Links!Link.name
      BY <1>0, <3>1, AtBond DEF PlaceInv, Links!AtLink, Links!TheBond
    <3>3. CASE Links!TheBond = b.name
      <4>1. CASE Links!CreateTeam
        <5>1. linkPc' = "member" /\ pass' = "bonds" /\ Links!TheBond' = Links!TheBond
          BY <1>0, <3>1, <4>1 DEF Links!CreateTeam, PlaceInv, Links!TheBond, Links!Link
        <5>2. QED
          BY <1>0, <3>3, <5>1 DEF Links!Building, Bonds
      <4>2. CASE Links!CreateTeamUnanswered
        BY <1>3, <4>2 DEF Links!CreateTeamUnanswered
      <4>3. CASE UNCHANGED teams
        BY <1>8, <4>3
      <4>4. QED
        BY <3>1, <4>1, <4>2, <4>3
        DEF Links!Next, Links!Execute, Links!Crash, Links!NextPass, Links!Common,
          Links!CommonFails, Links!SetAddress, Links!SetAddressFails, Links!Return,
          Links!LookUpFails, Links!RenameSkip, Links!RenameStart, Links!Rename,
          Links!RenameUnseen, Links!RenameFails, Links!BondStart, Links!PrimaryUnknown,
          Links!CreateTeamFails, Links!NextMember, Links!MemberUnanswered,
          Links!MemberFails, Links!MembersOver, Links!NicFound, Links!NicNotFound,
          Links!TeamDeleted, Links!DeleteUnanswered, Links!DeleteFails, Links!VlanStart,
          Links!AddNic, Links!AddNicUnanswered, Links!AddNicFails, Links!Rest,
          Links!machine, Links!vars
    <3>4. CASE Links!TheBond # b.name
      BY <1>0, <1>5, <1>8, <2>1, <3>2, <3>4 DEF SomeTeamCreated, Links!PutTeam
    <3>5. QED
      BY <3>3, <3>4
  <2>2. CASE SomeMemberAdded
    <3>1. linkPc = "member" /\ Links!TheBond \in Names
      BY <1>0, <2>2, AtBond DEF SomeMemberAdded, PlaceInv, Links!AtLink
    <3>2. Links!TheBond # b.name
      BY <1>8, <3>1 DEF TeamsInv
    <3>3. QED
      BY <1>0, <1>5, <1>8, <2>2, <3>1, <3>2 DEF SomeMemberAdded, Links!PutMember
  <2>3. CASE SomeTeamDropped
    BY <1>0, <1>5, <1>8, <2>3 DEF SomeTeamDropped, Links!DropTeam
  <2>4. CASE UNCHANGED teams
    BY <1>8, <2>4
  <2>5. QED
    BY <2>1, <2>2, <2>3, <2>4, NextEffect
    DEF Effect, NothingDone, SomeAdapterRenamed, SomeNicAdded, SomeLinkReady, SomeLinkAddressed
<1>9. CASE Links!Building(b) /\ ~(linkPc = "delete" /\ link = i)
  <2>1. /\ linkPc \in {"member", "delete"} /\ pass = "bonds"
        /\ Links!TheBond = b.name /\ link = i
    BY <1>0, <1>9, AtBond DEF Links!Building, PlaceInv, Links!AtLink, Links!TheBond
  <2>2. linkPc = "member"
    BY <1>9, <2>1
  <2>3. CASE linkPc' \in {"member", "delete"} /\ UNCHANGED <<pass, link>>
    <3>1. Links!TheBond' = Links!TheBond
      BY <1>0, <2>3 DEF Links!TheBond, Links!Link
    <3>2. QED
      BY <1>0, <2>1, <2>3, <3>1 DEF Links!Building, Bonds
  <2>4. CASE Links!NextMember
    BY <2>2, <2>3, <2>4 DEF Links!NextMember
  <2>5. CASE Links!MemberUnanswered \/ Links!MemberFails
    BY <2>2, <2>3, <2>5
    DEF Links!MemberUnanswered, Links!MemberFails, Links!Again, Links!Delete
  <2>6. CASE Links!MembersOver
    <3>1. linkPc' = "wait" /\ pass' = "bonds" /\ link' = i /\ Links!Link' = Bonds'[i]
      BY <1>0, <2>1, <2>2, <2>6, DetailsFacts DEF Links!MembersOver, Links!Link, PlaceInv
    <3>2. Links!Whole(Links!Link)'
      BY <3>1, NextWhole
    <3>3. QED
      BY <1>0, <3>1, <3>2 DEF Links!Whole
  <2>7. CASE Links!Crash
    BY <1>3, <2>1, <2>2, <2>7 DEF Links!Crash, Links!Working
  <2>8. QED
    BY <2>2, <2>4, <2>5, <2>6, <2>7
    DEF Links!Next, Links!Execute, Links!NextPass, Links!Common,
      Links!CommonFails, Links!SetAddress, Links!SetAddressFails, Links!Return,
      Links!LookUpFails, Links!RenameSkip, Links!RenameStart, Links!Rename,
      Links!RenameUnseen, Links!RenameFails, Links!BondStart, Links!PrimaryUnknown,
      Links!CreateTeam, Links!CreateTeamUnanswered, Links!CreateTeamFails,
      Links!NicFound, Links!NicNotFound, Links!TeamDeleted, Links!DeleteUnanswered,
      Links!DeleteFails, Links!VlanStart, Links!AddNic,
      Links!AddNicUnanswered, Links!AddNicFails, Links!Rest
<1>10. QED
  BY <1>4, <1>6, <1>7, <1>8, <1>9

LEMMA NextTeamsInv ==
  ASSUME LinksTypeInv, NamesInv, TeamsInv, Links!Next
  PROVE  TeamsInv'
<1>1. Bonds' = Bonds
  BY NextDetails DEF Bonds
<1>2. QED
  BY <1>1, NextMembers, NextWhole, NextWholeOrNone DEF TeamsInv

-----------------------------------------------------------------------------
(* Links in service. *)

\* What is in service has a name of the machine; a team that is worked on is not in service.
ReadyInv ==
  /\ \A r \in ready :
       \/ \E i \in 1 .. Len(Physicals) : Physicals[i].name = r /\ PhysicalNamed(i)
       \/ \E nic \in nics : nic[1] = r
  /\ linkPc \in {"member", "wait", "delete"} /\ pass = "bonds" => Links!TheBond \notin ready
  /\ linkPc = "common" /\ pass = "vlans" => <<Links!Link.name, Links!Link.bond>> \in nics

LEMMA ReadyIsTaken ==
  ASSUME LinksTypeInv, ReadyInv
  PROVE  ready \subseteq Links!Taken
<1>1. \A i \in 1 .. Len(Physicals) : PhysicalNamed(i) => Physicals[i].name \in Links!Taken
  BY LinkTypes DEF LinksTypeInv, PlaceInv, PhysicalNamed, Links!Taken
<1>2. QED
  BY <1>1 DEF ReadyInv, Links!Taken

LEMMA NextReadyInv ==
  ASSUME LinksTypeInv, NamesInv, TeamsInv, ReadyInv, Links!Next
  PROVE  ReadyInv'
<1>0. /\ UNCHANGED linkDetails /\ PlaceInv /\ Links!Links' = Links!Links
      /\ Physicals' = Physicals
  BY NextDetails DEF LinksTypeInv, Links!Links, Physicals
<1>1. \A r \in ready' :
        \/ \E i \in 1 .. Len(Physicals) : Physicals[i].name = r /\ PhysicalNamed(i)'
        \/ \E nic \in nics' : nic[1] = r
  <2>1. \A i \in 1 .. Len(Physicals) : PhysicalNamed(i) => PhysicalNamed(i)'
    BY NamedStays
  <2>2. CASE nics \subseteq nics' /\ ready' \subseteq ready
    BY <2>1, <2>2 DEF ReadyInv
  <2>3. CASE SomeTeamDropped
    BY <2>1, <2>3 DEF SomeTeamDropped, Links!DropTeam, ReadyInv
  <2>4. CASE SomeLinkReady
    <3>1. Links!AtLink /\ link <= Len(Links!Links[pass]) /\ linkPc = "common"
      BY <1>0, <2>4 DEF SomeLinkReady, PlaceInv, Links!AtLink
    <3>2. \/ \E i \in 1 .. Len(Physicals) : Physicals[i].name = Links!Link.name /\ PhysicalNamed(i)
          \/ \E nic \in nics : nic[1] = Links!Link.name
      <4>1. CASE pass = "physical"
        BY <1>0, <3>1, <4>1, LinkFacts DEF NamesInv, PhysicalNamed
      <4>2. CASE pass = "bonds"
        BY <1>0, <3>1, <4>2 DEF TeamsInv, Links!Whole
      <4>3. CASE pass = "vlans"
        BY <1>0, <3>1, <4>3 DEF ReadyInv
      <4>4. QED
        BY <1>0, <4>1, <4>2, <4>3 DEF PlaceInv, Passes
    <3>3. nics' = nics /\ ready' = ready \cup {Links!Link.name}
      BY <2>4 DEF SomeLinkReady
    <3>4. QED
      BY <2>1, <3>2, <3>3 DEF ReadyInv
  <2>5. QED
    BY <2>2, <2>3, <2>4, NextEffect
    DEF Effect, NothingDone, SomeAdapterRenamed, SomeTeamCreated, Links!PutTeam,
        SomeMemberAdded, SomeNicAdded, Links!PutNic, SomeLinkAddressed
<1>2. (linkPc \in {"member", "wait", "delete"} /\ pass = "bonds" => Links!TheBond \notin ready)'
  <2>1. CASE Links!CreateTeam
    <3>1. Links!TheBond \notin ready
      BY <2>1, ReadyIsTaken DEF Links!CreateTeam, Links!Creatable
    <3>2. QED
      BY <1>0, <2>1, <3>1 DEF Links!CreateTeam, Links!TheBond, Links!Link
  <2>2. CASE linkPc \in {"member", "wait", "delete"} /\ UNCHANGED <<pass, link>> /\ ready' \subseteq ready
    BY <1>0, <2>2 DEF ReadyInv, Links!TheBond, Links!Link
  <2>3. CASE Links!AddNic
    BY <1>0, <2>3 DEF Links!AddNic, PlaceInv
  <2>4. CASE linkPc' \notin {"member", "wait", "delete"}
    BY <2>4
  <2>5. CASE Links!NextMember \/ Links!MemberUnanswered \/ Links!MemberFails \/ Links!MembersOver
             \/ Links!NicFound \/ Links!NicNotFound
    BY <2>2, <2>5
    DEF Links!NextMember, Links!MemberUnanswered, Links!MemberFails, Links!MembersOver,
      Links!NicFound, Links!NicNotFound, Links!plugin, Links!machine
  <2>6. CASE Links!TeamDeleted \/ Links!DeleteUnanswered \/ Links!DeleteFails
    BY <2>2, <2>6
    DEF Links!TeamDeleted, Links!DeleteUnanswered, Links!DeleteFails, Links!DropTeam,
      Links!machine
  <2>7. QED
    BY <2>1, <2>3, <2>4, <2>5, <2>6
    DEF Links!Next, Links!Execute, Links!Crash, Links!NextPass, Links!Common,
      Links!CommonFails, Links!SetAddress, Links!SetAddressFails, Links!Return,
      Links!LookUpFails, Links!RenameSkip, Links!RenameStart, Links!Rename,
      Links!RenameUnseen, Links!RenameFails, Links!BondStart, Links!PrimaryUnknown,
      Links!CreateTeamUnanswered, Links!CreateTeamFails,
      Links!VlanStart, Links!AddNicUnanswered, Links!AddNicFails, Links!Rest,
      Links!vars, Links!Again, Links!FromTheStart, Links!GiveUp
<1>3. (linkPc = "common" /\ pass = "vlans" => <<Links!Link.name, Links!Link.bond>> \in nics)'
  <2>1. CASE Links!NicFound
    BY <1>0, <2>1
    DEF Links!NicFound, Links!NicVisible, Links!plugin, Links!machine, Links!Link
  <2>2. CASE Links!RenameSkip \/ Links!Rename
    BY <1>0, <2>2 DEF Links!RenameSkip, Links!Rename, Links!plugin, PlaceInv
  <2>3. CASE linkPc' # "common"
    BY <2>3
  <2>4. QED
    BY <2>1, <2>2, <2>3
    DEF Links!Next, Links!Execute, Links!Crash, Links!NextPass, Links!Common,
      Links!CommonFails, Links!SetAddress, Links!SetAddressFails, Links!Return,
      Links!LookUpFails, Links!RenameStart, Links!RenameUnseen,
      Links!RenameFails, Links!BondStart, Links!PrimaryUnknown, Links!CreateTeam,
      Links!CreateTeamUnanswered, Links!CreateTeamFails, Links!NextMember,
      Links!MemberUnanswered, Links!MemberFails, Links!MembersOver,
      Links!NicNotFound, Links!TeamDeleted, Links!DeleteUnanswered, Links!DeleteFails,
      Links!VlanStart, Links!AddNic, Links!AddNicUnanswered, Links!AddNicFails, Links!Rest,
      Links!vars, Links!Again, Links!GiveUp, Links!FromTheStart, Links!Delete
<1>4. QED
  BY <1>0, <1>1, <1>2, <1>3 DEF ReadyInv

\* A team in service is neither taken down nor changed.
LEMMA StepKeepsReadyTeams ==
  ASSUME LinksTypeInv, ReadyInv, Links!Next,
         NEW i \in 1 .. Len(Bonds), Bonds[i].name \in ready
  PROVE  teams'[Bonds[i].name] = teams[Bonds[i].name]
<1>0. PlaceInv /\ teams \in [Names -> SUBSET LinkAdapters] /\ Bonds[i].name \in Names
  BY LinkTypes DEF LinksTypeInv, PlaceInv, MachineInv
<1>1. CASE SomeTeamCreated
  <2>1. Links!TheBond \notin ready
    BY <1>1, ReadyIsTaken DEF SomeTeamCreated, Links!Creatable
  <2>2. QED
    BY <1>0, <1>1, <2>1 DEF SomeTeamCreated, Links!PutTeam
<1>2. CASE SomeMemberAdded \/ SomeTeamDropped
  <2>1. Links!TheBond \notin ready
    BY <1>0, <1>2 DEF SomeMemberAdded, SomeTeamDropped, ReadyInv, PlaceInv
  <2>2. QED
    BY <1>0, <1>2, <2>1
    DEF SomeMemberAdded, Links!PutMember, SomeTeamDropped, Links!DropTeam
<1>3. CASE UNCHANGED teams
  BY <1>3
<1>4. QED
  BY <1>1, <1>2, <1>3, NextEffect
  DEF Effect, NothingDone, SomeAdapterRenamed, SomeNicAdded, SomeLinkReady, SomeLinkAddressed

-----------------------------------------------------------------------------
(* The work of one execution. *)

\* Teams of bonds that the execution is over with are its own.
BuiltInv ==
  /\ \A i \in 1 .. Len(Bonds) : Over("bonds", i) => Bonds[i].name \in built
  /\ linkPc \in {"member", "wait", "delete", "common"} /\ pass = "bonds" => Links!TheBond \in built

LEMMA NextBuiltInv ==
  ASSUME LinksTypeInv, BuiltInv, Links!Next
  PROVE  BuiltInv'
<1>0. /\ UNCHANGED linkDetails /\ PlaceInv /\ Links!Links' = Links!Links /\ Bonds' = Bonds
      /\ linkDetails \in LinkDetails
  BY NextDetails DEF LinksTypeInv, PlaceInv, Links!Links, Bonds
<1>1. built \subseteq built' \/ Links!Execute
  BY DEF Links!Next, Links!Crash, Links!NextPass, Links!Common,
      Links!CommonFails, Links!SetAddress, Links!SetAddressFails, Links!Return,
      Links!LookUpFails, Links!RenameSkip, Links!RenameStart, Links!Rename,
      Links!RenameUnseen, Links!RenameFails, Links!BondStart, Links!PrimaryUnknown,
      Links!CreateTeam, Links!CreateTeamUnanswered, Links!CreateTeamFails,
      Links!NextMember, Links!MemberUnanswered, Links!MemberFails, Links!MembersOver,
      Links!NicFound, Links!NicNotFound, Links!TeamDeleted, Links!DeleteUnanswered,
      Links!DeleteFails, Links!VlanStart, Links!AddNic, Links!AddNicUnanswered,
      Links!AddNicFails, Links!Rest, Links!vars
<1>2. \A i \in 1 .. Len(Bonds) : Over("bonds", i)' => Bonds[i].name \in built'
  <2>1. SUFFICES ASSUME NEW i \in 1 .. Len(Bonds), Over("bonds", i)'
                 PROVE  Bonds[i].name \in built'
    OBVIOUS
  <2>2. Over("bonds", i) \/ (Links!Common /\ pass = "bonds" /\ i = link)
    BY <1>0, <2>1, NextOver, DetailsFacts DEF Passes
  <2>3. Bonds[i].name \in built
    <3>1. CASE Links!Common /\ pass = "bonds" /\ i = link
      BY <1>0, <3>1, DetailsFacts DEF Links!Common, BuiltInv, Links!TheBond, Links!Link
    <3>2. QED
      BY <2>2, <3>1 DEF BuiltInv
  <2>4. ~Links!Execute
    BY <1>0, <2>1, DetailsFacts DEF Links!Execute, Over, After, Links!AtLink
  <2>5. QED
    BY <1>1, <2>3, <2>4
<1>3. (linkPc \in {"member", "wait", "delete", "common"} /\ pass = "bonds" => Links!TheBond \in built)'
  <2>1. CASE Links!CreateTeam
    BY <1>0, <2>1 DEF Links!CreateTeam, Links!TheBond, Links!Link
  <2>2. CASE /\ linkPc \in {"member", "wait", "delete"}
             /\ UNCHANGED <<pass, link, built>>
    BY <1>0, <2>2 DEF BuiltInv, Links!TheBond, Links!Link
  <2>3. CASE Links!AddNic \/ Links!RenameSkip \/ Links!Rename
    BY <1>0, <2>3 DEF Links!AddNic, Links!RenameSkip, Links!Rename, Links!plugin, PlaceInv
  <2>4. CASE linkPc' \notin {"member", "wait", "delete", "common"}
    BY <2>4
  <2>5. CASE Links!NextMember \/ Links!MemberUnanswered \/ Links!MemberFails \/ Links!MembersOver
             \/ Links!NicFound \/ Links!NicNotFound
    BY <2>2, <2>5
    DEF Links!NextMember, Links!MemberUnanswered, Links!MemberFails, Links!MembersOver,
      Links!NicFound, Links!NicNotFound, Links!plugin
  <2>6. CASE Links!TeamDeleted \/ Links!DeleteUnanswered \/ Links!DeleteFails
    BY <2>2, <2>6
    DEF Links!TeamDeleted, Links!DeleteUnanswered, Links!DeleteFails
  <2>7. QED
    BY <2>1, <2>3, <2>4, <2>5, <2>6
    DEF Links!Next, Links!Execute, Links!Crash, Links!NextPass, Links!Common,
      Links!CommonFails, Links!SetAddress, Links!SetAddressFails, Links!Return,
      Links!LookUpFails, Links!RenameStart,
      Links!RenameUnseen, Links!RenameFails, Links!BondStart, Links!PrimaryUnknown,
      Links!CreateTeamUnanswered, Links!CreateTeamFails,
      Links!VlanStart, Links!AddNicUnanswered, Links!AddNicFails, Links!Rest,
      Links!vars, Links!Again, Links!FromTheStart, Links!GiveUp
<1>4. QED
  BY <1>0, <1>2, <1>3 DEF BuiltInv

\* What the execution is over with is in place and in service.
InPlaceInv ==
  /\ \A i \in 1 .. Len(Physicals) : Over("physical", i) => Physicals[i].name \in ready
  /\ \A i \in 1 .. Len(Bonds) :
       Over("bonds", i) => Links!Whole(Bonds[i]) /\ Bonds[i].name \in ready
  /\ \A i \in 1 .. Len(Vlans) :
       Over("vlans", i) => <<Vlans[i].name, Vlans[i].bond>> \in nics /\ Vlans[i].name \in ready
  /\ \A n \in 1 .. Len(linkDetails.networks) :
       linkPc = "done" \/ (linkPc = "networks" /\ n < link) => linkDetails.networks[n] \in addressed

\* A step takes nothing out of service but the NICs of the team it deletes.
LEMMA ReadyStays ==
  ASSUME LinksTypeInv, Links!Next, NEW r \in ready,
         \A nic \in nics : linkPc = "delete" /\ nic[1] = r => nic[2] # Links!TheBond
  PROVE  r \in ready'
<1>1. CASE SomeTeamDropped
  BY <1>1 DEF SomeTeamDropped, Links!DropTeam
<1>2. CASE ready \subseteq ready'
  BY <1>2
<1>3. QED
  BY <1>1, <1>2, NextEffect
  DEF Effect, NothingDone, SomeAdapterRenamed, SomeTeamCreated, SomeMemberAdded, SomeNicAdded,
      SomeLinkReady, SomeLinkAddressed

LEMMA PhysicalsInPlace ==
  ASSUME LinksTypeInv, NamesInv, InPlaceInv, Links!Next,
         NEW i \in 1 .. Len(Physicals), Over("physical", i)'
  PROVE  Physicals[i].name \in ready'
<1>0. linkDetails \in LinkDetails /\ PlaceInv
  BY DEF LinksTypeInv, PlaceInv
<1>1. Over("physical", i) \/ (Links!Common /\ pass = "physical" /\ i = link)
  BY <1>0, NextOver, DetailsFacts DEF Passes
<1>2. CASE Over("physical", i)
  <2>1. PhysicalNamed(i) /\ Physicals[i].mac \in LinkAdapters
    BY <1>0, <1>2, LinkTypes DEF NamesInv
  <2>2. \A nic \in nics : nic[1] # Physicals[i].name
    BY <2>1 DEF NamesInv, PhysicalNamed
  <2>3. QED
    BY <1>2, <2>2, ReadyStays DEF InPlaceInv
<1>3. CASE Links!Common /\ pass = "physical" /\ i = link
  BY <1>0, <1>3, DetailsFacts DEF Links!Common, Links!Link
<1>4. QED
  BY <1>1, <1>2, <1>3

LEMMA BondsInPlace ==
  ASSUME LinksTypeInv, NamesInv, TeamsInv, InPlaceInv, Links!Next,
         NEW i \in 1 .. Len(Bonds), Over("bonds", i)'
  PROVE  Links!Whole(Bonds[i])' /\ Bonds[i].name \in ready'
<1>0. linkDetails \in LinkDetails /\ PlaceInv
  BY DEF LinksTypeInv, PlaceInv
<1>1. Over("bonds", i) \/ (Links!Common /\ pass = "bonds" /\ i = link)
  BY <1>0, NextOver, DetailsFacts DEF Passes
<1>2. CASE Over("bonds", i)
  <2>1. Links!Whole(Bonds[i]) /\ Bonds[i].name \in ready
    BY <1>2 DEF InPlaceInv
  <2>2. linkPc = "delete" => i # link
    BY <1>0, <1>2, DetailsFacts DEF Over, After, PlaceInv, Links!AtLink
  <2>3. Links!Whole(Bonds[i])'
    BY <2>1, <2>2, WholeStays
  <2>4. ASSUME NEW nic \in nics, linkPc = "delete", nic[1] = Bonds[i].name
        PROVE  nic[2] # Links!TheBond
    <3>1. nic = <<Bonds[i].name, Bonds[i].name>>
      BY <2>1, <2>4 DEF NamesInv, Links!Whole
    <3>2. Links!TheBond # Bonds[i].name
      BY <1>0, <2>2, <2>4, AtBond DEF PlaceInv, Links!AtLink
    <3>3. QED
      BY <3>1, <3>2
  <2>5. QED
    BY <2>1, <2>3, <2>4, ReadyStays
<1>3. CASE Links!Common /\ pass = "bonds" /\ i = link
  <2>1. Links!Link = Bonds[i]
    BY <1>0, <1>3, DetailsFacts DEF Links!Link
  <2>2. Links!Whole(Bonds[i]) /\ linkPc # "delete"
    BY <1>3, <2>1 DEF TeamsInv, Links!Common
  <2>3. QED
    BY <1>3, <2>1, <2>2, WholeStays DEF Links!Common
<1>4. QED
  BY <1>1, <1>2, <1>3

LEMMA VlansInPlace ==
  ASSUME LinksTypeInv, NamesInv, ReadyInv, InPlaceInv, Links!Next,
         NEW i \in 1 .. Len(Vlans), Over("vlans", i)'
  PROVE  <<Vlans[i].name, Vlans[i].bond>> \in nics' /\ Vlans[i].name \in ready'
<1>0. linkDetails \in LinkDetails /\ PlaceInv
  BY DEF LinksTypeInv, PlaceInv
<1>1. Over("vlans", i) \/ (Links!Common /\ pass = "vlans" /\ i = link)
  BY <1>0, NextOver, DetailsFacts DEF Passes
<1>2. linkPc # "delete"
  BY <1>0, <1>1 DEF Over, After, PlaceInv, Links!Common
<1>3. nics \subseteq nics'
  BY <1>2, NextEffect
  DEF Effect, NothingDone, SomeAdapterRenamed, SomeTeamCreated, Links!PutTeam, SomeMemberAdded,
      SomeTeamDropped, SomeNicAdded, Links!PutNic, SomeLinkReady, SomeLinkAddressed
<1>4. CASE Over("vlans", i)
  BY <1>2, <1>3, <1>4, ReadyStays DEF InPlaceInv
<1>5. CASE Links!Common /\ pass = "vlans" /\ i = link
  <2>1. Links!Link = Vlans[i]
    BY <1>0, <1>5, DetailsFacts DEF Links!Link
  <2>2. QED
    BY <1>3, <1>5, <2>1 DEF ReadyInv, Links!Common
<1>6. QED
  BY <1>1, <1>4, <1>5

LEMMA NetworksInPlace ==
  ASSUME LinksTypeInv, InPlaceInv, Links!Next,
         NEW n \in 1 .. Len(linkDetails.networks),
         linkPc' = "done" \/ (linkPc' = "networks" /\ n < link')
  PROVE  linkDetails.networks[n] \in addressed'
<1>0. /\ linkDetails \in LinkDetails /\ PlaceInv /\ Len(linkDetails.networks) \in Nat /\ n \in Nat
      /\ n >= 1 /\ n <= Len(linkDetails.networks)
  BY DetailsFacts DEF LinksTypeInv, PlaceInv
<1>1. CASE Links!NextPass
  BY <1>0, <1>1 DEF Links!NextPass
<1>2. CASE Links!SetAddress
  BY <1>0, <1>2 DEF Links!SetAddress, InPlaceInv, PlaceInv
<1>3. CASE Links!Return
  BY <1>0, <1>3 DEF Links!Return, Links!machine, InPlaceInv, PlaceInv
<1>4. CASE Links!Rest
  BY <1>0, <1>4 DEF Links!Rest, Links!vars, Links!machine, InPlaceInv
<1>5. QED
  BY <1>1, <1>2, <1>3, <1>4
  DEF Links!Next, Links!Execute, Links!Crash, Links!Common,
      Links!CommonFails, Links!SetAddressFails,
      Links!LookUpFails, Links!RenameSkip, Links!RenameStart, Links!Rename,
      Links!RenameUnseen, Links!RenameFails, Links!BondStart, Links!PrimaryUnknown,
      Links!CreateTeam, Links!CreateTeamUnanswered, Links!CreateTeamFails,
      Links!NextMember, Links!MemberUnanswered, Links!MemberFails, Links!MembersOver,
      Links!NicFound, Links!NicNotFound, Links!TeamDeleted, Links!DeleteUnanswered,
      Links!DeleteFails, Links!VlanStart, Links!AddNic, Links!AddNicUnanswered,
      Links!AddNicFails, Links!Again, Links!FromTheStart, Links!GiveUp, Links!Delete

-----------------------------------------------------------------------------
(* The version 2 path as a whole. *)

LinksInv ==
  LinksTypeInv /\ NamesInv /\ TeamsInv /\ ReadyInv /\ BuiltInv /\ InPlaceInv

LEMMA NextLinksInv ==
  ASSUME LinksInv, Links!Next
  PROVE  LinksInv'
<1>0. /\ LinksTypeInv /\ NamesInv /\ TeamsInv /\ ReadyInv /\ BuiltInv /\ InPlaceInv
      /\ UNCHANGED linkDetails
  BY NextDetails DEF LinksInv
<1>1. InPlaceInv'
  BY <1>0, PhysicalsInPlace, BondsInPlace, VlansInPlace, NetworksInPlace
  DEF InPlaceInv, Physicals, Bonds, Vlans
<1>2. QED
  BY <1>0, <1>1, NextLinksTypeInv, NextNamesInv, NextTeamsInv, NextReadyInv, NextBuiltInv
  DEF LinksInv

LEMMA InitLinksInv ==
  ASSUME Links!Init
  PROVE  LinksInv
<1>1. LinksTypeInv
  BY InitLinksTypeInv
<1>2. /\ linkPc = "off" /\ nics = {} /\ ready = {}
      /\ \A b \in Names : teams[b] = {}
  BY DEF Links!Init
<1>3. \A i \in 1 .. Len(Bonds) : Bonds[i].name \in Names
  BY <1>1, LinkTypes DEF LinksTypeInv, PlaceInv
<1>4. \A p, i : ~Over(p, i)
  BY <1>2 DEF Over, Links!AtLink
<1>5. NamesInv
  BY <1>2, <1>4 DEF NamesInv
<1>6. TeamsInv
  BY <1>2, <1>3 DEF TeamsInv, WholeOrNone
<1>7. ReadyInv /\ BuiltInv /\ InPlaceInv
  BY <1>2, <1>4 DEF ReadyInv, BuiltInv, InPlaceInv
<1>8. QED
  BY <1>1, <1>5, <1>6, <1>7 DEF LinksInv

\* Nothing that the version 2 path keeps has changed.
LEMMA StutterLinksInv ==
  ASSUME LinksInv, UNCHANGED linkVars, failures' \in 0 .. MaxFailures
  PROVE  LinksInv'
<1>0. /\ Links!Links' = Links!Links /\ Links!Link' = Links!Link
      /\ Links!TheBond' = Links!TheBond /\ Links!AtLink' = Links!AtLink
      /\ Bonds' = Bonds /\ Vlans' = Vlans /\ Physicals' = Physicals
  BY DEF linkVars, Links!Links, Links!Link, Links!TheBond, Links!AtLink, Bonds, Vlans, Physicals
<1>1. LinksTypeInv'
  BY <1>0 DEF LinksInv, LinksTypeInv, PlaceInv, MachineInv, PluginInv, linkVars
<1>2. \A p, i : Over(p, i)' = Over(p, i)
  BY <1>0 DEF Over, linkVars
<1>3. \A i : PhysicalNamed(i)' = PhysicalNamed(i)
  BY <1>0 DEF PhysicalNamed, linkVars
<1>4. NamesInv'
  BY <1>0, <1>2, <1>3 DEF LinksInv, NamesInv, PhysicalsNamed, linkVars
<1>5. TeamsInv'
  <2>1. \A bond : Links!Whole(bond)' = Links!Whole(bond)
    BY DEF Links!Whole, linkVars
  <2>2. \A bond : Links!Building(bond)' = Links!Building(bond)
    BY <1>0 DEF Links!Building, linkVars
  <2>3. \A i : WholeOrNone(i)' = WholeOrNone(i)
    BY <1>0, <2>1, <2>2 DEF WholeOrNone, linkVars
  <2>4. MembersAdded(member)' = MembersAdded(member)
    BY <1>0 DEF MembersAdded, linkVars
  <2>5. UNCHANGED <<linkPc, pass, teams, nics>>
    BY DEF linkVars
  <2>6. QED
    BY <1>0, <2>1, <2>3, <2>4, <2>5 DEF LinksInv, TeamsInv
<1>6. ReadyInv'
  BY <1>0, <1>3 DEF LinksInv, ReadyInv, linkVars
<1>7. BuiltInv'
  BY <1>0, <1>2 DEF LinksInv, BuiltInv, linkVars
<1>8. InPlaceInv'
  BY <1>0, <1>2 DEF LinksInv, InPlaceInv, Links!Whole, linkVars
<1>9. QED
  BY <1>1, <1>4, <1>5, <1>6, <1>7, <1>8 DEF LinksInv

-----------------------------------------------------------------------------
(* The plugin: both paths. *)

NetworkInv == version \in 0..2 /\ AddressesInv /\ LinksInv

LEMMA InitNetworkInv == Init => NetworkInv
BY InitAddressesInv, InitLinksInv DEF Init, NetworkInv

LEMMA NextNetworkInv ==
  ASSUME NetworkInv, [Next]_vars
  PROVE  NetworkInv'
<1>0. AddressesInv /\ LinksInv /\ failures \in 0 .. MaxFailures
  BY DEF NetworkInv, LinksInv, LinksTypeInv, PluginInv
<1>1. CASE ProcessV2
  <2>1. LinksInv' /\ version' = version /\ UNCHANGED adapterVars
    BY <1>0, <1>1, NextLinksInv DEF ProcessV2
  <2>2. AddressesInv'
    BY <1>0, <2>1, StutterAddressesInv DEF LinksInv, LinksTypeInv, PluginInv
  <2>3. QED
    BY <2>1, <2>2 DEF NetworkInv
<1>2. CASE ProcessV1
  <2>1. AddressesInv' /\ version' = version /\ UNCHANGED linkVars
    BY <1>0, <1>2, NextAddressesInv DEF ProcessV1
  <2>2. LinksInv'
    BY <1>0, <2>1, StutterLinksInv DEF AddressesInv, AddressesTypeInv, Kept
  <2>3. QED
    BY <2>1, <2>2 DEF NetworkInv
<1>3. CASE UNCHANGED vars
  <2>1. UNCHANGED adapterVars /\ UNCHANGED linkVars /\ UNCHANGED <<version, failures>>
    BY <1>3 DEF vars
  <2>2. QED
    BY <1>0, <2>1, StutterAddressesInv, StutterLinksInv DEF NetworkInv
<1>4. QED
  BY <1>1, <1>2, <1>3 DEF Next, NoDetails

LEMMA NetworkInvHolds == Spec => []NetworkInv
<1>1. NetworkInv /\ [Next]_vars => NetworkInv'
  BY NextNetworkInv
<1>2. QED
  BY InitNetworkInv, <1>1, PTL DEF Spec

\* Whatever details a machine has, and whichever calls fail or crash, the plugin, the retries
\* and the machine keep their types.
THEOREM NetworkTypes == Spec => []TypeOK
<1>1. NetworkInv => TypeOK
  BY TypesAreNamed, LinkTypesAreNamed
  DEF NetworkInv, AddressesInv, LinksInv, TypeOK
<1>2. QED
  BY NetworkInvHolds, <1>1, PTL

\* A failed creation of a team leaves no half of it, but for the ways that windows names.
THEOREM NoTeamIsHalf == Spec => []NoHalfTeam
<1>1. ASSUME NetworkInv PROVE NoHalfTeam
  BY <1>1 DEF NetworkInv, LinksInv, TeamsInv, WholeOrNone, NoHalfTeam, Links!NoHalfTeam,
     Links!BondLinks, Bonds
<1>2. QED
  BY NetworkInvHolds, <1>1, PTL

\* A plugin that is done created the teams itself.
THEOREM DoneWorkIsOwn == Spec => []DoneIsOwnWork
<1>1. ASSUME NetworkInv PROVE DoneIsOwnWork
  BY <1>1
  DEF NetworkInv, LinksInv, BuiltInv, Over, DoneIsOwnWork, Links!DoneIsOwnWork,
      Links!BondLinks, Bonds
<1>2. QED
  BY NetworkInvHolds, <1>1, PTL

\* A plugin that is done has configured what the details say: on the version 2 path names,
\* teams, NICs and addresses, on the version 1 path the adapters that one detail names.
THEOREM DoneMachineIsConfigured == Spec => []DoneIsConfigured
<1>1. ASSUME NetworkInv, linkPc = "done" PROVE Links!DoneIsConfigured
  <2>1. /\ \A i \in 1 .. Len(Physicals) : PhysicalNamed(i) /\ Physicals[i].name \in ready
        /\ \A i \in 1 .. Len(Bonds) : Links!Whole(Bonds[i]) /\ Bonds[i].name \in ready
        /\ \A i \in 1 .. Len(Vlans) :
             <<Vlans[i].name, Vlans[i].bond>> \in nics /\ Vlans[i].name \in ready
        /\ \A n \in 1 .. Len(linkDetails.networks) : linkDetails.networks[n] \in addressed
    BY <1>1 DEF NetworkInv, LinksInv, NamesInv, InPlaceInv, Over
  <2>2. QED
    BY <2>1
    DEF Links!DoneIsConfigured, Links!PhysicalLinks, Links!BondLinks, Links!VlanLinks,
        PhysicalNamed, Physicals, Bonds, Vlans
<1>2. ASSUME NetworkInv PROVE DoneIsConfigured
  <2>1. Links!DoneIsConfigured
    BY <1>1, <1>2 DEF Links!DoneIsConfigured
  <2>2. Addresses!DoneIsConfigured
    BY <1>2, AddressesDone DEF NetworkInv
  <2>3. QED
    BY <2>1, <2>2 DEF DoneIsConfigured
<1>3. QED
  BY NetworkInvHolds, <1>2, PTL

\* On the version 1 path a reboot is asked for exactly when a call asked for one.
THEOREM RebootIsAsked == Spec => []RebootAsAsked
<1>1. ASSUME NetworkInv PROVE RebootAsAsked
  BY <1>1, AddressesRebootAsAsked DEF NetworkInv, RebootAsAsked
<1>2. QED
  BY NetworkInvHolds, <1>1, PTL

\* However often the plugin is repeated, a team in service is left alone.
THEOREM ReadyTeamsAreKept == Spec => ReadyTeamKept
<1>1. ASSUME NetworkInv, [Next]_vars
      PROVE  [\A bond \in Links!BondLinks :
                bond.name \in ready => teams'[bond.name] = teams[bond.name]]_(Links!vars)
  <2>1. CASE ProcessV2
    BY <1>1, <2>1, StepKeepsReadyTeams
    DEF ProcessV2, NetworkInv, LinksInv, Links!BondLinks, Bonds
  <2>2. CASE UNCHANGED teams
    BY <2>2
  <2>3. QED
    BY <1>1, <2>1, <2>2 DEF Next, ProcessV1, NoDetails, vars, linkVars
<1>2. QED
  BY NetworkInvHolds, <1>1, PTL DEF Spec, ReadyTeamKept, Links!ReadyTeamKept

=============================================================================
