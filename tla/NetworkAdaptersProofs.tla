----------------------- MODULE NetworkAdaptersProofs -----------------------
(***************************************************************************)
(* Proofs about the version 1 path of NetworkConfig: the adapters that are  *)
(* matched with details, and what set_static_network_config leaves on them. *)
(* The theorems are in NetworkLinksProofs, for both paths together.         *)
(*                                                                         *)
(* AddressesInv is inductive. MatchedInv says what the loop over the        *)
(* details has put in the dictionary macnics: the last detail given to an   *)
(* adapter. SettledInv says of each adapter and family that the loop over   *)
(* the adapters is still to set it, or that it has the address of that      *)
(* detail; the calls between removing and creating an address need CallInv, *)
(* and that nobody ends without an address needs NoneInv.                   *)
(***************************************************************************)
EXTENDS NetworkConfig, TLAPS

LEMMA Bounds ==
  /\ MaxFailures \in Nat /\ RenameRetries \in Nat /\ CallRetries \in Nat
  /\ TeamRetries \in Nat /\ NicRetries \in Nat
BY NetworkConfigAssumption

\* What is constant during the executions.
FixedInv ==
  adapters \in AdapterLists /\ adapterDetails \in AdapterDetails /\ legacy \in Legacy

LEMMA Lists ==
  ASSUME FixedInv
  PROVE  /\ adapters \in Seq(Addresses!Adapter)
         /\ Len(adapters) \in Nat
         /\ \A i \in 1 .. Len(adapters) : adapters[i].mac \in Macs /\ adapters[i].name \in Nat
         /\ \A i, j \in 1 .. Len(adapters) :
              adapters[i].mac = adapters[j].mac \/ adapters[i].name = adapters[j].name => i = j
         /\ adapterDetails \in Seq(Addresses!Detail)
         /\ Len(adapterDetails) \in Nat
         /\ \A n \in 1 .. Len(adapterDetails) :
              /\ adapterDetails[n].mac \in Macs \cup {NoMac}
              /\ adapterDetails[n].v4 \in BOOLEAN /\ adapterDetails[n].v6 \in BOOLEAN
         /\ legacy \in BOOLEAN
<1>1. /\ adapters \in Seq(Addresses!Adapter) /\ adapterDetails \in Seq(Addresses!Detail)
      /\ legacy \in BOOLEAN
  BY NetworkConfigAssumption DEF FixedInv
<1>2. /\ \A i \in 1 .. Len(adapters) : adapters[i] \in Addresses!Adapter
      /\ Len(adapters) \in Nat /\ Len(adapterDetails) \in Nat
      /\ \A n \in 1 .. Len(adapterDetails) : adapterDetails[n] \in Addresses!Detail
  BY <1>1
<1>3. /\ \A i \in 1 .. Len(adapters) : adapters[i].mac \in Macs /\ adapters[i].name \in Nat
      /\ \A n \in 1 .. Len(adapterDetails) :
              /\ adapterDetails[n].mac \in Macs \cup {NoMac}
              /\ adapterDetails[n].v4 \in BOOLEAN /\ adapterDetails[n].v6 \in BOOLEAN
  BY <1>2 DEF Addresses!Adapter, Addresses!Detail
<1>4. \A i, j \in 1 .. Len(adapters) :
              adapters[i].mac = adapters[j].mac \/ adapters[i].name = adapters[j].name => i = j
  BY NetworkConfigAssumption DEF FixedInv
<1>5. QED
  BY <1>1, <1>2, <1>3, <1>4

\* A detail is matched to an adapter of the machine, or to none.
LEMMA MacOfType ==
  ASSUME FixedInv, NEW n \in 1 .. Len(adapterDetails)
  PROVE  Addresses!MacOf(adapterDetails[n]) \in Macs \cup {NoMac}
<1> DEFINE d == adapterDetails[n]
<1>1. Addresses!Meant(d) \subseteq 1 .. Len(adapters)
  BY DEF Addresses!Meant, Addresses!Sorted, Addresses!Position
<1>2. CASE d.mac # NoMac
  BY <1>2, Lists DEF Addresses!MacOf
<1>3. CASE d.mac = NoMac /\ Addresses!Meant(d) = {}
  BY <1>3 DEF Addresses!MacOf
<1>4. CASE d.mac = NoMac /\ Addresses!Meant(d) # {}
  <2>1. (CHOOSE i \in Addresses!Meant(d) : TRUE) \in 1 .. Len(adapters)
    BY <1>1, <1>4
  <2>2. QED
    BY <1>4, <2>1, Lists DEF Addresses!MacOf
<1>5. QED
  BY <1>2, <1>3, <1>4

-----------------------------------------------------------------------------
(* Types. *)

Where ==
  /\ adapterPc \in {"off", "failed", "match", "adapter", "dhcp", "remove", "create", "dns",
                    "enable", "more", "merge", "done"}
  /\ nth \in Nat \ {0}
  /\ adapterPc = "match" => nth <= Len(adapterDetails) + 1
  /\ adapterPc = "adapter" => nth <= Len(adapters) + 1
  /\ Addresses!InCall \/ adapterPc = "merge" =>
       nth <= Len(adapters) /\ macnics[Addresses!Mac] # Addresses!NoDetail

Kept ==
  /\ macnics \in [Macs \cup {NoMac} -> 0 .. Len(adapterDetails)]
  /\ completed \subseteq 1 .. Len(adapterDetails)
  /\ family \in Addresses!Families
  /\ reboot \in {"unbound", "yes", "no"}
  /\ failures \in 0 .. MaxFailures

Flags == rebootRequired \in BOOLEAN /\ asked \in BOOLEAN

Machine ==
  /\ address \in [Macs -> [Addresses!Families ->
       {Addresses!Former, Addresses!NoAddress} \cup 1 .. Len(adapterDetails)]]
  /\ dhcp \in [Macs -> [Addresses!Families -> BOOLEAN]]

AddressesTypeInv == FixedInv /\ Where /\ Kept /\ Flags /\ Machine

LEMMA TypesAreNamed == AddressesTypeInv <=> Addresses!TypeOK
BY DEF AddressesTypeInv, FixedInv, Where, Kept, Flags, Machine, Addresses!TypeOK

LEMMA NextFixed ==
  ASSUME FixedInv, Addresses!Next
  PROVE  UNCHANGED <<adapters, adapterDetails, legacy>>
BY DEF Addresses!Next, Addresses!Execute, Addresses!Crash, Addresses!Incomplete,
  Addresses!Match, Addresses!NoPosition, Addresses!MatchOver, Addresses!MissingDetails,
  Addresses!Configure, Addresses!NextFamily, Addresses!NextAdapter, Addresses!Unbound,
  Addresses!Return, Addresses!CallFails, Addresses!FixDhcp, Addresses!RemoveAddresses,
  Addresses!CreateAddress, Addresses!SetDns, Addresses!EnableStatic, Addresses!SetMore,
  Addresses!Rest, Addresses!fixed, Addresses!vars

LEMMA NextWhere ==
  ASSUME AddressesTypeInv, Addresses!Next
  PROVE  Where'
<1> USE DEF AddressesTypeInv, Where
<1>0. UNCHANGED <<adapters, adapterDetails, legacy>>
  BY NextFixed
<1>1. CASE Addresses!Execute
  BY <1>0, <1>1, Lists DEF Addresses!Execute, Addresses!InCall
<1>2. CASE Addresses!Crash \/ Addresses!NoPosition \/ Addresses!Unbound \/ Addresses!Return
           \/ Addresses!CallFails \/ Addresses!Rest
  BY <1>0, <1>2
  DEF Addresses!Crash, Addresses!NoPosition, Addresses!Unbound, Addresses!Return,
      Addresses!CallFails, Addresses!Rest, Addresses!locals, Addresses!vars, Addresses!InCall
<1>3. CASE Addresses!Incomplete \/ Addresses!Match \/ Addresses!MatchOver
  BY <1>0, <1>3, Lists
  DEF Addresses!Incomplete, Addresses!Match, Addresses!MatchOver, Addresses!InCall
<1>4. CASE Addresses!MissingDetails \/ Addresses!NextAdapter
  BY <1>0, <1>4, Lists
  DEF Addresses!MissingDetails, Addresses!NextAdapter, Addresses!AtAdapter, Addresses!InCall
<1>5. CASE Addresses!Configure \/ Addresses!NextFamily
  BY <1>0, <1>5, Lists
  DEF Addresses!Configure, Addresses!NextFamily, Addresses!AtAdapter, Addresses!InCall,
      Addresses!Mac, Addresses!Call
<1>6. CASE Addresses!FixDhcp \/ Addresses!RemoveAddresses \/ Addresses!CreateAddress
           \/ Addresses!SetDns \/ Addresses!EnableStatic \/ Addresses!SetMore
  BY <1>0, <1>6
  DEF Addresses!FixDhcp, Addresses!RemoveAddresses, Addresses!CreateAddress, Addresses!SetDns,
      Addresses!EnableStatic, Addresses!SetMore, Addresses!locals, Addresses!InCall,
      Addresses!Mac
<1>7. QED
  BY <1>1, <1>2, <1>3, <1>4, <1>5, <1>6 DEF Addresses!Next

LEMMA NextKept ==
  ASSUME AddressesTypeInv, Addresses!Next
  PROVE  Kept'
<1> USE DEF AddressesTypeInv, Kept
<1>0. UNCHANGED <<adapters, adapterDetails, legacy>>
  BY NextFixed
<1>1. CASE Addresses!Execute
  BY <1>0, <1>1, Lists DEF Addresses!Execute, Addresses!NoDetail
<1>2. CASE Addresses!Match
  <2>1. nth \in 1 .. Len(adapterDetails)
    BY <1>2, Lists DEF Addresses!Match, Where
  <2>2. Addresses!MacOf(Addresses!Detailed) \in Macs \cup {NoMac}
    BY <2>1, MacOfType DEF Addresses!Detailed
  <2>3. macnics' \in [Macs \cup {NoMac} -> 0 .. Len(adapterDetails)]
    BY <1>2, <2>1, <2>2 DEF Addresses!Match
  <2>4. completed' \subseteq 1 .. Len(adapterDetails)
    BY <1>2, <2>1 DEF Addresses!Match
  <2>5. QED
    BY <1>0, <1>2, <2>3, <2>4 DEF Addresses!Match
<1>3. CASE Addresses!Crash \/ Addresses!CallFails
  <2>1. UNCHANGED <<macnics, completed, family, reboot>>
    BY <1>3 DEF Addresses!Crash, Addresses!CallFails, Addresses!locals
  <2>2. failures < MaxFailures /\ failures' = failures + 1
    BY <1>3 DEF Addresses!Crash, Addresses!CallFails, Addresses!Failure
  <2>3. failures' \in 0 .. MaxFailures
    BY <2>2, Bounds
  <2>4. QED
    BY <1>0, <2>1, <2>3
<1>4. CASE Addresses!Configure \/ Addresses!NextFamily \/ Addresses!SetDns
           \/ Addresses!EnableStatic \/ Addresses!SetMore
  BY <1>0, <1>4
  DEF Addresses!Configure, Addresses!NextFamily, Addresses!SetDns, Addresses!EnableStatic,
      Addresses!SetMore, Addresses!Families
<1>5. CASE UNCHANGED <<macnics, completed, family, reboot, failures>>
  BY <1>0, <1>5
<1>6. QED
  BY <1>1, <1>2, <1>3, <1>4, <1>5
  DEF Addresses!Next, Addresses!Incomplete, Addresses!NoPosition, Addresses!MatchOver,
      Addresses!MissingDetails, Addresses!NextAdapter, Addresses!Unbound, Addresses!Return,
      Addresses!FixDhcp, Addresses!RemoveAddresses, Addresses!CreateAddress, Addresses!Rest,
      Addresses!locals, Addresses!vars

LEMMA NextFlags ==
  ASSUME Flags, Addresses!Next
  PROVE  Flags'
<1>1. CASE Addresses!Execute
  BY <1>1 DEF Addresses!Execute, Flags
<1>2. CASE Addresses!NextFamily \/ Addresses!NextAdapter
  <2>1. rebootRequired' = Addresses!Merged /\ asked' = asked
    BY <1>2 DEF Addresses!NextFamily, Addresses!NextAdapter
  <2>2. QED
    BY <2>1 DEF Addresses!Merged, Flags
<1>3. CASE Addresses!EnableStatic \/ Addresses!SetMore
  <2>1. PICK r \in {"yes", "no"} : asked' = (asked \/ r = "yes")
    BY <1>3 DEF Addresses!EnableStatic, Addresses!SetMore
  <2>2. asked' \in BOOLEAN
    BY <2>1
  <2>3. rebootRequired' = rebootRequired
    BY <1>3 DEF Addresses!EnableStatic, Addresses!SetMore
  <2>4. QED
    BY <2>2, <2>3 DEF Flags
<1>4. CASE UNCHANGED <<rebootRequired, asked>>
  BY <1>4 DEF Flags
<1>5. QED
  BY <1>1, <1>2, <1>3, <1>4
  DEF Addresses!Next, Addresses!Crash, Addresses!Incomplete, Addresses!Match,
      Addresses!NoPosition, Addresses!MatchOver, Addresses!MissingDetails,
      Addresses!Configure, Addresses!Unbound, Addresses!Return, Addresses!CallFails,
      Addresses!FixDhcp, Addresses!RemoveAddresses, Addresses!CreateAddress,
      Addresses!SetDns, Addresses!Rest, Addresses!locals, Addresses!vars

\* What a call sets concerns the adapter that is being configured.
LEMMA CallAdapter ==
  ASSUME AddressesTypeInv, Addresses!InCall
  PROVE  /\ nth \in 1 .. Len(adapters) /\ Addresses!Mac \in Macs
         /\ macnics[Addresses!Mac] \in 1 .. Len(adapterDetails)
<1>1. nth \in 1 .. Len(adapters)
  BY Lists DEF AddressesTypeInv, Where
<1>2. Addresses!Mac \in Macs
  BY <1>1, Lists DEF AddressesTypeInv, Addresses!Mac
<1>3. macnics[Addresses!Mac] \in 1 .. Len(adapterDetails)
  BY <1>2, Lists DEF AddressesTypeInv, Where, Kept, Addresses!NoDetail
<1>4. QED
  BY <1>1, <1>2, <1>3

Entries ==
  {Addresses!Former, Addresses!NoAddress} \cup 1 .. Len(adapterDetails)

\* One entry of a table is set.
LEMMA SetEntry ==
  ASSUME NEW V, NEW table \in [Macs -> [Addresses!Families -> V]],
         NEW m \in Macs, NEW f \in Addresses!Families, NEW v \in V
  PROVE  /\ [table EXCEPT ![m][f] = v] \in [Macs -> [Addresses!Families -> V]]
         /\ [table EXCEPT ![m][f] = v][m][f] = v
         /\ \A n \in Macs, g \in Addresses!Families :
              n # m \/ g # f => [table EXCEPT ![m][f] = v][n][g] = table[n][g]
OBVIOUS

LEMMA NextMachine ==
  ASSUME AddressesTypeInv, Addresses!Next
  PROVE  Machine'
<1>0. UNCHANGED <<adapters, adapterDetails, legacy>>
  BY NextFixed DEF AddressesTypeInv
<1>1. /\ address \in [Macs -> [Addresses!Families -> Entries]]
      /\ dhcp \in [Macs -> [Addresses!Families -> BOOLEAN]]
      /\ Entries' = Entries
  BY <1>0 DEF AddressesTypeInv, Machine, Entries
<1>2. CASE \/ Addresses!FixDhcp \/ Addresses!RemoveAddresses \/ Addresses!CreateAddress
           \/ Addresses!EnableStatic
  <2>1. Addresses!InCall
    BY <1>2
    DEF Addresses!FixDhcp, Addresses!RemoveAddresses, Addresses!CreateAddress,
        Addresses!EnableStatic, Addresses!InCall
  <2>2. /\ Addresses!Mac \in Macs /\ family \in Addresses!Families
        /\ macnics[Addresses!Mac] \in Entries /\ Addresses!NoAddress \in Entries
    BY <2>1, CallAdapter DEF AddressesTypeInv, Kept, Entries
  <2>3. \/ address' = address
        \/ \E v \in Entries : address' = [address EXCEPT ![Addresses!Mac][family] = v]
    BY <1>2, <2>2
    DEF Addresses!FixDhcp, Addresses!RemoveAddresses, Addresses!CreateAddress,
        Addresses!EnableStatic
  <2>4. dhcp' = dhcp \/ dhcp' = [dhcp EXCEPT ![Addresses!Mac][family] = FALSE]
    BY <1>2
    DEF Addresses!FixDhcp, Addresses!RemoveAddresses, Addresses!CreateAddress,
        Addresses!EnableStatic
  <2>5. address' \in [Macs -> [Addresses!Families -> Entries]]
    <3>1. ASSUME NEW v \in Entries,
                 address' = [address EXCEPT ![Addresses!Mac][family] = v]
          PROVE  address' \in [Macs -> [Addresses!Families -> Entries]]
      <4>1. [address EXCEPT ![Addresses!Mac][family] = v]
              \in [Macs -> [Addresses!Families -> Entries]]
        BY <1>1, <2>2, <3>1
      <4>2. QED
        BY <3>1, <4>1
    <3>2. QED
      BY <1>1, <2>3, <3>1
  <2>6. dhcp' \in [Macs -> [Addresses!Families -> BOOLEAN]]
    <3>1. CASE dhcp' = [dhcp EXCEPT ![Addresses!Mac][family] = FALSE]
      BY <1>1, <2>2, <3>1, FALSE \in BOOLEAN, SetEntry
    <3>2. QED
      BY <1>1, <2>4, <3>1
  <2>7. QED
    BY <1>1, <2>5, <2>6 DEF Machine, Entries
<1>3. CASE UNCHANGED <<address, dhcp>>
  BY <1>0, <1>3 DEF AddressesTypeInv, Machine
<1>4. QED
  BY <1>2, <1>3
  DEF Addresses!Next, Addresses!Execute, Addresses!Crash, Addresses!Incomplete,
      Addresses!Match, Addresses!NoPosition, Addresses!MatchOver, Addresses!MissingDetails,
      Addresses!Configure, Addresses!NextFamily, Addresses!NextAdapter, Addresses!Unbound,
      Addresses!Return, Addresses!CallFails, Addresses!SetDns, Addresses!SetMore,
      Addresses!Rest, Addresses!machine, Addresses!vars

LEMMA NextAddressesTypeInv ==
  ASSUME AddressesTypeInv, Addresses!Next
  PROVE  AddressesTypeInv'
<1>1. FixedInv'
  BY NextFixed DEF AddressesTypeInv, FixedInv
<1>2. QED
  BY <1>1, NextWhere, NextKept, NextFlags, NextMachine DEF AddressesTypeInv

LEMMA InitAddressesTypeInv ==
  ASSUME Addresses!Init
  PROVE  AddressesTypeInv
<1>1. FixedInv
  BY DEF Addresses!Init, FixedInv
<1>2. Where
  BY DEF Addresses!Init, Where, Addresses!InCall
<1>3. Flags
  BY DEF Addresses!Init, Flags
<1>4. Kept
  BY <1>1, Lists, Bounds DEF Addresses!Init, Kept, Addresses!NoDetail, Addresses!Families
<1>5. Machine
  BY DEF Addresses!Init, Machine
<1>6. QED
  BY <1>1, <1>2, <1>3, <1>4, <1>5 DEF AddressesTypeInv

-----------------------------------------------------------------------------
(* The reboot. *)

\* What the calls asked for is in reboot_required, or in reboot until that is merged.
RebootInv ==
  /\ adapterPc \in {"match", "adapter", "dhcp", "remove", "create", "dns", "enable", "done"} =>
       (reboot = "yes" => rebootRequired) /\ (rebootRequired <=> asked)
  /\ adapterPc \in {"more", "merge"} => (Addresses!Merged <=> asked)

LEMMA NextRebootInv ==
  ASSUME RebootInv, Addresses!Next
  PROVE  RebootInv'
<1>1. CASE Addresses!Execute
  BY <1>1 DEF Addresses!Execute, RebootInv
<1>2. CASE Addresses!Crash \/ Addresses!NoPosition \/ Addresses!Unbound \/ Addresses!CallFails
  BY <1>2
  DEF Addresses!Crash, Addresses!NoPosition, Addresses!Unbound, Addresses!CallFails, RebootInv
<1>3. CASE UNCHANGED <<reboot, rebootRequired, asked>>
           /\ (Addresses!Incomplete \/ Addresses!Match \/ Addresses!MatchOver
               \/ Addresses!MissingDetails \/ Addresses!Return \/ Addresses!Configure
               \/ Addresses!FixDhcp \/ Addresses!RemoveAddresses \/ Addresses!CreateAddress
               \/ Addresses!Rest)
  BY <1>3
  DEF Addresses!Incomplete, Addresses!Match, Addresses!MatchOver, Addresses!MissingDetails,
      Addresses!Return, Addresses!Configure, Addresses!FixDhcp, Addresses!RemoveAddresses,
      Addresses!CreateAddress, Addresses!Rest, Addresses!AtAdapter, Addresses!Call,
      Addresses!Merged, Addresses!vars, RebootInv
<1>4. CASE Addresses!NextFamily
  BY <1>4 DEF Addresses!NextFamily, Addresses!Call, Addresses!Merged, RebootInv
<1>5. CASE Addresses!NextAdapter
  BY <1>5 DEF Addresses!NextAdapter, Addresses!Merged, RebootInv
<1>6. CASE Addresses!SetDns
  BY <1>6 DEF Addresses!SetDns, Addresses!Merged, RebootInv
<1>7. CASE Addresses!EnableStatic
  BY <1>7 DEF Addresses!EnableStatic, Addresses!Merged, RebootInv
<1>8. CASE Addresses!SetMore
  BY <1>8 DEF Addresses!SetMore, Addresses!Merged, RebootInv
<1>9. QED
  BY <1>1, <1>2, <1>3, <1>4, <1>5, <1>6, <1>7, <1>8
  DEF Addresses!Next, Addresses!Incomplete, Addresses!Match, Addresses!MatchOver,
      Addresses!MissingDetails, Addresses!Return, Addresses!Configure, Addresses!FixDhcp,
      Addresses!RemoveAddresses, Addresses!CreateAddress, Addresses!Rest, Addresses!locals,
      Addresses!vars

-----------------------------------------------------------------------------
(* Which detail is for which adapter. *)

Numbers == 1 .. Len(adapterDetails)

\* This detail is taken for the adapter with this MAC address, and the last that is.
Given(m, n) ==
  n \in Numbers /\ Addresses!Usable(adapterDetails[n]) /\ Addresses!MacOf(adapterDetails[n]) = m

Last(m, n) == Given(m, n) /\ \A k \in Numbers : Given(m, k) => k <= n

\* The IPv4 address of a detail without one was made from the IPv6 one.
Made(n) == adapterDetails[n].mac = NoMac /\ ~adapterDetails[n].v4

\* The details before number end are matched.
MatchedBefore(end) ==
  /\ \A m \in Macs : macnics[m] # Addresses!NoDetail => Given(m, macnics[m])
  /\ \A m \in Macs, n \in Numbers : n < end /\ Given(m, n) => n <= macnics[m]
  /\ \A n \in Numbers : n < end /\ Addresses!Usable(adapterDetails[n]) /\ Made(n) => n \in completed
  /\ \A n \in completed : Made(n)

InLoop ==
  adapterPc \in {"adapter", "dhcp", "remove", "create", "dns", "enable", "more", "merge", "done"}

MatchedInv ==
  /\ adapterPc = "match" => MatchedBefore(nth)
  /\ InLoop => MatchedBefore(Len(adapterDetails) + 1)

\* The detail has an address of that family for set_static_network_config.
Wants(n, f) ==
  IF f = "v4" THEN adapterDetails[n].v4 \/ adapterDetails[n].mac = NoMac
              ELSE adapterDetails[n].v6 /\ ~legacy

\* None of this changes.
LEMMA NextGiven ==
  ASSUME FixedInv, Addresses!Next
  PROVE  /\ UNCHANGED <<adapters, adapterDetails, legacy>> /\ Numbers' = Numbers
         /\ \A n \in Numbers :
              /\ Made(n)' = Made(n)
              /\ Addresses!Usable(adapterDetails[n])' = Addresses!Usable(adapterDetails[n])
         /\ \A m, n : Given(m, n)' = Given(m, n) /\ Last(m, n)' = Last(m, n)
         /\ \A n, f : Wants(n, f)' = Wants(n, f)
<1>1. UNCHANGED <<adapters, adapterDetails, legacy>>
  BY NextFixed
<1>2. \A d : /\ Addresses!MacOf(d)' = Addresses!MacOf(d)
             /\ Addresses!Usable(d)' = Addresses!Usable(d)
  BY <1>1
  DEF Addresses!MacOf, Addresses!Meant, Addresses!Sorted, Addresses!Position, Addresses!Usable
<1>3. Numbers' = Numbers
  BY <1>1 DEF Numbers
<1>4. \A m, n : Given(m, n)' = Given(m, n)
  BY <1>1, <1>2, <1>3 DEF Given
<1>5. \A m, n : Last(m, n)' = Last(m, n)
  BY <1>3, <1>4 DEF Last
<1>6. \A n \in Numbers :
        /\ Made(n)' = Made(n)
        /\ Addresses!Usable(adapterDetails[n])' = Addresses!Usable(adapterDetails[n])
  BY <1>1, <1>2 DEF Made
<1>7. \A n, f : Wants(n, f)' = Wants(n, f)
  BY <1>1 DEF Wants
<1>8. QED
  BY <1>1, <1>3, <1>4, <1>5, <1>6, <1>7

LEMMA QuietMatched ==
  ASSUME AddressesTypeInv, Addresses!Next, UNCHANGED <<macnics, completed>>
  PROVE  /\ \A end \in Nat : MatchedBefore(end) => MatchedBefore(end)'
         /\ Len(adapterDetails)' = Len(adapterDetails) /\ Len(adapterDetails) \in Nat
<1>1. FixedInv /\ completed \subseteq Numbers
  BY DEF AddressesTypeInv, Kept, Numbers
<1>2. QED
  BY <1>1, NextGiven, Lists DEF MatchedBefore

LEMMA NextMatchedInv ==
  ASSUME AddressesTypeInv, MatchedInv, Addresses!Next
  PROVE  MatchedInv'
<1>0. FixedInv
  BY DEF AddressesTypeInv
<1>1. CASE Addresses!Execute
  <2>1. /\ adapterPc' \in {"failed", "match"} /\ nth' = 1 /\ completed' = {}
        /\ \A m \in Macs : macnics'[m] = Addresses!NoDetail
    BY <1>1 DEF Addresses!Execute
  <2>2. \A n \in Numbers' : ~(n < 1)
    BY DEF Numbers
  <2>3. MatchedBefore(nth)'
    BY <2>1, <2>2 DEF MatchedBefore
  <2>4. QED
    BY <2>1, <2>3 DEF MatchedInv, InLoop
<1>2. CASE Addresses!Match
  <2>1. /\ nth \in Numbers /\ Addresses!Usable(adapterDetails[nth])
        /\ adapterPc = "match" /\ adapterPc' = "match" /\ nth' = nth + 1
    BY <1>0, <1>2, Lists
    DEF Addresses!Match, Addresses!Detailed, AddressesTypeInv, Where, Numbers
  <2> DEFINE a == Addresses!MacOf(adapterDetails[nth])
  <2>2. a \in Macs \cup {NoMac} /\ Given(a, nth)
    BY <1>0, <2>1, MacOfType DEF Given, Numbers
  <2>3. MatchedBefore(nth)
    BY <2>1 DEF MatchedInv
  <2>4. macnics' = [macnics EXCEPT ![a] = nth]
    BY <1>2 DEF Addresses!Match, Addresses!Detailed
  <2>5. macnics \in [Macs \cup {NoMac} -> 0 .. Len(adapterDetails)]
    BY DEF AddressesTypeInv, Kept
  <2>6. completed' = IF Made(nth) THEN completed \cup {nth} ELSE completed
    BY <1>2 DEF Addresses!Match, Addresses!Detailed, Made
  <2>7. \A m \in Macs : macnics'[m] # Addresses!NoDetail => Given(m, macnics'[m])
    BY <2>2, <2>3, <2>4, <2>5 DEF MatchedBefore
  <2>8. \A m \in Macs, n \in Numbers : n < nth + 1 /\ Given(m, n) => n <= macnics'[m]
    <3>1. SUFFICES ASSUME NEW m \in Macs, NEW n \in Numbers, n < nth + 1, Given(m, n)
                   PROVE  n <= macnics'[m]
      OBVIOUS
    <3>2. n \in Nat /\ nth \in Nat
      BY <2>1 DEF Numbers
    <3>3. CASE n = nth
      BY <2>4, <2>5, <3>1, <3>2, <3>3 DEF Given
    <3>4. CASE n < nth
      BY <2>3, <2>4, <2>5, <3>1, <3>2, <3>4 DEF MatchedBefore
    <3>5. QED
      BY <3>1, <3>2, <3>3, <3>4
  <2>9. \A n \in Numbers :
          n < nth + 1 /\ Addresses!Usable(adapterDetails[n]) /\ Made(n) => n \in completed'
    <3>1. SUFFICES ASSUME NEW n \in Numbers, n < nth + 1,
                          Addresses!Usable(adapterDetails[n]), Made(n)
                   PROVE  n \in completed'
      OBVIOUS
    <3>2. n = nth \/ n < nth
      BY <2>1, <3>1 DEF Numbers
    <3>3. QED
      BY <2>3, <2>6, <3>1, <3>2 DEF MatchedBefore
  <2>10. \A n \in completed' : Made(n)
    BY <2>3, <2>6 DEF MatchedBefore
  <2>11. completed' \subseteq Numbers
    BY <2>1, <2>6 DEF AddressesTypeInv, Kept, Numbers
  <2>12. MatchedBefore(nth)'
    BY <1>0, <2>1, <2>7, <2>8, <2>9, <2>10, <2>11, NextGiven DEF MatchedBefore
  <2>13. QED
    BY <2>1, <2>12 DEF MatchedInv, InLoop
<1>3. CASE Addresses!Incomplete
  <2>1. /\ nth \in Numbers /\ ~Addresses!Usable(adapterDetails[nth])
        /\ adapterPc = "match" /\ adapterPc' = "match" /\ nth' = nth + 1
        /\ UNCHANGED <<macnics, completed>>
    BY <1>0, <1>3, Lists
    DEF Addresses!Incomplete, Addresses!Detailed, AddressesTypeInv, Where, Numbers
  <2>2. \A n \in Numbers : n < nth + 1 => n < nth \/ n = nth
    BY <2>1 DEF Numbers
  <2>3. MatchedBefore(nth + 1)
    BY <2>1, <2>2 DEF MatchedInv, MatchedBefore, Given
  <2>4. nth + 1 \in Nat
    BY <2>1 DEF Numbers
  <2>5. MatchedBefore(nth)'
    BY <2>1, <2>3, <2>4, QuietMatched
  <2>6. QED
    BY <2>1, <2>5 DEF MatchedInv, InLoop
<1>4. CASE Addresses!MatchOver
  <2>1. /\ adapterPc = "match" /\ adapterPc' = "adapter" /\ nth > Len(adapterDetails)
        /\ UNCHANGED <<macnics, completed>>
    BY <1>4 DEF Addresses!MatchOver
  <2>2. \A n \in Numbers : n < nth
    BY <1>0, <2>1, Lists DEF Numbers, AddressesTypeInv, Where
  <2>3. MatchedBefore(Len(adapterDetails) + 1)
    BY <2>1, <2>2 DEF MatchedInv, MatchedBefore
  <2>4. MatchedBefore(Len(adapterDetails) + 1)'
    BY <2>1, <2>3, QuietMatched
  <2>5. QED
    BY <2>1, <2>4 DEF MatchedInv
<1>5. CASE adapterPc' \notin {"match"} /\ (InLoop' => InLoop) /\ UNCHANGED <<macnics, completed>>
  BY <1>5, QuietMatched DEF MatchedInv
<1>6. CASE Addresses!Rest
  <2>1. InLoop /\ InLoop' /\ adapterPc' # "match" /\ UNCHANGED <<macnics, completed>>
    BY <1>6 DEF Addresses!Rest, Addresses!vars, Addresses!locals, InLoop
  <2>2. QED
    BY <1>5, <2>1
<1>7. CASE \/ Addresses!Crash \/ Addresses!NoPosition \/ Addresses!Unbound
           \/ Addresses!CallFails
  BY <1>5, <1>7
  DEF Addresses!Crash, Addresses!NoPosition, Addresses!Unbound, Addresses!CallFails,
      Addresses!locals, InLoop
<1>8. CASE \/ Addresses!MissingDetails \/ Addresses!Configure \/ Addresses!NextFamily
           \/ Addresses!NextAdapter \/ Addresses!Return
  BY <1>5, <1>8
  DEF Addresses!MissingDetails, Addresses!Configure, Addresses!NextFamily,
      Addresses!NextAdapter, Addresses!Return, Addresses!AtAdapter, Addresses!Call,
      Addresses!locals, InLoop
<1>9. CASE \/ Addresses!FixDhcp \/ Addresses!RemoveAddresses \/ Addresses!CreateAddress
           \/ Addresses!SetDns \/ Addresses!EnableStatic \/ Addresses!SetMore
  BY <1>5, <1>9
  DEF Addresses!FixDhcp, Addresses!RemoveAddresses, Addresses!CreateAddress,
      Addresses!SetDns, Addresses!EnableStatic, Addresses!SetMore, Addresses!locals, InLoop
<1>10. QED
  BY <1>1, <1>2, <1>3, <1>4, <1>6, <1>7, <1>8, <1>9 DEF Addresses!Next

\* After the loop over the details an adapter has the last detail for it, if any.
LEMMA MatchedIsLast ==
  ASSUME AddressesTypeInv, MatchedInv, InLoop, NEW m \in Macs
  PROVE  /\ macnics[m] # Addresses!NoDetail => Last(m, macnics[m])
         /\ \A n : Last(m, n) => macnics[m] = n
<1>1. MatchedBefore(Len(adapterDetails) + 1)
  BY DEF MatchedInv
<1>2. /\ macnics[m] \in 0 .. Len(adapterDetails) /\ Len(adapterDetails) \in Nat
  BY Lists DEF AddressesTypeInv, Kept
<1>3. \A n \in Numbers : Given(m, n) => n <= macnics[m]
  BY <1>1, <1>2 DEF MatchedBefore, Numbers
<1>4. macnics[m] # Addresses!NoDetail => Given(m, macnics[m])
  BY <1>1 DEF MatchedBefore
<1>5. ASSUME NEW n, Last(m, n) PROVE macnics[m] = n
  BY <1>2, <1>3, <1>4, <1>5 DEF Last, Given, Numbers, Addresses!NoDetail
<1>6. QED
  BY <1>3, <1>4, <1>5 DEF Last

-----------------------------------------------------------------------------
(* What the adapters have. *)

\* The adapter has the address of that family of the detail for it, if there is one.
Settled(i, f) ==
  LET a == adapters[i].mac IN
  \A n \in Numbers : Last(a, n) /\ Wants(n, f) => address[a][f] = n /\ ~dhcp[a][f]

\* The loop over the adapters has still to do that.
Pending(i, f) ==
  /\ adapterPc # "done"
  /\ \/ i > nth
     \/ i = nth /\ adapterPc = "adapter"
     \/ i = nth /\ adapterPc \in {"dhcp", "remove", "create", "enable"}
          /\ (f = family \/ family = "v4")
     \/ i = nth /\ adapterPc \in {"dns", "more", "merge"} /\ family = "v4" /\ f = "v6"

SettledInv ==
  InLoop => \A i \in Addresses!Position, f \in Addresses!Families : Pending(i, f) \/ Settled(i, f)

\* What the call at hand does is wanted.
CallInv ==
  /\ adapterPc \in {"dhcp", "remove", "create"} => Wants(macnics[Addresses!Mac], family)
  /\ adapterPc \in {"remove", "create"} => ~dhcp[Addresses!Mac][family]

\* An adapter without an address is to have one.
NoneInv ==
  \A m \in Macs, f \in Addresses!Families :
    address[m][f] = Addresses!NoAddress =>
      \E i \in Addresses!Position, n \in Numbers :
        adapters[i].mac = m /\ Last(m, n) /\ Wants(n, f)

AddressesInv ==
  AddressesTypeInv /\ RebootInv /\ MatchedInv /\ SettledInv /\ CallInv /\ NoneInv

\* The calls and statements at which nothing is set.
Quiet ==
  \/ Addresses!Execute \/ Addresses!Crash \/ Addresses!Incomplete \/ Addresses!Match
  \/ Addresses!NoPosition \/ Addresses!MatchOver \/ Addresses!MissingDetails
  \/ Addresses!Configure \/ Addresses!NextFamily \/ Addresses!NextAdapter \/ Addresses!Unbound
  \/ Addresses!Return \/ Addresses!CallFails \/ Addresses!SetDns \/ Addresses!SetMore
  \/ Addresses!Rest

LEMMA QuietMachine ==
  ASSUME Quiet
  PROVE  UNCHANGED <<address, dhcp>>
BY DEF Quiet, Addresses!Execute, Addresses!Crash, Addresses!Incomplete,
  Addresses!Match, Addresses!NoPosition, Addresses!MatchOver, Addresses!MissingDetails,
  Addresses!Configure, Addresses!NextFamily, Addresses!NextAdapter, Addresses!Unbound,
  Addresses!Return, Addresses!CallFails, Addresses!SetDns, Addresses!SetMore,
  Addresses!Rest, Addresses!machine, Addresses!vars

LEMMA NextNoneInv ==
  ASSUME AddressesInv, Addresses!Next
  PROVE  NoneInv'
<1>0. FixedInv /\ Addresses!Position' = Addresses!Position /\ UNCHANGED adapters
  BY NextFixed DEF AddressesInv, AddressesTypeInv, Addresses!Position
<1>1. CASE \A m \in Macs, f \in Addresses!Families :
             address'[m][f] = Addresses!NoAddress => address[m][f] = Addresses!NoAddress
  BY <1>0, <1>1, NextGiven DEF AddressesInv, NoneInv, Addresses!NoAddress
<1>2. CASE Quiet
  BY <1>1, <1>2, QuietMachine
<1>3. address \in [Macs -> [Addresses!Families -> Entries]]
  BY DEF AddressesInv, AddressesTypeInv, Machine, Entries
<1>4. CASE Addresses!FixDhcp
  BY <1>1, <1>4 DEF Addresses!FixDhcp
<1>5. CASE Addresses!CreateAddress \/ Addresses!EnableStatic
  <2>1. Addresses!InCall
    BY <1>5 DEF Addresses!CreateAddress, Addresses!EnableStatic, Addresses!InCall
  <2> DEFINE n == macnics[Addresses!Mac]
  <2>2. Addresses!Mac \in Macs /\ family \in Addresses!Families /\ n \in Numbers
    BY <2>1, CallAdapter DEF AddressesInv, AddressesTypeInv, Kept, Numbers
  <2>3. n # Addresses!NoAddress
    BY <2>2 DEF Numbers, Addresses!NoAddress
  <2>4. address' = [address EXCEPT ![Addresses!Mac][family] = n]
    BY <1>5 DEF Addresses!CreateAddress, Addresses!EnableStatic
  <2>5. \A m \in Macs, f \in Addresses!Families : address'[m][f] \in {address[m][f], n}
    BY <1>3, <2>2, <2>4
  <2>6. QED
    BY <1>1, <2>3, <2>5
<1>6. CASE Addresses!RemoveAddresses
  <2>1. Addresses!InCall /\ InLoop /\ adapterPc = "remove"
    BY <1>6 DEF Addresses!RemoveAddresses, Addresses!InCall, InLoop
  <2> DEFINE a == Addresses!Mac
             n == macnics[Addresses!Mac]
  <2>2. /\ nth \in Addresses!Position /\ a \in Macs /\ family \in Addresses!Families
        /\ n \in Numbers /\ adapters[nth].mac = a
    BY <2>1, CallAdapter
    DEF AddressesInv, AddressesTypeInv, Kept, Numbers, Addresses!Position, Addresses!Mac
  <2>3. Last(a, n)
    BY <2>1, <2>2, MatchedIsLast DEF AddressesInv, Numbers, Addresses!NoDetail
  <2>4. Wants(n, family)
    BY <2>1 DEF AddressesInv, CallInv
  <2>5. address' = [address EXCEPT ![a][family] = Addresses!NoAddress]
    BY <1>6 DEF Addresses!RemoveAddresses
  <2>6. \A m \in Macs, f \in Addresses!Families :
          m # a \/ f # family => address'[m][f] = address[m][f]
    BY <1>3, <2>2, <2>5
  <2>7. SUFFICES ASSUME NEW m \in Macs, NEW f \in Addresses!Families,
                        address'[m][f] = Addresses!NoAddress
                 PROVE  \E i \in Addresses!Position, k \in Numbers :
                          adapters[i].mac = m /\ Last(m, k) /\ Wants(k, f)
    BY <1>0, NextGiven DEF NoneInv, Addresses!NoAddress
  <2>8. CASE m = a /\ f = family
    BY <2>2, <2>3, <2>4, <2>8
  <2>9. CASE m # a \/ f # family
    BY <2>6, <2>7, <2>9 DEF AddressesInv, NoneInv
  <2>10. QED
    BY <2>8, <2>9
<1>7. QED
  BY <1>2, <1>4, <1>5, <1>6 DEF Addresses!Next, Quiet

\* In the loop: who the loop is at, and the detail for it.
LEMMA AtAdapterFacts ==
  ASSUME AddressesInv, InLoop, nth \in Addresses!Position
  PROVE  LET a == Addresses!Mac
             n == macnics[Addresses!Mac] IN
         /\ a \in Macs /\ adapters[nth].mac = a
         /\ \A i \in Addresses!Position : adapters[i].mac = a => i = nth
         /\ \A k : Last(a, k) => k = n
         /\ n # Addresses!NoDetail => Last(a, n) /\ n \in Numbers
         /\ Len(adapters) \in Nat /\ \A i \in Addresses!Position : i \in Nat
         /\ legacy \in BOOLEAN
<1>1. FixedInv
  BY DEF AddressesInv, AddressesTypeInv
<1>2. Addresses!Mac \in Macs
  BY <1>1, Lists DEF Addresses!Mac, Addresses!Position
<1>3. \A i \in Addresses!Position : adapters[i].mac = Addresses!Mac => i = nth
  BY <1>1, Lists DEF Addresses!Mac, Addresses!Position
<1>4. /\ \A k : Last(Addresses!Mac, k) => k = macnics[Addresses!Mac]
      /\ macnics[Addresses!Mac] # Addresses!NoDetail =>
           Last(Addresses!Mac, macnics[Addresses!Mac])
  BY <1>2, MatchedIsLast DEF AddressesInv
<1>5. Len(adapters) \in Nat /\ legacy \in BOOLEAN
  BY <1>1, Lists
<1>6. QED
  BY <1>2, <1>3, <1>4, <1>5 DEF Addresses!Mac, Addresses!Position, Last, Given

\* A step that sets nothing settles nothing and unsettles nothing.
LEMMA QuietSettled ==
  ASSUME AddressesInv, Addresses!Next, Quiet
  PROVE  /\ Addresses!Position' = Addresses!Position
         /\ \A i, f : Settled(i, f)' = Settled(i, f)
<1>1. FixedInv
  BY DEF AddressesInv, AddressesTypeInv
<1>2. UNCHANGED <<address, dhcp, adapters>>
  BY <1>1, QuietMachine, NextFixed
<1>3. QED
  BY <1>1, <1>2, NextGiven DEF Settled, Addresses!Position

\* Nothing is wanted that the loop skips.
LEMMA Skipped ==
  ASSUME AddressesInv, InLoop, nth \in Addresses!Position
  PROVE  /\ macnics[Addresses!Mac] = Addresses!NoDetail =>
              \A f : Settled(nth, f)
         /\ \A f : macnics[Addresses!Mac] # Addresses!NoDetail
                   /\ ~Wants(macnics[Addresses!Mac], f) => Settled(nth, f)
<1> DEFINE n == macnics[Addresses!Mac]
<1>1. \A k \in Numbers : k # Addresses!NoDetail
  BY DEF Numbers, Addresses!NoDetail
<1>2. \A k : Last(adapters[nth].mac, k) => k = n
  BY AtAdapterFacts
<1>3. QED
  BY <1>1, <1>2 DEF Settled

\* Whether there is an IPv4 address.
LEMMA V4IsWanted ==
  ASSUME AddressesInv, InLoop, nth \in Addresses!Position,
         macnics[Addresses!Mac] # Addresses!NoDetail
  PROVE  Addresses!HasV4 <=> Wants(macnics[Addresses!Mac], "v4")
<1> DEFINE n == macnics[Addresses!Mac]
<1>1. Last(Addresses!Mac, n) /\ n \in Numbers
  BY AtAdapterFacts
<1>2. MatchedBefore(Len(adapterDetails) + 1)
  BY DEF AddressesInv, MatchedInv
<1>3. n < Len(adapterDetails) + 1
  BY <1>1, Lists DEF Numbers, AddressesInv, AddressesTypeInv
<1>4. Addresses!Usable(adapterDetails[n])
  BY <1>1 DEF Last, Given
<1>5. Made(n) <=> n \in completed
  BY <1>1, <1>2, <1>3, <1>4 DEF MatchedBefore
<1>6. QED
  BY <1>5 DEF Made, Wants, Addresses!HasV4, Addresses!Nic

LEMMA NextCallInv ==
  ASSUME AddressesInv, Addresses!Next
  PROVE  CallInv'
<1>0. FixedInv /\ UNCHANGED <<adapters, adapterDetails, legacy>> /\ legacy \in BOOLEAN
  BY NextFixed, Lists DEF AddressesInv, AddressesTypeInv
<1>1. CASE adapterPc' \notin {"dhcp", "remove", "create"}
  BY <1>1 DEF CallInv
<1>2. CASE Addresses!Configure
  <2>1. /\ InLoop /\ nth \in Addresses!Position
        /\ macnics[Addresses!Mac] # Addresses!NoDetail
    BY <1>2
    DEF Addresses!Configure, Addresses!AtAdapter, InLoop, AddressesInv, AddressesTypeInv, Where,
        Addresses!Position
  <2>2. UNCHANGED <<nth, macnics, Addresses!Mac>> /\ family' = "v4"
    BY <1>0, <1>2 DEF Addresses!Configure, Addresses!Mac
  <2>3. CASE adapterPc' = "dhcp"
    <3>1. Addresses!HasV4
      BY <1>2, <2>3 DEF Addresses!Configure
    <3>2. Wants(macnics[Addresses!Mac], "v4")
      BY <2>1, <3>1, V4IsWanted
    <3>3. Wants(macnics[Addresses!Mac], family)'
      BY <1>0, <2>2, <3>2 DEF Wants
    <3>4. QED
      BY <2>3, <3>3 DEF CallInv
  <2>4. adapterPc' \in {"dhcp", "enable", "merge"}
    BY <1>2 DEF Addresses!Configure, Addresses!Call
  <2>5. QED
    BY <1>1, <2>3, <2>4
<1>3. CASE Addresses!NextFamily
  <2>1. CASE legacy
    BY <1>1, <1>3, <2>1 DEF Addresses!NextFamily, Addresses!Call
  <2>2. CASE ~legacy
    <3>1. /\ UNCHANGED <<nth, macnics, Addresses!Mac>> /\ family' = "v6" /\ adapterPc' = "dhcp"
          /\ adapterDetails[macnics[Addresses!Mac]].v6
      BY <1>0, <1>3, <2>2
      DEF Addresses!NextFamily, Addresses!Mac, Addresses!Call, Addresses!Nic
    <3>2. Wants(macnics[Addresses!Mac], family)'
      BY <1>0, <2>2, <3>1 DEF Wants
    <3>3. QED
      BY <3>1, <3>2 DEF CallInv
  <2>3. QED
    BY <1>0, <2>1, <2>2
<1>4. CASE Addresses!FixDhcp \/ Addresses!RemoveAddresses
  <2>1. Addresses!InCall /\ UNCHANGED <<nth, macnics, family>>
    BY <1>4
    DEF Addresses!FixDhcp, Addresses!RemoveAddresses, Addresses!InCall, Addresses!locals
  <2>2. Addresses!Mac \in Macs /\ family \in Addresses!Families
    BY <2>1, CallAdapter DEF AddressesInv, AddressesTypeInv, Kept
  <2>3. Wants(macnics[Addresses!Mac], family) /\ UNCHANGED Addresses!Mac
    BY <1>0, <1>4, <2>1
    DEF Addresses!FixDhcp, Addresses!RemoveAddresses, AddressesInv, CallInv, Addresses!Mac
  <2>4. Wants(macnics[Addresses!Mac], family)'
    BY <1>0, <2>1, <2>3 DEF Wants
  <2>5. ~dhcp'[Addresses!Mac][family]
    <3>1. CASE Addresses!FixDhcp
      <4>1. dhcp \in [Macs -> [Addresses!Families -> BOOLEAN]]
        BY DEF AddressesInv, AddressesTypeInv, Machine
      <4>2. dhcp' = [dhcp EXCEPT ![Addresses!Mac][family] = FALSE]
        BY <3>1 DEF Addresses!FixDhcp
      <4>3. dhcp'[Addresses!Mac][family] = FALSE
        BY <2>2, <4>1, <4>2
      <4>4. QED
        BY <4>3
    <3>2. CASE Addresses!RemoveAddresses
      BY <3>2 DEF Addresses!RemoveAddresses, AddressesInv, CallInv
    <3>3. QED
      BY <1>4, <3>1, <3>2
  <2>6. QED
    BY <2>1, <2>3, <2>4, <2>5 DEF CallInv
<1>5. CASE Addresses!Rest
  BY <1>1, <1>5 DEF Addresses!Rest, Addresses!vars
<1>6. CASE adapterPc' \in {"off", "failed", "match", "adapter", "dns", "more", "merge", "done"}
  BY <1>1, <1>6
<1>7. QED
  BY <1>2, <1>3, <1>4, <1>5, <1>6
  DEF Addresses!Next, Addresses!Execute, Addresses!Crash, Addresses!Incomplete,
      Addresses!Match, Addresses!NoPosition, Addresses!MatchOver, Addresses!MissingDetails,
      Addresses!AtAdapter, Addresses!NextAdapter, Addresses!Unbound, Addresses!Return,
      Addresses!CallFails, Addresses!CreateAddress, Addresses!SetDns, Addresses!EnableStatic,
      Addresses!SetMore

\* The steps of the loop at which nothing is set.
LEMMA LoopSettledInv ==
  ASSUME AddressesInv, Addresses!Next, Quiet, InLoop,
         \A i \in Addresses!Position, f \in Addresses!Families :
           Pending(i, f) /\ ~Pending(i, f)' => Settled(i, f)
  PROVE  SettledInv'
BY QuietSettled DEF AddressesInv, SettledInv

LEMMA NextSettledInv ==
  ASSUME AddressesInv, Addresses!Next
  PROVE  SettledInv'
<1>0. /\ FixedInv /\ UNCHANGED <<adapters, adapterDetails, legacy>>
      /\ Addresses!Position' = Addresses!Position /\ nth \in Nat
      /\ \A i \in Addresses!Position : i \in Nat /\ i <= Len(adapters)
      /\ Len(adapters) \in Nat
  BY NextFixed, Lists DEF AddressesInv, AddressesTypeInv, Where, Addresses!Position
<1>1. CASE ~InLoop'
  BY <1>1 DEF SettledInv
<1>2. CASE \/ Addresses!Execute \/ Addresses!Crash \/ Addresses!Incomplete \/ Addresses!Match
           \/ Addresses!NoPosition \/ Addresses!Unbound \/ Addresses!CallFails
  BY <1>1, <1>2
  DEF Addresses!Execute, Addresses!Crash, Addresses!Incomplete, Addresses!Match,
      Addresses!NoPosition, Addresses!Unbound, Addresses!CallFails, InLoop
<1>3. CASE Addresses!MatchOver
  <2>1. nth' = 1 /\ adapterPc' = "adapter"
    BY <1>3 DEF Addresses!MatchOver
  <2>2. \A i \in Addresses!Position : \A f : Pending(i, f)'
    BY <1>0, <2>1 DEF Pending, Addresses!Position
  <2>3. QED
    BY <1>0, <2>2 DEF SettledInv
<1>4. CASE Addresses!MissingDetails
  <2>1. /\ InLoop /\ Quiet /\ nth \in Addresses!Position
        /\ adapterPc = "adapter" /\ adapterPc' = "adapter" /\ nth' = nth + 1
        /\ macnics[Addresses!Mac] = Addresses!NoDetail
    BY <1>0, <1>4
    DEF Addresses!MissingDetails, Addresses!AtAdapter, InLoop, Quiet, Addresses!Position,
        AddressesInv, AddressesTypeInv, Where
  <2>2. \A f : Settled(nth, f)
    BY <2>1, Skipped
  <2>3. \A i \in Addresses!Position : \A f : Pending(i, f) /\ ~Pending(i, f)' => i = nth
    BY <1>0, <2>1 DEF Pending
  <2>4. QED
    BY <2>1, <2>2, <2>3, LoopSettledInv
<1>5. CASE Addresses!Configure
  <2>1. /\ InLoop /\ Quiet /\ nth \in Addresses!Position
        /\ adapterPc = "adapter" /\ nth' = nth /\ family' = "v4"
        /\ macnics[Addresses!Mac] # Addresses!NoDetail
        /\ adapterPc' \in {"dhcp", "enable", "merge"}
        /\ adapterPc' = "merge" => ~Addresses!HasV4
    BY <1>0, <1>5
    DEF Addresses!Configure, Addresses!AtAdapter, InLoop, Quiet, Addresses!Position,
        AddressesInv, AddressesTypeInv, Where, Addresses!Call
  <2>2. \A i \in Addresses!Position, f \in Addresses!Families :
          Pending(i, f) /\ ~Pending(i, f)' => i = nth /\ f = "v4" /\ adapterPc' = "merge"
    BY <1>0, <2>1 DEF Pending, Addresses!Families
  <2>3. adapterPc' = "merge" => Settled(nth, "v4")
    BY <2>1, Skipped, V4IsWanted
  <2>4. QED
    BY <2>1, <2>2, <2>3, LoopSettledInv
<1>6. CASE Addresses!NextFamily
  <2>1. /\ InLoop /\ Quiet /\ nth \in Addresses!Position
        /\ macnics[Addresses!Mac] # Addresses!NoDetail
        /\ adapterPc = "merge" /\ nth' = nth /\ family = "v4" /\ family' = "v6"
        /\ adapterPc' = IF legacy THEN "merge" ELSE "dhcp"
    BY <1>0, <1>6
    DEF Addresses!NextFamily, InLoop, Quiet, Addresses!Position, AddressesInv,
        AddressesTypeInv, Where, Addresses!Call
  <2>2. \A i \in Addresses!Position, f \in Addresses!Families :
          Pending(i, f) /\ ~Pending(i, f)' => i = nth /\ f = "v6" /\ legacy
    BY <1>0, <2>1 DEF Pending, Addresses!Families
  <2>3. legacy => Settled(nth, "v6")
    BY <2>1, Skipped DEF Wants
  <2>4. QED
    BY <2>1, <2>2, <2>3, LoopSettledInv
<1>7. CASE Addresses!NextAdapter
  <2>1. /\ InLoop /\ Quiet /\ nth \in Addresses!Position
        /\ macnics[Addresses!Mac] # Addresses!NoDetail
        /\ adapterPc = "merge" /\ nth' = nth + 1 /\ adapterPc' = "adapter"
        /\ family = "v6" \/ ~adapterDetails[macnics[Addresses!Mac]].v6
    BY <1>0, <1>7
    DEF Addresses!NextAdapter, InLoop, Quiet, Addresses!Position, AddressesInv,
        AddressesTypeInv, Where, Addresses!Nic
  <2>2. \A i \in Addresses!Position, f \in Addresses!Families :
          Pending(i, f) /\ ~Pending(i, f)' => i = nth /\ f = "v6" /\ family = "v4"
    BY <1>0, <2>1 DEF Pending, Addresses!Families
  <2>3. family = "v4" => Settled(nth, "v6")
    BY <2>1, Skipped DEF Wants
  <2>4. QED
    BY <2>1, <2>2, <2>3, LoopSettledInv
<1>8. CASE Addresses!Return
  <2>1. InLoop /\ Quiet /\ adapterPc = "adapter" /\ nth > Len(adapters)
    BY <1>8 DEF Addresses!Return, InLoop, Quiet
  <2>2. \A i \in Addresses!Position : \A f : ~Pending(i, f)
    BY <1>0, <2>1 DEF Pending
  <2>3. QED
    BY <2>1, <2>2, LoopSettledInv
<1>9. CASE Addresses!SetDns \/ Addresses!SetMore
  <2>1. /\ InLoop /\ Quiet /\ adapterPc \in {"dns", "more"} /\ adapterPc' = "merge"
        /\ UNCHANGED <<nth, family>>
    BY <1>9 DEF Addresses!SetDns, Addresses!SetMore, InLoop, Quiet
  <2>2. \A i, f : Pending(i, f) <=> Pending(i, f)'
    BY <2>1 DEF Pending
  <2>3. QED
    BY <2>1, <2>2, LoopSettledInv
<1>10. CASE Addresses!Rest
  <2>1. InLoop /\ Quiet /\ UNCHANGED <<adapterPc, nth, family>>
    BY <1>10 DEF Addresses!Rest, Addresses!vars, Addresses!locals, InLoop, Quiet
  <2>2. \A i, f : Pending(i, f) <=> Pending(i, f)'
    BY <2>1 DEF Pending
  <2>3. QED
    BY <2>1, <2>2, LoopSettledInv
<1>11. CASE \/ Addresses!FixDhcp \/ Addresses!RemoveAddresses \/ Addresses!CreateAddress
            \/ Addresses!EnableStatic
  <2> DEFINE a == Addresses!Mac
             n == macnics[Addresses!Mac]
  <2>1. /\ InLoop /\ Addresses!InCall /\ UNCHANGED <<nth, family, macnics>>
        /\ adapterPc \in {"dhcp", "remove", "create", "enable"}
    BY <1>11
    DEF Addresses!FixDhcp, Addresses!RemoveAddresses, Addresses!CreateAddress,
        Addresses!EnableStatic, InLoop, Addresses!InCall, Addresses!locals
  <2>2. /\ nth \in Addresses!Position /\ a \in Macs /\ family \in Addresses!Families
        /\ n \in Numbers
    BY <2>1, CallAdapter
    DEF AddressesInv, AddressesTypeInv, Kept, Numbers, Addresses!Position
  <2>3. /\ \A i \in Addresses!Position : adapters[i].mac = a => i = nth
        /\ \A k : Last(adapters[nth].mac, k) => k = n
        /\ adapters[nth].mac = a /\ \A i \in Addresses!Position : adapters[i].mac \in Macs
    BY <1>0, <2>1, <2>2, AtAdapterFacts, Lists DEF Addresses!Position
  <2>4. /\ address \in [Macs -> [Addresses!Families -> Entries]]
        /\ dhcp \in [Macs -> [Addresses!Families -> BOOLEAN]]
    BY DEF AddressesInv, AddressesTypeInv, Machine, Entries
  <2>5. \A m \in Macs, f \in Addresses!Families :
          m # a \/ f # family => address'[m][f] = address[m][f]
    BY <1>11, <2>2, <2>4
    DEF Addresses!FixDhcp, Addresses!RemoveAddresses, Addresses!CreateAddress,
        Addresses!EnableStatic
  <2>6. \A m \in Macs, f \in Addresses!Families :
          m # a \/ f # family => dhcp'[m][f] = dhcp[m][f]
    BY <1>11, <2>2, <2>4
    DEF Addresses!FixDhcp, Addresses!RemoveAddresses, Addresses!CreateAddress,
        Addresses!EnableStatic
  <2>7. \A i \in Addresses!Position, f \in Addresses!Families :
          (i # nth \/ f # family) /\ Settled(i, f) => Settled(i, f)'
    <3>1. SUFFICES ASSUME NEW i \in Addresses!Position, NEW f \in Addresses!Families,
                          i # nth \/ f # family, Settled(i, f)
                   PROVE  Settled(i, f)'
      OBVIOUS
    <3> DEFINE m == adapters[i].mac
    <3>2. m \in Macs /\ (m # a \/ f # family)
      BY <2>3, <3>1
    <3>3. address'[m][f] = address[m][f]
      BY <2>5, <3>2
    <3>4. dhcp'[m][f] = dhcp[m][f]
      BY <2>6, <3>2
    <3>5. QED
      BY <1>0, <3>1, <3>3, <3>4, NextGiven DEF Settled
  <2>8. CASE Addresses!FixDhcp \/ Addresses!RemoveAddresses
    <3>1. adapterPc \in {"dhcp", "remove"} /\ adapterPc' \in {"remove", "create"}
      BY <2>8 DEF Addresses!FixDhcp, Addresses!RemoveAddresses
    <3>2. Pending(nth, family)' /\ \A i, f : Pending(i, f) <=> Pending(i, f)'
      BY <2>1, <3>1 DEF Pending
    <3>3. QED
      BY <1>0, <2>1, <2>2, <2>7, <3>2 DEF AddressesInv, SettledInv
  <2>9. CASE Addresses!CreateAddress \/ Addresses!EnableStatic
    <3>1. adapterPc \in {"create", "enable"} /\ adapterPc' \in {"dns", "more"}
      BY <2>9 DEF Addresses!CreateAddress, Addresses!EnableStatic
    <3>2. \A i \in Addresses!Position, f \in Addresses!Families :
            Pending(i, f) /\ ~Pending(i, f)' => i = nth /\ f = family
      BY <2>1, <2>2, <3>1 DEF Pending, Addresses!Families
    <3>3. address'[a][family] = n
      BY <2>2, <2>4, <2>9 DEF Addresses!CreateAddress, Addresses!EnableStatic
    <3>4. ~dhcp'[a][family]
      <4>1. CASE Addresses!CreateAddress
        BY <4>1 DEF Addresses!CreateAddress, AddressesInv, CallInv
      <4>2. CASE Addresses!EnableStatic
        <5>1. dhcp' = [dhcp EXCEPT ![a][family] = FALSE]
          BY <4>2 DEF Addresses!EnableStatic
        <5>2. dhcp'[a][family] = FALSE
          BY <2>2, <2>4, <5>1
        <5>3. QED
          BY <5>2
      <4>3. QED
        BY <2>9, <4>1, <4>2
    <3>5. Settled(nth, family)'
      BY <1>0, <2>1, <2>3, <3>3, <3>4, NextGiven DEF Settled
    <3>6. QED
      BY <1>0, <2>1, <2>7, <3>2, <3>5 DEF AddressesInv, SettledInv
  <2>10. QED
    BY <1>11, <2>8, <2>9
<1>12. QED
  BY <1>2, <1>3, <1>4, <1>5, <1>6, <1>7, <1>8, <1>9, <1>10, <1>11 DEF Addresses!Next

-----------------------------------------------------------------------------
(* The version 1 path as a whole. *)

LEMMA InitAddressesInv ==
  ASSUME Addresses!Init
  PROVE  AddressesInv
<1>1. AddressesTypeInv
  BY InitAddressesTypeInv
<1>2. RebootInv /\ MatchedInv /\ SettledInv /\ CallInv
  BY DEF Addresses!Init, RebootInv, MatchedInv, SettledInv, CallInv, InLoop
<1>3. \A m \in Macs, f \in Addresses!Families : address[m][f] # Addresses!NoAddress
  BY DEF Addresses!Init, Addresses!Former, Addresses!NoAddress
<1>4. NoneInv
  BY <1>3 DEF NoneInv
<1>5. QED
  BY <1>1, <1>2, <1>4 DEF AddressesInv

LEMMA NextAddressesInv ==
  ASSUME AddressesInv, Addresses!Next
  PROVE  AddressesInv'
BY NextAddressesTypeInv, NextRebootInv, NextMatchedInv, NextSettledInv, NextCallInv, NextNoneInv
DEF AddressesInv

\* Nothing that the version 1 path keeps has changed.
LEMMA StutterAddressesInv ==
  ASSUME AddressesInv, UNCHANGED adapterVars, failures' \in 0 .. MaxFailures
  PROVE  AddressesInv'
<1>1. AddressesTypeInv'
  BY DEF AddressesInv, AddressesTypeInv, FixedInv, Where, Kept, Flags, Machine, adapterVars,
     Addresses!InCall, Addresses!Mac
<1>2. RebootInv'
  BY DEF AddressesInv, RebootInv, Addresses!Merged, adapterVars
<1>3. /\ Numbers' = Numbers /\ InLoop' = InLoop
      /\ \A m, n : Given(m, n)' = Given(m, n)
  BY DEF adapterVars, Numbers, InLoop, Given, Addresses!Usable, Addresses!MacOf,
     Addresses!Meant, Addresses!Sorted, Addresses!Position
<1>4. \A m, n : Last(m, n)' = Last(m, n)
  BY <1>3 DEF Last
<1>5. \A n, f : Wants(n, f)' = Wants(n, f)
  BY DEF adapterVars, Wants
<1>6. \A i, f : Settled(i, f)' = Settled(i, f) /\ Pending(i, f)' = Pending(i, f)
  BY <1>3, <1>4, <1>5 DEF adapterVars, Settled, Pending
<1>7. MatchedInv'
  BY <1>3
  DEF AddressesInv, MatchedInv, MatchedBefore, Made, adapterVars, Addresses!Usable
<1>8. SettledInv'
  BY <1>3, <1>6 DEF AddressesInv, SettledInv, adapterVars, Addresses!Position
<1>9. CallInv'
  BY <1>5 DEF AddressesInv, CallInv, adapterVars, Addresses!Mac
<1>10. NoneInv'
  BY <1>3, <1>4, <1>5 DEF AddressesInv, NoneInv, adapterVars, Addresses!Position
<1>11. QED
  BY <1>1, <1>2, <1>7, <1>8, <1>9, <1>10 DEF AddressesInv

LEMMA AddressesRebootAsAsked ==
  ASSUME AddressesInv
  PROVE  Addresses!RebootAsAsked
BY DEF AddressesInv, RebootInv, Addresses!RebootAsAsked

\* A detail that names an adapter is taken for it.
LEMMA NamedIsGiven ==
  ASSUME FixedInv, NEW n \in Numbers, NEW i \in Addresses!Position,
         Addresses!For(adapterDetails[n], adapters[i])
  PROVE  Addresses!MacOf(adapterDetails[n]) = adapters[i].mac
<1> DEFINE d == adapterDetails[n]
<1>1. adapters[i].mac \in Macs /\ NoMac \notin Macs
  BY Lists, NetworkConfigAssumption DEF Addresses!Position
<1>2. CASE d.mac # NoMac
  BY <1>2 DEF Addresses!For, Addresses!MacOf
<1>3. CASE d.mac = NoMac
  <2>1. d.name = adapters[i].name
    BY <1>1, <1>3 DEF Addresses!For
  <2>2. \A j \in Addresses!Position : adapters[j].name = d.name <=> j = i
    BY <2>1, Lists DEF Addresses!Position
  <2>3. {j \in Addresses!Position : adapters[j].name = d.name} = {i}
    BY <2>2
  <2>4. Addresses!Meant(d) = {i}
    BY <2>3 DEF Addresses!Meant
  <2>5. (CHOOSE j \in Addresses!Meant(d) : TRUE) = i
    BY <2>4
  <2>6. QED
    BY <1>3, <2>4, <2>5 DEF Addresses!MacOf
<1>4. QED
  BY <1>2, <1>3

LEMMA SoleIsLast ==
  ASSUME FixedInv, NEW n \in Numbers, NEW i \in Addresses!Position,
         Addresses!Usable(adapterDetails[n]), Addresses!For(adapterDetails[n], adapters[i]),
         Addresses!Sole(n, adapters[i])
  PROVE  Last(adapters[i].mac, n)
<1> DEFINE a == adapters[i].mac
<1>1. Given(a, n)
  BY NamedIsGiven DEF Given
<1>2. ASSUME NEW k \in Numbers, k # n, Given(a, k)
      PROVE  FALSE
  <2>1. Addresses!Usable(adapterDetails[k]) /\ Addresses!MacOf(adapterDetails[k]) = a
    BY <1>2 DEF Given
  <2>2. CASE adapterDetails[k].mac \notin {a, NoMac}
    BY <2>1, <2>2 DEF Addresses!MacOf
  <2>3. ASSUME NEW j \in Addresses!Position, adapters[j] # adapters[i],
               Addresses!For(adapterDetails[k], adapters[j])
        PROVE  FALSE
    <3>1. adapters[j].mac = a
      BY <1>2, <2>1, <2>3, NamedIsGiven
    <3>2. j = i
      BY <3>1, Lists DEF Addresses!Position
    <3>3. QED
      BY <2>3, <3>2
  <2>4. QED
    BY <1>2, <2>1, <2>2, <2>3 DEF Addresses!Sole, Numbers
<1>3. n \in Nat
  BY DEF Numbers
<1>4. QED
  BY <1>1, <1>2, <1>3 DEF Last

LEMMA AddressesDone ==
  ASSUME AddressesInv
  PROVE  Addresses!DoneIsConfigured
<1>1. SUFFICES ASSUME adapterPc = "done"
               PROVE  Addresses!DoneIsConfigured
  BY DEF Addresses!DoneIsConfigured
<1>2. FixedInv /\ \A i \in Addresses!Position, f \in Addresses!Families : Settled(i, f)
  BY <1>1 DEF AddressesInv, AddressesTypeInv, SettledInv, InLoop, Pending
<1>3. ASSUME NEW i \in Addresses!Position, NEW n \in Numbers,
             Addresses!Usable(adapterDetails[n]),
             Addresses!For(adapterDetails[n], adapters[i]),
             Addresses!Sole(n, adapters[i]), NEW f \in Addresses!Families, Wants(n, f)
      PROVE  LET a == adapters[i].mac IN address[a][f] = n /\ ~dhcp[a][f]
  BY <1>2, <1>3, SoleIsLast DEF Settled
<1>4. \A m \in Macs, f \in Addresses!Families : address[m][f] # Addresses!NoAddress
  <2>1. SUFFICES ASSUME NEW m \in Macs, NEW f \in Addresses!Families,
                        address[m][f] = Addresses!NoAddress
                 PROVE  FALSE
    OBVIOUS
  <2>2. PICK i \in Addresses!Position, n \in Numbers :
          adapters[i].mac = m /\ Last(m, n) /\ Wants(n, f)
    BY <2>1 DEF AddressesInv, NoneInv
  <2>3. address[m][f] = n
    BY <1>2, <2>2 DEF Settled
  <2>4. QED
    BY <2>1, <2>3 DEF Numbers, Addresses!NoAddress
<1>5. "v4" \in Addresses!Families /\ "v6" \in Addresses!Families
  BY DEF Addresses!Families
<1>6. \A n \in Numbers : /\ adapterDetails[n].v4 => Wants(n, "v4")
                         /\ adapterDetails[n].v6 /\ ~legacy => Wants(n, "v6")
  BY DEF Wants
<1>7. QED
  BY <1>3, <1>4, <1>5, <1>6 DEF Addresses!DoneIsConfigured, Numbers

=============================================================================
