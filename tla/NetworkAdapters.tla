-------------------------- MODULE NetworkAdapters --------------------------
(***************************************************************************)
(* NetworkConfigPlugin with version 1 details: every detail is matched to   *)
(* an adapter by MAC address, by name or by position, then the adapters are *)
(* given static addresses, call by call. The plugin is executed again at    *)
(* each boot until it has returned once.                                    *)
(***************************************************************************)
EXTENDS Integers, Sequences, FiniteSets

CONSTANTS
  Macs,          \* MAC addresses
  NoMac,         \* None
  AdapterLists,  \* what get_network_adapters may list
  Details,       \* the network details considered
  Legacy,        \* whether Windows may be older than 6.2
  MaxFailures    \* bound on the failures and crashes of a behaviour

\* A name "eth<n>" is n, which sorts as it does; any other name is NoIndex. Every detail has a
\* name. v4 and v6 say whether it has both the address and the mask of that version.
NoIndex == -1
Adapter == [name : Nat, mac : Macs]
Detail  == [name : Nat \cup {NoIndex}, mac : Macs \cup {NoMac}, v4 : BOOLEAN, v6 : BOOLEAN]

Families == {"v4", "v6"}

NoDetail == 0

VARIABLES
  pc,              \* the call or statement the plugin is at
  adapters,        \* the adapters of this machine
  details,         \* its network details
  legacy,          \* its Windows is older than 6.2
  nth,             \* the detail or the adapter being processed
  macnics,         \* macnics: MAC address -> number of the detail
  completed,       \* details whose IPv4 address was made from the IPv6 one
  family,          \* which of the two calls of set_static_network_config
  reboot,          \* reboot: "unbound" until it is assigned
  rebootRequired,  \* reboot_required
  address,         \* MAC address, family -> the detail the address is from
  dhcp,            \* MAC address, family -> the adapter uses DHCP
  asked,           \* a call of this execution asked for a reboot
  failures

machine == <<address, dhcp>>
locals  == <<nth, macnics, completed, family, reboot, rebootRequired>>
fixed   == <<adapters, details, legacy>>
vars == <<pc, fixed, locals, machine, asked, failures>>

\* An address that was there before, and none.
Former == -1
NoAddress == -2

Detailed == details[nth]

Mac == adapters[nth].mac

Nic == details[macnics[Mac]]

Failure ==
  /\ failures < MaxFailures
  /\ failures' = failures + 1

Init ==
  /\ pc = "off"
  /\ adapters \in AdapterLists
  /\ details \in Details
  /\ legacy \in Legacy
  /\ nth = 1
  /\ macnics = [m \in Macs \cup {NoMac} |-> NoDetail]
  /\ completed = {}
  /\ family = "v4"
  /\ reboot = "unbound" /\ rebootRequired = FALSE
  /\ address = [m \in Macs |-> [f \in Families |-> Former]]
  /\ dhcp = [m \in Macs |-> [f \in Families |-> TRUE]]
  /\ asked = FALSE
  /\ failures = 0

Execute ==
  /\ pc \in {"off", "failed"}
  /\ nth' = 1
  /\ macnics' = [m \in Macs \cup {NoMac} |-> NoDetail]
  /\ completed' = {}
  /\ reboot' = "unbound" /\ rebootRequired' = FALSE
  /\ asked' = FALSE
  /\ pc' = IF adapters = <<>> THEN "failed" ELSE "match"
  /\ UNCHANGED <<fixed, family, machine, failures>>

Crash ==
  /\ pc \notin {"off", "failed", "done"}
  /\ Failure
  /\ pc' = "off"
  /\ UNCHANGED <<fixed, locals, machine, asked>>

-----------------------------------------------------------------------------
(* _preprocess_nics, and the dictionary of details. *)

Usable(d) == d.v4 \/ d.v6

Incomplete ==
  /\ pc = "match" /\ nth <= Len(details)
  /\ ~Usable(Detailed)
  /\ nth' = nth + 1
  /\ UNCHANGED <<pc, fixed, macnics, completed, family, reboot, rebootRequired, machine, asked,
                 failures>>

Position == 1 .. Len(adapters)

\* The adapter at that position, from 0, when they are sorted by name.
Sorted(idx) == {i \in Position : Cardinality({j \in Position : adapters[j].name < adapters[i].name}) = idx}

\* Mutant: adapters are not searched by name.
Mut_Meant(d) == Sorted(d.name)

\* The adapter that a detail without a MAC address is meant for: by name, else by position.
Meant(d) ==
  LET named == {i \in Position : adapters[i].name = d.name} IN
  IF named # {} THEN named ELSE Sorted(d.name)

MacOf(d) ==
  CASE d.mac # NoMac -> d.mac
    [] d.mac = NoMac /\ Meant(d) = {} -> NoMac
    [] OTHER -> adapters[CHOOSE i \in Meant(d) : TRUE].mac

Indexed(d) == d.mac = NoMac => d.name # NoIndex

\* A detail takes the place of an earlier one with its MAC address. One that came without a
\* MAC address has its IPv4 address completed from the IPv6 one.
Match ==
  /\ pc = "match" /\ nth <= Len(details)
  /\ Usable(Detailed) /\ Indexed(Detailed)
  /\ macnics' = [macnics EXCEPT ![MacOf(Detailed)] = nth]
  /\ completed' = IF Detailed.mac = NoMac /\ ~Detailed.v4 THEN completed \cup {nth} ELSE completed
  /\ nth' = nth + 1
  /\ UNCHANGED <<pc, fixed, family, reboot, rebootRequired, machine, asked, failures>>

\* _name2idx raises, even when an adapter has that name.
NoPosition ==
  /\ pc = "match" /\ nth <= Len(details)
  /\ Usable(Detailed) /\ ~Indexed(Detailed)
  /\ pc' = "failed"
  /\ UNCHANGED <<fixed, locals, machine, asked, failures>>

\* Mutant: the loop over the adapters starts where the other one ended.
Mut_MatchOver ==
  /\ pc = "match" /\ nth > Len(details)
  /\ pc' = "adapter"
  /\ UNCHANGED <<fixed, locals, machine, asked, failures>>

MatchOver ==
  /\ pc = "match" /\ nth > Len(details)
  /\ nth' = 1
  /\ pc' = "adapter"
  /\ UNCHANGED <<fixed, macnics, completed, family, reboot, rebootRequired, machine, asked,
                 failures>>

-----------------------------------------------------------------------------
(* The loop over the adapters. *)

AtAdapter == pc = "adapter" /\ nth <= Len(adapters)

MissingDetails ==
  /\ AtAdapter /\ macnics[Mac] = NoDetail
  /\ nth' = nth + 1
  /\ UNCHANGED <<pc, fixed, macnics, completed, family, reboot, rebootRequired, machine, asked,
                 failures>>

HasV4 == Nic.v4 \/ macnics[Mac] \in completed

\* set_static_network_config: what it does first depends on the version of Windows. The old
\* one knows no IPv6 and returns None.
Call(f) == IF legacy THEN IF f = "v4" THEN "enable" ELSE "merge" ELSE "dhcp"

Configure ==
  /\ AtAdapter /\ macnics[Mac] # NoDetail
  /\ family' = "v4"
  /\ pc' = IF HasV4 THEN Call("v4") ELSE "merge"
  /\ UNCHANGED <<fixed, nth, macnics, completed, reboot, rebootRequired, machine, asked, failures>>

\* Mutant: the last adapter decides about the reboot.
Mut_Merged == reboot = "yes"

\* reboot or reboot_required
Merged == reboot = "yes" \/ rebootRequired

NextFamily ==
  /\ pc = "merge" /\ reboot # "unbound"
  /\ family = "v4" /\ Nic.v6
  /\ rebootRequired' = Merged
  /\ family' = "v6"
  /\ pc' = Call("v6")
  /\ reboot' = IF legacy THEN "no" ELSE reboot
  /\ UNCHANGED <<fixed, nth, macnics, completed, machine, asked, failures>>

NextAdapter ==
  /\ pc = "merge" /\ reboot # "unbound"
  /\ family = "v6" \/ ~Nic.v6
  /\ rebootRequired' = Merged
  /\ nth' = nth + 1
  /\ pc' = "adapter"
  /\ UNCHANGED <<fixed, macnics, completed, family, reboot, machine, asked, failures>>

\* The first call was for IPv6: UnboundLocalError.
Unbound ==
  /\ pc = "merge" /\ reboot = "unbound"
  /\ pc' = "failed"
  /\ UNCHANGED <<fixed, locals, machine, asked, failures>>

Return ==
  /\ pc = "adapter" /\ nth > Len(adapters)
  /\ pc' = "done"
  /\ UNCHANGED <<fixed, locals, machine, asked, failures>>

-----------------------------------------------------------------------------
(* set_static_network_config. *)

InCall == pc \in {"dhcp", "remove", "create", "dns", "enable", "more"}

CallFails ==
  /\ InCall
  /\ Failure
  /\ pc' = "failed"
  /\ UNCHANGED <<fixed, locals, machine, asked>>

FixDhcp ==
  /\ pc = "dhcp"
  /\ dhcp' = [dhcp EXCEPT ![Mac][family] = FALSE]
  /\ pc' = "remove"
  /\ UNCHANGED <<fixed, locals, address, asked, failures>>

RemoveAddresses ==
  /\ pc = "remove"
  /\ address' = [address EXCEPT ![Mac][family] = NoAddress]
  /\ pc' = "create"
  /\ UNCHANGED <<fixed, locals, dhcp, asked, failures>>

CreateAddress ==
  /\ pc = "create"
  /\ address' = [address EXCEPT ![Mac][family] = macnics[Mac]]
  /\ pc' = "dns"
  /\ UNCHANGED <<fixed, locals, dhcp, asked, failures>>

\* It returns None: nothing asks for a reboot.
SetDns ==
  /\ pc = "dns"
  /\ reboot' = "no"
  /\ pc' = "merge"
  /\ UNCHANGED <<fixed, nth, macnics, completed, family, rebootRequired, machine, asked, failures>>

\* EnableStatic on an old Windows.
EnableStatic ==
  /\ pc = "enable"
  /\ address' = [address EXCEPT ![Mac][family] = macnics[Mac]]
  /\ dhcp' = [dhcp EXCEPT ![Mac][family] = FALSE]
  /\ \E r \in {"yes", "no"} : reboot' = r /\ asked' = (asked \/ r = "yes")
  /\ pc' = "more"
  /\ UNCHANGED <<fixed, nth, macnics, completed, family, rebootRequired, failures>>

\* SetGateways and SetDNSServerSearchOrder.
SetMore ==
  /\ pc = "more"
  /\ \E r \in {"yes", "no"} :
       /\ reboot' = IF r = "yes" THEN "yes" ELSE reboot
       /\ asked' = (asked \/ r = "yes")
  /\ pc' = "merge"
  /\ UNCHANGED <<fixed, nth, macnics, completed, family, rebootRequired, machine, failures>>

Rest ==
  /\ pc = "done"
  /\ UNCHANGED vars

-----------------------------------------------------------------------------

Next ==
  \/ Execute
  \/ Crash
  \/ Incomplete
  \/ Match
  \/ NoPosition
  \/ MatchOver
  \/ MissingDetails
  \/ Configure
  \/ NextFamily
  \/ NextAdapter
  \/ Unbound
  \/ Return
  \/ CallFails
  \/ FixDhcp
  \/ RemoveAddresses
  \/ CreateAddress
  \/ SetDns
  \/ EnableStatic
  \/ SetMore
  \/ Rest

Spec == Init /\ [][Next]_vars

-----------------------------------------------------------------------------
(* Properties. *)

\* Type invariant of the plugin and the adapters.
TypeOK ==
  /\ pc \in {"off", "failed", "match", "adapter", "dhcp", "remove", "create", "dns", "enable",
             "more", "merge", "done"}
  /\ adapters \in AdapterLists /\ details \in Details /\ legacy \in Legacy
  /\ nth \in Nat \ {0}
  /\ pc = "match" => nth <= Len(details) + 1
  /\ pc = "adapter" => nth <= Len(adapters) + 1
  /\ InCall \/ pc = "merge" => nth <= Len(adapters) /\ macnics[Mac] # NoDetail
  /\ macnics \in [Macs \cup {NoMac} -> 0 .. Len(details)]
  /\ completed \subseteq 1 .. Len(details)
  /\ family \in Families
  /\ reboot \in {"unbound", "yes", "no"}
  /\ rebootRequired \in BOOLEAN
  /\ address \in [Macs -> [Families -> {Former, NoAddress} \cup 1 .. Len(details)]]
  /\ dhcp \in [Macs -> [Families -> BOOLEAN]]
  /\ asked \in BOOLEAN
  /\ failures \in 0 .. MaxFailures

\* The detail names this adapter, by its MAC address or else by its name.
For(d, a) == d.mac = a.mac \/ (d.mac = NoMac /\ d.name = a.name)

\* No other detail can come to be taken for the adapter.
Sole(n, a) ==
  \A k \in 1 .. Len(details) \ {n} :
    \/ ~Usable(details[k])
    \/ details[k].mac \notin {a.mac, NoMac}
    \/ details[k].mac = NoMac /\ \E i \in Position : adapters[i] # a /\ For(details[k], adapters[i])

\* When the plugin is done an adapter that one detail names has exactly the addresses of that
\* detail, whatever was cut off on the way; and no adapter was left without an address it had.
DoneIsConfigured ==
  pc = "done" =>
    /\ \A i \in Position, n \in 1 .. Len(details) :
         Usable(details[n]) /\ For(details[n], adapters[i]) /\ Sole(n, adapters[i]) =>
           LET a == adapters[i].mac IN
           /\ details[n].v4 => address[a]["v4"] = n /\ ~dhcp[a]["v4"]
           /\ details[n].v6 /\ ~legacy => address[a]["v6"] = n /\ ~dhcp[a]["v6"]
    /\ \A m \in Macs, f \in Families : address[m][f] # NoAddress

\* The plugin asks for a reboot exactly when one of the calls of that execution did, for
\* whichever adapter.
RebootAsAsked == pc = "done" => (rebootRequired <=> asked)

\* networkconfig.py says "In v6 only case, nic.address and nic.netmask could be unset": the
\* plugin gets past such a detail.
V6OnlyIsNoFailure == [][pc = "merge" => pc' # "failed"]_vars

=============================================================================
