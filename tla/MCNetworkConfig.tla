-------------------------- MODULE MCNetworkConfig --------------------------
(* Two adapters: a plain link, a bond with a VLAN, a mode without support, swapped names;
   up to three adapters in version 1, out of order, with details of every kind. *)
EXTENDS NetworkConfig

CONSTANTS mac1, mac2, eth0, eth1, lan0, bond0, vlan0

Link0(name, mac) == [name |-> name, mac |-> mac]

Teamed2(supported) ==
  <<[name |-> bond0, mac |-> mac1, members |-> <<eth0, eth1>>, supported |-> supported]>>

BothLinks == <<Link0(eth0, mac1), Link0(eth1, mac2)>>

MCLinkDetails ==
  {[physical |-> BothLinks, bonds |-> <<>>, vlans |-> <<>>, networks |-> <<eth0, eth1>>],
   [physical |-> BothLinks, bonds |-> Teamed2(TRUE),
    vlans |-> <<[name |-> vlan0, bond |-> bond0]>>, networks |-> <<vlan0>>],
   [physical |-> BothLinks, bonds |-> Teamed2(FALSE), vlans |-> <<>>, networks |-> <<bond0>>]}

Called(first, second) == [a \in {mac1, mac2} |-> IF a = mac1 THEN first ELSE second]

\* As expected, under another name, swapped.
MCFactoryNames == {Called(eth0, eth1), Called(lan0, eth1), Called(eth1, eth0)}

Listed(name, mac) == [name |-> name, mac |-> mac]
Given(name, mac, v4, v6) == [name |-> name, mac |-> mac, v4 |-> v4, v6 |-> v6]
NoIndex == -1

MCAdapterLists ==
  {<<>>, <<Listed(1, mac1)>>, <<Listed(2, mac1), Listed(1, mac2)>>, <<Listed(0, mac1), Listed(1, mac2)>>}

MCAdapterDetails ==
  {<<Given(NoIndex, mac1, TRUE, TRUE), Given(1, mac2, TRUE, FALSE)>>,
   <<Given(1, NoMac, TRUE, TRUE), Given(2, NoMac, FALSE, TRUE)>>,
   <<Given(0, NoMac, TRUE, FALSE), Given(NoIndex, mac2, FALSE, TRUE)>>,
   <<Given(NoIndex, mac1, FALSE, TRUE), Given(NoIndex, mac2, TRUE, FALSE)>>,
   <<Given(0, mac1, TRUE, FALSE), Given(1, mac1, TRUE, FALSE), Given(1, mac2, FALSE, FALSE)>>,
   <<Given(NoIndex, NoMac, TRUE, FALSE)>>}

MCV6Only == {<<Given(0, mac1, FALSE, TRUE)>>}

=============================================================================
