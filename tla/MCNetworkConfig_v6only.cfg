SPECIFICATION Spec
CONSTANTS
  mac1 = mac1
  mac2 = mac2
  eth0 = eth0
  eth1 = eth1
  lan0 = lan0
  bond0 = bond0
  vlan0 = vlan0
  LinkAdapters = {mac1, mac2}
  Names = {eth0, eth1, lan0, bond0, vlan0}
  LinkDetails <- MCLinkDetails
  FactoryNames <- MCFactoryNames
  RenameRetries = 1
  CallRetries = 1
  TeamRetries = 1
  NicRetries = 1
  Macs = {mac1, mac2}
  NoMac = NoMac
  AdapterLists <- MCAdapterLists
  AdapterDetails <- MCV6Only
  Legacy = {TRUE, FALSE}
  MaxFailures = 4
PROPERTY V6OnlyIsNoFailure
