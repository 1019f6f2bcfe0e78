\* Every fault, up to three times in a behaviour: what the three plugins promise and the only ways they break it.
SPECIFICATION Spec
CONSTANTS
  Users = {"admin", "cloud", "Administrator"}
  ConfUser = "admin"
  Administrator = "Administrator"
  NoUser = NoUser
  Configs <- MCConfigs
  Existing <- MCExisting
  NoPassword = NoPassword
  Absent = Absent
  Taken = Taken
  AdminPassword = AdminPassword
  ImagePassword = ImagePassword
  RetryCount = 1
  Faults = {"crash", "reboot", "create", "apply", "logon", "service", "reply", "server", "cert"}
  MaxInterruptions = 3
  MaxResets = 2
INVARIANTS
  TypeOK
  PasswordKnown
  ChosenIsNotLost
PROPERTIES
  PostedIsSet
  MappingOpensSession
