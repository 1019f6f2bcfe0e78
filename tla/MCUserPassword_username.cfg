\* A reboot between CreateUser and SetUserPassword; the metadata names the user.
SPECIFICATION Spec
CONSTANTS
  Users = {"admin", "cloud", "Administrator"}
  ConfUser = "admin"
  Administrator = "Administrator"
  NoUser = NoUser
  Configs <- MCNamed
  Existing <- MCExisting
  NoPassword = NoPassword
  Absent = Absent
  Taken = Taken
  AdminPassword = AdminPassword
  ImagePassword = ImagePassword
  RetryCount = 1
  Faults = {"reboot"}
  MaxInterruptions = 2
  MaxResets = 2
PROPERTIES
  ActsOnMetadataUser
