\* The answer to the POST of the password is lost.
SPECIFICATION Spec
CONSTANTS
  Users = {"admin", "cloud", "Administrator"}
  ConfUser = "admin"
  Administrator = "Administrator"
  NoUser = NoUser
  Configs <- MCKeyed
  Existing <- MCExisting
  NoPassword = NoPassword
  Absent = Absent
  Taken = Taken
  AdminPassword = AdminPassword
  ImagePassword = ImagePassword
  RetryCount = 1
  Faults = {"reply"}
  MaxInterruptions = 2
  MaxResets = 2
PROPERTIES
  ConflictIsNoFailure
