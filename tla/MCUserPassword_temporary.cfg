\* A call of CreateUser raises once; the metadata service holds an SSH key.
SPECIFICATION Spec
CONSTANTS
  Users = {"admin", "cloud", "Administrator"}
  ConfUser = "admin"
  Administrator = "Administrator"
  NoUser = NoUser
  Configs <- MCKeyed
  Existing <- MCExisting
  NoPassword = NoPassword
  Absent = Absent
  Taken = Taken
  AdminPassword = AdminPassword
  ImagePassword = ImagePassword
  RetryCount = 1
  Faults = {"create"}
  MaxInterruptions = 2
  MaxResets = 2
INVARIANTS
  TemporaryIsReplaced
