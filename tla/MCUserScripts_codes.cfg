\* Any exit codes over three boots, part handlers that may raise.
SPECIFICATION Spec
CONSTANTS
  heat = heat
  custom = custom
  Types = {heat, custom}
  Contents <- MCContents
  Directories <- MCDirectories
  Codes = {0, 1, 1001, 1002, 1003}
  Faults = {"handler"}
  MaxBoots = 3
INVARIANTS
  TypeOK
  GivenToManager
PROPERTIES
  RebootAsAsked
  RerunAsAsked
  NothingAfterRebootRequest
  
