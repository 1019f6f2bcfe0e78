\* A cloud-config with one runcmd directive.
SPECIFICATION Spec
CONSTANTS
  heat = heat
  custom = custom
  Types = {heat, custom}
  Contents <- MCRunCmd
  Directories <- MCNoScripts
  Codes = {0, 1, 1001, 1002, 1003}
  Faults = {}
  MaxBoots = 3
PROPERTIES
  NotRunAgain
