\* Plugins whose settings settle; the service may also be killed and restarted alone.
SPECIFICATION FairSpec
CONSTANTS
  ntp = ntp
  mtu = mtu
  hostname = hostname
  userdata = userdata
  licensing = licensing
  i1 = i1
  i2 = i2
  Plugins <- MCPlugins
  StagePlugins <- MCStagePlugins
  Supported <- MCSupported
  Outcomes <- MCSettling
  Instances = {i1, i2}
  NoInstance = NoInstance
  Services = {drive, http}
  NoService = NoService
  Identified = {drive, http}
  AllowReboot = TRUE
  ReportStarted = TRUE
  ReportCompleted = TRUE
  StopOnExit = TRUE
  Faults = {"powerloss", "kill", "clone"}
  MaxInterruptions = 2
PROPERTIES
  Converges
