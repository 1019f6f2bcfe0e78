\* The machine restarts with the service: power losses, failed writes, refused reboots,
\* failed reports and redeployments. Reboots are allowed.
SPECIFICATION Spec
CONSTANTS
  ntp = ntp
  mtu = mtu
  hostname = hostname
  userdata = userdata
  licensing = licensing
  i1 = i1
  i2 = i2
  Plugins <- MCPlugins
  StagePlugins <- MCStagePlugins
  Supported <- MCSupported
  Outcomes <- MCAnyOutcome
  Instances = {i1, i2}
  NoInstance = NoInstance
  Services = {drive, http}
  NoService = NoService
  Identified = {drive}
  AllowReboot = TRUE
  ReportStarted = TRUE
  ReportCompleted = TRUE
  StopOnExit = TRUE
  Faults = {"powerloss", "registry", "report", "discovery", "reboot", "clone"}
  MaxInterruptions = 2
INVARIANTS
  TypeOK
  StatusFromOwnRun
  CompletedIsTrue
  NotDoneWhileRebootPending
PROPERTIES
  RebootBeforeNextPlugin
  DoneIsFinal
  ImplementsLedger
