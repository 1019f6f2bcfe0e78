SPECIFICATION FairSpec
CONSTANTS
  given = given
  client = client
  bare = bare
  Self = Self
  NoCert = NoCert
  NoListener = NoListener
  Machines <- MCMachines
  MaxFailures = 2
  MaxCrashes = 1
CHECK_DEADLOCK FALSE
INVARIANTS TypeOK LogonIsFresh DoneIsSet RebootNotMissed RemoteAccessAsConfigured LiftedOnlyInside
PROPERTY Settles
