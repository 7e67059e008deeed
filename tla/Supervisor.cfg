SPECIFICATION SetupSpec
CONSTANTS
  net = net
  node = node
  electrs = electrs
  alice = alice
  bob = bob
  Resource = {net, node, electrs, alice, bob}
  Networks = {net}
  Jobs <- BothJobs
INVARIANT NothingLeaks
INVARIANT ShutdownTellsTheTruth
INVARIANT NoOrphanedStack
INVARIANT OrderlyTeardown
PROPERTY ImplementsOwnership
PROPERTY AnsweredCallsComplete
PROPERTY FixtureCallerIsFree
