SPECIFICATION SetupSpec
CONSTANT Connects = TRUE
INVARIANT DependentFirst
INVARIANT PairIsLive
INVARIANT NothingLeftBehind
INVARIANT ShutdownTellsTheTruth
PROPERTY StartIsBounded
PROPERTY AnsweredCleanupCompletes
