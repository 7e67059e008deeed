SPECIFICATION FairSpec
CONSTANTS
  first = first
  second = second
  Task = {first, second}
  Jobs <- TaskJobs
  Watched <- TaskWatched
  Outputs <- Transactions
  Genesis = {"ours", "theirs"}
  Ours = "ours"
  Address = {"alice", "bob"}
  Junk = {"junk"}
  NoValue = NoValue
  NoAmount = NoAmount
INVARIANT ErrorsTellTheTruth
INVARIANT SuccessIsComplete
INVARIANT ReleasePaysTheBurn
PROPERTY WaitsEnd
