SPECIFICATION FairSpec
CONSTANTS
  Start = 2
  Confirmations = 6
  MaxFaults = 2
INVARIANT InitializedOnce
INVARIANT CaughtUp
PROPERTY Converges
