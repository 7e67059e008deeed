SPECIFICATION TimedSpec
CONSTANTS
  Invoice = {i1, i2}
  MaxUpdates = 2
INVARIANT ReportsAreTrue
INVARIANT StatusMeansNotPaid
INVARIANT TerminalIsKept
PROPERTY EveryCallReturns
