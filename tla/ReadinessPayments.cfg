SPECIFICATION ProbeSpec
CONSTANTS
  Forward = fwd
  Invoice = {fwd, r1, r2}
  MaxUpdates = 1
INVARIANT NeverPaidTwice
INVARIANT ReadyMeansPaidOnce
