SPECIFICATION Spec
CONSTANTS
  Depth = 8
  Retries = 20
  MaxLag = 19
  Margin = 3
  MaxOthers = 2
INVARIANT NeverResubmitted
INVARIANT BlocksBounded
INVARIANT ExhaustionNeedsLag
