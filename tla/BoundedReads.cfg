SPECIFICATION ReadSpec
CONSTANTS
  Limit = 3
  MaxChunks = 3
  Block = 2
  Overhead = 8
  MaxSource = 5
INVARIANT BoundsAreExact
INVARIANT FileIsAVersion
