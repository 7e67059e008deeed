SPECIFICATION FairSpec
CONSTANTS
  MaxParams = 2
  Blocks = 1
  LaterBlocks = 1
  Patient = {2}
  Signatures <- AllSignatures
INVARIANT PassedMeansBodyRan
INVARIANT BodyFindsItsFunds
INVARIANT SurvivorsFailedToStart
INVARIANT OverlapNeedsAbandonedCall
PROPERTY StartsMoveOn
