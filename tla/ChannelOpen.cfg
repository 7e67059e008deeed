SPECIFICATION Spec
CONSTANTS
  Fund = fund
  Strangers = {old, new}
  Old = {old}
  NoTx = NoTx
  MaxUpdates = 2
INVARIANT ReadyIsConfirmed
INVARIANT AlarmNeedsStranger
INVARIANT StatusMeansNoChannel
PROPERTY PendingPointIsKept
