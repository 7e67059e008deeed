SPECIFICATION Spec
CONSTANTS
  Fund = fund
  Strangers = {new}
  Old = {}
  NoTx = NoTx
  MaxUpdates = 2
INVARIANT InvalidNamesThePoint
