SPECIFICATION FairSpec
CONSTANTS
  f1 = f1
  f2 = f2
  f3 = f3
  Nil = Nil
  File = {f1, f2, f3}
  Servers <- MCServers
  Selections <- MCSelections
  Batches <- MCBatches
  MaxRequests = 2
INVARIANTS
  TypeOK
  SuccessMeansDone
  ReportsOnce
  AtMostOneAfterCancel
  NoException
  DroppedIsCancellable
PROPERTIES
  HudSpec
  HudGoesAway
CHECK_DEADLOCK FALSE
