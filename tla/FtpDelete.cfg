SPECIFICATION FairSpec
CONSTANTS
  f1 = f1
  f2 = f2
  f3 = f3
  Nil = Nil
  File = {f1, f2, f3}
  Unencodable <- MCUnencodable
  Protocol = "FTP"
  Selections <- MCSelections
  MaxRequests = 2
INVARIANTS
  TypeOK
  HudHasWork
  ChainInv
  SuccessMeansGone
  PrefixDeleted
  AtMostOneAfterCancel
  NoNilFile
PROPERTIES
  HudSpec
  ProgressGrows
  HudGoesAway
CHECK_DEADLOCK FALSE
