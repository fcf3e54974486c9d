SPECIFICATION Spec
CONSTANTS
  a1 = a1
  a2 = a2
  Nil = Nil
  Archive = {a1, a2}
  Dsm = "V6_0"
  Kinds = {"extract", "compress", "copy"}
  Selections <- MCSelections
  Failures = {"refused", "denied", "interrupted", "lost"}
  Overlapping = "NO"
  MaxRequests = 2
INVARIANTS
  TypeOK
  HudHasWork
  SingleLoop
  SuccessMeansDone
  NoEmptyRemoval
PROPERTIES
  HudSpec
  NoArchiveAfterStop
CHECK_DEADLOCK FALSE
