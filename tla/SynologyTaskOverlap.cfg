SPECIFICATION FairSpec
CONSTANTS
  a1 = a1
  a2 = a2
  Nil = Nil
  Archive = {a1, a2}
  Dsm = "V4_3"
  Kinds = {"extract","compress"}
  Selections <- MCSingle
  Failures = {}
  Overlapping = "YES"
  MaxRequests = 2
INVARIANTS
  SuccessMeansDone
PROPERTIES
  HudSpec
  HudGoesAway
CHECK_DEADLOCK FALSE
