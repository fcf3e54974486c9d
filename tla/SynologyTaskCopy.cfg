SPECIFICATION Spec
CONSTANTS
  a1 = a1
  a2 = a2
  Nil = Nil
  Archive = {a1, a2}
  Dsm = "V6_0"
  Kinds = {"copy"}
  Selections <- MCSingle
  Failures = {"refused", "denied", "interrupted", "lost"}
  Overlapping = "YES"
  MaxRequests = 2
INVARIANTS
  CopyIsCancelled
CHECK_DEADLOCK FALSE
