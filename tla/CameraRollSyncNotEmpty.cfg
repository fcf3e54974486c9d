SPECIFICATION Spec
CONSTANTS
  a1 = a1
  a2 = a2
  a3 = a3
  Asset = {a1, a2}
  MaxTaps = 4
INVARIANT
  SuccessHasItem
CHECK_DEADLOCK FALSE
