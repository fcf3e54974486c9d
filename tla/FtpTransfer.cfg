SPECIFICATION FairSpec
CONSTANTS
  Protocol = "FTP"
  MaxRequests = 2
  MaxRefreshes = 1
INVARIANTS
  TypeOK
  HudHasWork
  OneLiveRequest
  PresentedIsWhole
  LeftoverWasReported
PROPERTIES
  HudSpec
  HudGoesAway
CHECK_DEADLOCK FALSE
