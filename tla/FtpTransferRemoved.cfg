SPECIFICATION FairSpec
CONSTANTS
  Protocol = "FTP"
  MaxRequests = 2
  MaxRefreshes = 1
PROPERTY
  OnlyPartialDeleted
CHECK_DEADLOCK FALSE
