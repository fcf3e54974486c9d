SPECIFICATION Spec
CONSTANTS
  Protocol = "FTP"
  MaxRequests = 2
  MaxRefreshes = 1
INVARIANT
  CancelledUploadNotDone
CHECK_DEADLOCK FALSE
