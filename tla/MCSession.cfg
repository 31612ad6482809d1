SPECIFICATION FairSpec
CONSTANTS
  TimeoutIdle = 2
  UserTimeoutIdle = 1
  TimeoutNoTransfer = TRUE
  TimeoutStalled = TRUE
  DeleteAbortedStores = TRUE
INVARIANT FilesClosed
PROPERTY TransferWatched
PROPERTY UploadKept
 
PROPERTY OwnCommandOnly
\* A session ends.
CHECK_DEADLOCK FALSE
PROPERTY UselessSessionsEnd
