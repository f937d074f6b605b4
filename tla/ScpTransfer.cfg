SPECIFICATION FairSpec
CONSTANTS
  Conns <- MCConns
  Files <- MCFiles
  Lists <- MCLists
  Local0 <- MCLocal0
  Edited <- MCEdited
  Remote0 <- MCRemote0
  Shared <- MCShared
INVARIANTS DownloadsComplete UploadsComplete CancelLeavesNoPart
PROPERTIES NoEndHangs
CHECK_DEADLOCK FALSE
