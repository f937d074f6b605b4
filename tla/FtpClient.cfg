SPECIFICATION FairSpec
CONSTANTS
  j1 = j1
  j2 = j2
  ftp = ftp
  sftp = sftp
  NoOne = NoOne
  Slots <- MCSlots
  Sessions <- MCSessions
  Sftp <- MCSftp
  Files = {f1}
INVARIANTS SessionsMatchPanel CancelReachesTransfer CopyKeepsConnection NoPartialDownload
PROPERTIES BusyClears
CHECK_DEADLOCK FALSE
