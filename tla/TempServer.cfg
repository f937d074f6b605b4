SPECIFICATION FairSpec
CONSTANTS
  Runs = {r1, r2}
  Kinds = {"ftp", "sftp", "scp", "tftp"}
  Clients = {c1}
  MaxEvents = 2
  NoRun = NoRun
INVARIANTS StartFindsPortFree StopReachesServer
PROPERTIES StopEnds
CHECK_DEADLOCK FALSE
