SPECIFICATION FairSpec
CONSTANTS
  ftpServer = ftpServer
  scpServer = scpServer
  updateCheck = updateCheck
  Jobs <- MCJobs
  Servers <- MCServers
  Reporting <- MCReporting
  BoxOn <- MCBoxOn
  MaxThreads = 2
  MaxProgress = 1
INVARIANTS Retained
PROPERTIES ImplementsContract NoJobWaitsForever EveryJobCompletes CloseEndsProcess
CHECK_DEADLOCK FALSE
