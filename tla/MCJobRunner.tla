----------------------------- MODULE MCJobRunner -----------------------------
(***************************************************************************)
(* Three jobs on a pool of two threads: two temporary servers, which can   *)
(* hold the whole pool, and an update check, which reports progress and    *)
(* whose result opens a prompt while every error opens the default box.    *)
(***************************************************************************)
EXTENDS JobRunner

CONSTANTS ftpServer, scpServer, updateCheck

MCJobs      == {ftpServer, scpServer, updateCheck}
MCServers   == {ftpServer, scpServer}
MCReporting == {updateCheck}
MCBoxOn     == [j \in MCJobs |-> IF j \in MCServers THEN {"error"} ELSE {"result", "error"}]

=============================================================================
