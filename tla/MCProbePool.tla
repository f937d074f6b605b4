----------------------------- MODULE MCProbePool -----------------------------
(* Small instance of ProbePool: three lines of targets, two of them the     *)
(* same, on one or two threads.                                             *)
EXTENDS ProbePool

CONSTANTS host1, host2

MCEntries == 1..3
MCKey     == <<host1, host2, host1>>

=============================================================================
