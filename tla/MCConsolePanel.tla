--------------------------- MODULE MCConsolePanel ---------------------------
(***************************************************************************)
(* All panels and all three loops start from one initial predicate.  Four  *)
(* lines are two probes and two lines of text around or between them, so   *)
(* that lines can be in the pipe, in the queue, in the output and on their *)
(* way to the panel at the same time.                                      *)
(***************************************************************************)
EXTENDS ConsolePanel

=============================================================================
