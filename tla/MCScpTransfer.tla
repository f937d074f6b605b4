---------------------------- MODULE MCScpTransfer ----------------------------
(***************************************************************************)
(* Two transfers in a row: first of a file of two chunks, or of one on the *)
(* server, and of an empty file, which the server does not have; then of   *)
(* the first file alone.                                                   *)
(***************************************************************************)
EXTENDS ScpTransfer

MCConns   == 1..2
MCFiles   == {"big", "empty"}
MCLists   == [c \in MCConns |-> {IF c = 1 THEN <<"big", "empty">> ELSE <<"big">>}]
MCLocal0  == [f \in MCFiles |-> IF f = "big" THEN <<11, 12>> ELSE <<>>]
MCEdited  == [f \in MCFiles |-> IF f = "big" THEN <<21>> ELSE <<>>]
MCRemote0 == [f \in MCFiles |-> IF f = "big" THEN <<31>> ELSE <<>>]
MCShared  == {"big"}

=============================================================================
