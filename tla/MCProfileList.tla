---------------------------- MODULE MCProfileList ----------------------------
(* Small instance of ProfileList: two profiles, one of them selected in the last session. *)
EXTENDS ProfileList, TLC

CONSTANTS p1, p2

MCNames == {p1, p2}

=============================================================================
