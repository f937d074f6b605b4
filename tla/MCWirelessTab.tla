---------------------------- MODULE MCWirelessTab ----------------------------
(***************************************************************************)
(* Two access points, so that a scan can look one up before and the other  *)
(* after a download stored its list, and one list, since a row depends on  *)
(* the list of its own access point only.                                  *)
(***************************************************************************)
EXTENDS WirelessTab

CONSTANTS near, far, MAL

HomeOf == [a \in {near, far} |-> MAL]

=============================================================================
