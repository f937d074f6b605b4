-------------------------- MODULE MCConfigStore --------------------------
(* Small instance of ConfigStore: two profiles, two layouts. *)
EXTENDS ConfigStore, TLC

CONSTANTS p1, p2, l1, l2

MCNames == {p1, p2}
MCLayouts == {l1, l2}

=============================================================================
