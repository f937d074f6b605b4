----------------------------- MODULE MCUpdateFlow -----------------------------
(***************************************************************************)
(* The program is a release candidate.  GitHub may list the same           *)
(* candidate, the stable version with three numbers and with two, the      *)
(* latter without checksum, the candidate of a later version, and a draft. *)
(***************************************************************************)
EXTENDS UpdateFlow

CONSTANTS j1, j2

MCSlots == {j1, j2}

rc(base, n)  == [base |-> base, stable |-> FALSE, pre |-> <<<<1, 2>>, <<0, n>>>>]
final(base)  == [base |-> base, stable |-> TRUE, pre |-> <<>>]
MCCurrent    == rc(<<1, 2, 0>>, 1)

Release(version, draft, asset) ==
  [version |-> version, draft |-> draft, prerelease |-> ~version.stable, asset |-> asset]

MCReleases == {
  Release(MCCurrent, FALSE, "digest"),
  Release(final(<<1, 2, 0>>), FALSE, "digest"),
  Release(final(<<1, 2>>), FALSE, "bare"),
  Release(rc(<<1, 3, 0>>, 1), FALSE, "sums"),
  Release(final(<<1, 4, 0>>), TRUE, "digest") }

=============================================================================
