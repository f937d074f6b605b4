----------------------------- MODULE VersionOrder -----------------------------
(***************************************************************************)
(* The two orders on release versions of UpdateService                     *)
(* (app/services/update_service.py): _compare_versions, which decides      *)
(* whether a release is newer than the running program, and                *)
(* _version_sort_key, by which the newest release is picked.               *)
(***************************************************************************)
EXTENDS Naturals, Sequences

\* A dotted token of a prerelease: <<0, n>> for a number, <<1, w>> for a word,
\* where w is the place of the word in alphabetical order
Tokens == {0, 1} \X Nat

\* What _parse_version returns; without a prerelease part the version is stable
Versions == [base : Seq(Nat), stable : BOOLEAN, pre : Seq(Tokens)]

NumberLess(a, b) == a < b
TokenLess(a, b)  == a[1] < b[1] \/ (a[1] = b[1] /\ a[2] < b[2])

\* Python's order on tuples: at the first difference, or the shorter one first
TupleLess(s, t, Less(_, _)) ==
  \E i \in DOMAIN t :
    /\ \A m \in 1..(i - 1) : m \in DOMAIN s /\ s[m] = t[m]
    /\ i \notin DOMAIN s \/ Less(s[i], t[i])

PrereleaseLess(v, w) == TupleLess(v.pre, w.pre, TokenLess)

\* _compare_versions(v, w) < 0: bases padded with zeros, then a prerelease before
\* the stable version, then the prerelease tokens
Padded(base, n) == [i \in 1..n |-> IF i \in DOMAIN base THEN base[i] ELSE 0]
PadLength(v, w) == IF Len(v.base) < Len(w.base) THEN Len(w.base) ELSE Len(v.base)

Older(v, w) ==
  LET n == PadLength(v, w)
      b == Padded(v.base, n)
      c == Padded(w.base, n)
  IN IF b # c THEN TupleLess(b, c, NumberLess)
     ELSE IF v.stable # w.stable THEN w.stable
     ELSE PrereleaseLess(v, w)

\* mutant: no stability_rank in the key, so a stable version sorts before its candidates
SortsWithoutRank(v, w) ==
  IF v.base # w.base THEN TupleLess(v.base, w.base, NumberLess) ELSE PrereleaseLess(v, w)

\* _version_sort_key(v) < _version_sort_key(w): no padding
SortsBefore(v, w) ==
  IF v.base # w.base THEN TupleLess(v.base, w.base, NumberLess)
  ELSE IF v.stable # w.stable THEN w.stable
  ELSE PrereleaseLess(v, w)

=============================================================================
