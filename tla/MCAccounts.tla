----------------------------- MODULE MCAccounts -----------------------------
(* Small instances of Accounts for TLC. *)
EXTENDS Accounts, TLC

CONSTANTS i1, i2, i3, p1, p2, w1, w2, c1, c2

ThreeIds == {i1, i2, i3}
OnePhone == {p1}
TwoPhones == {p1, p2}
TwoPasswords == {w1, w2}
TwoCalls == {c1, c2}
FirstExpiry == {0}

Symmetry == Permutations(ThreeIds) \cup Permutations(TwoPhones) \cup Permutations(TwoPasswords) \cup Permutations(TwoCalls)
=============================================================================
