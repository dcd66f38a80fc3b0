---------------------------- MODULE MCKycReview ----------------------------
(* Small instances of KycReview for TLC. *)
EXTENDS KycReview, TLC

CONSTANTS u1, u2, k1, k2, s1, s2, v1, v2

OneUser == {u1}
TwoUsers == {u1, u2}
TwoKeys == {k1, k2}
TwoSubmits == {s1, s2}
TwoReviews == {v1, v2}

Symmetry == Permutations(TwoUsers) \cup Permutations(TwoKeys) \cup Permutations(TwoSubmits) \cup Permutations(TwoReviews)
=============================================================================
