--------------------------- MODULE MCMessageStore ---------------------------
(* Small instances of MessageStore for TLC. *)
EXTENDS MessageStore

CONSTANTS m1, m2, u1, c1, r1

TwoIds == {m1, m2}
OneUser == {u1}
OneContent == {c1}
OneReaction == {r1}

(* A timer that has run out when it is set, and one that runs out after a
   tick, before MaxTime. *)
PastAndFuture == {-1, 0}
NoReaction == {}
=============================================================================
