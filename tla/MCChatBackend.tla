--------------------------- MODULE MCChatBackend ----------------------------
(* Small instances of ChatBackend for TLC. *)
EXTENDS ChatBackend, TLC

CONSTANTS a, b, t1, t2, u1, c1, k1

TwoConns == {a, b}
TwoTexts == {t1, t2}
OneUser == {u1}
OneContent == {c1}
NoReaction == {}
Soon == {0}
SameUser == [c \in Conn |-> u1]
OneConversation == {k1}

Symmetry == Permutations(TwoConns) \cup Permutations(TwoTexts)
=============================================================================
