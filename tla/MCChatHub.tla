----------------------------- MODULE MCChatHub -----------------------------
(* A small instance of ChatHub for TLC. *)
EXTENDS ChatHub

CONSTANTS a, b, t1, r1

TwoConns == {a, b}
OneText == {t1}
OneRelay == {r1}
=============================================================================
