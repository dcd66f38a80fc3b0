-------------------------- MODULE MCClientSession ---------------------------
(* Small instances of ClientSession for TLC. *)
EXTENDS ClientSession, TLC

CONSTANTS u1, u2, c1, c2

TwoUsers == {u1, u2}
TwoCalls == {c1, c2}
OneCall == {c1}

(* The router's route_layer, and a token signed with the server's secret   *)
(* outside it, that names no account.                                      *)
BothRoutes == {"register", "login"}
OneToken == <<Nobody>>

(* The fields the client reads, and those of the backend's AuthResponse. *)
FieldsRead == {"token", "user"}
FieldsSent == {"access_token", "user_id"}

Symmetry == Permutations(TwoUsers) \cup Permutations(TwoCalls)
=============================================================================
