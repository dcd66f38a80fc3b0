---------------------------- MODULE MCClientApp -----------------------------
(* Small instances of ClientApp for TLC. *)
EXTENDS ClientApp
=============================================================================
