---------------------------- MODULE WholeWallet -----------------------------
(***************************************************************************)
(* What the user may rely on about the wallet of a device: it is made in   *)
(* one step, once, with entries that belong together, and never changes;   *)
(* only the wallet that is held is ever shown.                             *)
(***************************************************************************)
CONSTANTS Wallets, NoWallet

VARIABLES
    held,    \* the wallet of the device
    shown    \* wallets whose address the user knows

Init == held = NoWallet /\ shown = {}

Make(w) ==
    /\ held = NoWallet
    /\ held' = w
    /\ shown' = shown \cup {w}

Show ==
    /\ held # NoWallet
    /\ held' = held
    /\ shown' = shown \cup {held}

Next == Show \/ \E w \in Wallets : Make(w)

Spec == Init /\ [][Next]_<<held, shown>>
=============================================================================
