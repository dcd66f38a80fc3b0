------------------------------- MODULE Wallet -------------------------------
(***************************************************************************)
(* The wallet of the Flutter client: the four entries it keeps in the      *)
(* device's secure storage (wallet_repository_impl.dart), the              *)
(* WalletController that loads and creates it (wallet_providers.dart), and *)
(* the screen that asks for a PIN and then creates a wallet and stores the *)
(* PIN, one after the other (wallet_screen.dart).                          *)
(*                                                                         *)
(* Creating a wallet is three writes and the PIN a fourth.  The app may be *)
(* killed before any of them, and a write may be refused.                  *)
(*                                                                         *)
(* Abstracted: a mnemonic, private key, address or PIN is the number of    *)
(* the dialog it was made in, so that equal numbers stand for entries that *)
(* belong together (the private key is derived from the mnemonic and the   *)
(* address from the private key); balances, and the transfers, which leave *)
(* nothing on the device.                                                  *)
(***************************************************************************)
EXTENDS Naturals

CONSTANT MaxWallets   \* bound on the confirmed PIN dialogs

VARIABLES
    mnemonic, privateKey, address, pin,   \* the entries wallet_*; None if absent
    made,         \* dialogs confirmed so far
    ui,           \* WalletController.state: "off" (no controller yet), "loading",
                  \* "none" (data(null)), "shown" (data(wallet)), "error"
    walletPc,     \* what the app awaits: "idle", "load", "balance", the entry
                  \* createWallet writes next, or "created" (setPin comes next)
    open,         \* a WalletScreen is mounted
    attached,     \* ... and it awaits createWallet, or its PIN
    seen,         \* wallets whose address the user has been shown   (history)
    interrupted   \* the last confirmed dialog's PIN did not get through (history)

entries == <<mnemonic, privateKey, address, pin>>
vars == <<entries, made, ui, walletPc, open, attached, seen, interrupted>>

None == 0
Number == 0..MaxWallets

(* createWallet is between its first and its last write. *)
Writing == walletPc \in {"mnemonic", "privateKey", "address"}

Init ==
    /\ mnemonic = None /\ privateKey = None /\ address = None /\ pin = None
    /\ made = 0
    /\ ui = "off"
    /\ walletPc = "idle"
    /\ open = FALSE
    /\ attached = FALSE
    /\ seen = {}
    /\ interrupted = FALSE

-----------------------------------------------------------------------------
(* The first WalletScreen creates the controller, whose constructor calls  *)
(* loadWallet.                                                             *)
OpenScreen ==
    /\ ~open
    /\ open' = TRUE
    /\ IF ui = "off"
       THEN ui' = "loading" /\ walletPc' = "load"
       ELSE UNCHANGED <<ui, walletPc>>
    /\ UNCHANGED <<entries, made, attached, seen, interrupted>>

LeaveScreen ==
    /\ open
    /\ open' = FALSE
    /\ attached' = FALSE
    /\ UNCHANGED <<entries, made, ui, walletPc, seen, interrupted>>

(* getAddress returns; without an address there is no wallet.              *)
LoadAddress ==
    /\ walletPc = "load"
    /\ IF address = None
       THEN ui' = "none" /\ walletPc' = "idle"
       ELSE ui' = ui /\ walletPc' = "balance"
    /\ UNCHANGED <<entries, made, open, attached, seen, interrupted>>

LoadBalance ==
    /\ walletPc = "balance"
    /\ ui' = "shown"
    /\ seen' = seen \cup {address}
    /\ walletPc' = "idle"
    /\ UNCHANGED <<entries, made, open, attached, interrupted>>

(* Faulty: an error is taken for "no wallet". *)
LoadFailsToNone ==
    /\ walletPc \in {"load", "balance"}
    /\ ui' = "none"
    /\ walletPc' = "idle"
    /\ UNCHANGED <<entries, made, open, attached, seen, interrupted>>

(* The storage or the chain does not answer.                               *)
LoadFails ==
    /\ walletPc \in {"load", "balance"}
    /\ ui' = "error"
    /\ walletPc' = "idle"
    /\ UNCHANGED <<entries, made, open, attached, seen, interrupted>>

-----------------------------------------------------------------------------
(* The PIN dialog is confirmed.  The button that shows it is there only    *)
(* while the state is data(null), and createWallet sets it to loading at   *)
(* once.  The tap on that button is part of this step: the dialog it       *)
(* awaits is modal, so nothing but a kill or its dismissal, which leave    *)
(* things as they were, comes between.                                     *)
ConfirmPin ==
    /\ open /\ ui = "none" /\ walletPc = "idle"
    /\ made < MaxWallets
    /\ made' = made + 1
    /\ ui' = "loading"
    /\ walletPc' = "mnemonic"
    /\ attached' = TRUE
    /\ interrupted' = FALSE
    /\ UNCHANGED <<entries, open, seen>>

WriteMnemonic ==
    /\ walletPc = "mnemonic"
    /\ mnemonic' = made
    /\ walletPc' = "privateKey"
    /\ UNCHANGED <<privateKey, address, pin, made, ui, open, attached, seen, interrupted>>

WritePrivateKey ==
    /\ walletPc = "privateKey"
    /\ privateKey' = made
    /\ walletPc' = "address"
    /\ UNCHANGED <<mnemonic, address, pin, made, ui, open, attached, seen, interrupted>>

(* The last write; the controller shows the wallet.                        *)
WriteAddress ==
    /\ walletPc = "address"
    /\ address' = made
    /\ ui' = "shown"
    /\ seen' = seen \cup {made}
    /\ walletPc' = "created"
    /\ UNCHANGED <<mnemonic, privateKey, pin, made, open, attached, interrupted>>

(* A write throws.  The controller keeps the error as its state and        *)
(* returns normally, so that the screen goes on to setPin.                 *)
WriteFails ==
    /\ Writing
    /\ ui' = "error"
    /\ walletPc' = "created"
    /\ UNCHANGED <<entries, made, open, attached, seen, interrupted>>

(* Faulty: the PIN is only kept for a wallet that is not on the screen yet. *)
SetPinIfHidden ==
    /\ walletPc = "created" /\ attached
    /\ pin' = IF ui = "shown" THEN pin ELSE made
    /\ walletPc' = "idle"
    /\ attached' = FALSE
    /\ UNCHANGED <<mnemonic, privateKey, address, made, ui, open, seen, interrupted>>

(* Back in the button's callback: the screen awaits the PIN's write.       *)
SetPin ==
    /\ walletPc = "created" /\ attached
    /\ pin' = made
    /\ walletPc' = "idle"
    /\ attached' = FALSE
    /\ UNCHANGED <<mnemonic, privateKey, address, made, ui, open, seen, interrupted>>

(* The write of the PIN throws, or ref.read does, because the screen that  *)
(* awaited createWallet has been left: nobody sets the PIN again.          *)
SetPinFails ==
    /\ walletPc = "created"
    /\ walletPc' = "idle"
    /\ attached' = FALSE
    /\ interrupted' = TRUE
    /\ UNCHANGED <<entries, made, ui, open, seen>>

-----------------------------------------------------------------------------
(* The app is killed: the entries stay.                                    *)
Crash ==
    /\ ui' = "off"
    /\ walletPc' = "idle"
    /\ open' = FALSE
    /\ attached' = FALSE
    /\ interrupted' = (interrupted \/ Writing \/ walletPc = "created")
    /\ UNCHANGED <<entries, made, seen>>

Load == LoadAddress \/ LoadBalance \/ LoadFails

Create ==
    ConfirmPin \/ WriteMnemonic \/ WritePrivateKey \/ WriteAddress \/ WriteFails
    \/ SetPin \/ SetPinFails

Step == OpenScreen \/ LeaveScreen \/ Load \/ Create

Next == Step \/ Crash

Spec == Init /\ [][Next]_vars
-----------------------------------------------------------------------------
TypeOK ==
    /\ mnemonic \in Number /\ privateKey \in Number /\ address \in Number /\ pin \in Number
    /\ made \in Number
    /\ ui \in {"off", "loading", "none", "shown", "error"}
    /\ walletPc \in {"idle", "load", "balance", "mnemonic", "privateKey", "address", "created"}
    /\ open \in BOOLEAN
    /\ attached \in BOOLEAN
    /\ seen \subseteq Number
    /\ interrupted \in BOOLEAN

(* Once the user has been shown an address, to which others may now send,  *)
(* its mnemonic and private key stay in the storage for ever: no crash,    *)
(* refused write or failed load lets a second createWallet overwrite them  *)
(* (the address is written last, and an error does not bring the button    *)
(* back).                                                                  *)
ShownWalletKept ==
    \A w \in seen : mnemonic = w /\ privateKey = w /\ address = w

(* A wallet is without the PIN chosen for it only because the app was      *)
(* killed, the screen left or the storage failed between its address and   *)
(* its PIN: a failed attempt before it leaves no other PIN in force.       *)
PinMissingOnlyByInterruption ==
    walletPc = "idle" /\ address # None => pin = address \/ interrupted
=============================================================================
