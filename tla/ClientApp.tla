----------------------------- MODULE ClientApp ------------------------------
(***************************************************************************)
(* The process of the Flutter app: the WebSocket service and the wallet    *)
(* run in one event loop, a callback of one between two of the other, and  *)
(* are killed together; what is in the secure storage is all that stays.   *)
(***************************************************************************)
EXTENDS Naturals

CONSTANTS MaxConnects, MaxErrors, MaxWallets   \* the bounds of the two modules

ASSUME SocketBoundsAssumption == MaxConnects \in Nat /\ MaxErrors \in Nat
ASSUME WalletBoundAssumption == MaxWallets \in Nat

VARIABLES
    hasToken, isConnected, latest, older, asked, found, timers, connects, errors, wanted,
    mnemonic, privateKey, address, pin, made, ui, walletPc, open, attached, seen, interrupted

Socket == INSTANCE ClientSocket
Wallet == INSTANCE Wallet

socket == <<hasToken, isConnected, latest, older, asked, found, timers, connects, errors,
            wanted>>
wallet == <<mnemonic, privateKey, address, pin, made, ui, walletPc, open, attached, seen,
            interrupted>>
vars == <<socket, wallet>>

Init == Socket!Init /\ Wallet!Init

Next ==
    \/ Socket!Step /\ UNCHANGED wallet
    \/ Wallet!Step /\ UNCHANGED socket
    \/ Socket!Crash /\ Wallet!Crash

Spec == Init /\ [][Next]_vars

FairSpec == Spec /\ Socket!Fairness
-----------------------------------------------------------------------------
(* The state of both services and the four stored entries.                 *)
TypeOK == Socket!TypeOK /\ Wallet!TypeOK

(* The properties of ClientSocket and Wallet, under kills of the whole app.*)
(* send never writes to a channel that has ended (WebSocketService.send).  *)
ConnectedMeansUp == Socket!ConnectedMeansUp
(* A connect or an error adds one reconnection at most, nothing else does  *)
(* (WebSocketService._reconnect).                                          *)
OneLinePerCause == Socket!OneLinePerCause
(* With a token, a client that wants to be online comes back               *)
(* (WebSocketService.connect, _reconnect).                                 *)
OnlineAgain == Socket!OnlineAgain
(* A wallet once shown is never overwritten (WalletController).            *)
ShownWalletKept == Wallet!ShownWalletKept
(* A wallet lacks its PIN only after an interruption (WalletScreen).       *)
PinMissingOnlyByInterruption == Wallet!PinMissingOnlyByInterruption

(* The stored entries are a wallet from the write of the address on, which *)
(* createWallet does last.                                                 *)
Entries == IF address = Wallet!None THEN <<>> ELSE <<mnemonic, privateKey, address>>

Whole == INSTANCE WholeWallet WITH
           Wallets <- {<<w, w, w>> : w \in 1..MaxWallets}, NoWallet <- <<>>,
           held <- Entries, shown <- {<<w, w, w>> : w \in seen}

(* Three writes, each of which may fail or be the last before the app is   *)
(* killed, come to a wallet that is made whole, once and for ever, or not  *)
(* at all (WalletController.createWallet, loadWallet).                     *)
WalletIsWhole == Whole!Spec
=============================================================================
