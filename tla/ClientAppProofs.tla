-------------------------- MODULE ClientAppProofs --------------------------
(***************************************************************************)
(* Theorems about ClientApp, and through it about ClientSocket and Wallet, *)
(* for any number of connects, errors and wallets.                         *)
(***************************************************************************)
EXTENDS ClientApp, TLAPS

(* A step of either part, or one that leaves everything alone.             *)
LEMMA AppSteps ==
    [Next]_vars =>
      \/ Socket!Step /\ UNCHANGED wallet
      \/ Wallet!Step /\ UNCHANGED socket
      \/ Socket!Crash /\ Wallet!Crash
      \/ UNCHANGED <<socket, wallet>>
  BY DEF Next, vars
-----------------------------------------------------------------------------
(* The wallet                                                              *)

(* The wallet whose address is stored is there as a whole, and only it has *)
(* been shown.                                                             *)
WholeInv ==
    /\ address # Wallet!None => mnemonic = address /\ privateKey = address
    /\ \A w \in seen : w = address /\ w # Wallet!None

(* What a creation has done at each await, and that none is under way, or  *)
(* offered, when there is a wallet.                                        *)
CreateInv ==
    /\ Wallet!Writing => address = Wallet!None /\ made # Wallet!None
    /\ ui = "off" => walletPc = "idle"
    /\ ui = "none" => address = Wallet!None /\ walletPc = "idle"
    /\ walletPc \in {"privateKey", "address"} => mnemonic = made
    /\ walletPc = "address" => privateKey = made
    /\ walletPc = "balance" => address # Wallet!None

PinInv ==
    address # Wallet!None =>
      IF walletPc = "created" THEN address = made ELSE pin = address \/ interrupted

WalletInv == Wallet!TypeOK /\ WholeInv /\ CreateInv /\ PinInv

LEMMA WalletInit == Init => WalletInv
<1> SUFFICES ASSUME Wallet!Init PROVE WalletInv
  BY DEF Init
<1> USE DEF Wallet!Init, Wallet!None
<1>1. Wallet!TypeOK
  <2>1. 0 \in Wallet!Number
    BY WalletBoundAssumption DEF Wallet!Number
  <2>2. QED
    BY <2>1 DEF Wallet!TypeOK
<1>2. WholeInv /\ PinInv
  BY DEF WholeInv, PinInv
<1>3. CreateInv
  BY DEF CreateInv, Wallet!Writing
<1>4. QED
  BY <1>1, <1>2, <1>3 DEF WalletInv

LEMMA WalletType == Wallet!TypeOK /\ Wallet!Next => Wallet!TypeOK'
<1> SUFFICES ASSUME Wallet!TypeOK, Wallet!Next PROVE Wallet!TypeOK'
  OBVIOUS
<1> USE WalletBoundAssumption DEF Wallet!TypeOK, Wallet!Number, Wallet!None, Wallet!entries
<1>1. ASSUME Wallet!OpenScreen \/ Wallet!LeaveScreen PROVE Wallet!TypeOK'
  BY <1>1 DEF Wallet!OpenScreen, Wallet!LeaveScreen
<1>2. ASSUME Wallet!Load PROVE Wallet!TypeOK'
  BY <1>2 DEF Wallet!Load, Wallet!LoadAddress, Wallet!LoadBalance, Wallet!LoadFails
<1>3. ASSUME Wallet!Create PROVE Wallet!TypeOK'
  <2>1. ASSUME Wallet!ConfirmPin PROVE Wallet!TypeOK'
    <3>1. made' \in Wallet!Number
      BY <2>1 DEF Wallet!ConfirmPin
    <3>2. QED
      BY <2>1, <3>1, Zenon DEF Wallet!ConfirmPin
  <2>2. ASSUME Wallet!WriteMnemonic \/ Wallet!WritePrivateKey \/ Wallet!WriteAddress
        PROVE  Wallet!TypeOK'
    BY <2>2 DEF Wallet!WriteMnemonic, Wallet!WritePrivateKey, Wallet!WriteAddress
  <2>3. ASSUME Wallet!WriteFails \/ Wallet!SetPin \/ Wallet!SetPinFails PROVE Wallet!TypeOK'
    BY <2>3 DEF Wallet!WriteFails, Wallet!SetPin, Wallet!SetPinFails
  <2>4. QED
    BY <1>3, <2>1, <2>2, <2>3 DEF Wallet!Create
<1>4. ASSUME Wallet!Crash PROVE Wallet!TypeOK'
  BY <1>4 DEF Wallet!Crash
<1>5. QED
  BY <1>1, <1>2, <1>3, <1>4 DEF Wallet!Next, Wallet!Step

LEMMA WalletStep == WalletInv /\ Wallet!Next => WalletInv'
<1> SUFFICES ASSUME WalletInv, Wallet!Next PROVE WalletInv'
  OBVIOUS
<1> DEFINE Parts == WholeInv /\ CreateInv /\ PinInv
<1> USE DEF WholeInv, CreateInv, PinInv, Wallet!Writing, Wallet!None, Wallet!entries
<1>1. Wallet!TypeOK' /\ Wallet!TypeOK /\ Parts
  BY WalletType DEF WalletInv
<1>2. ASSUME Wallet!OpenScreen \/ Wallet!LeaveScreen PROVE Parts'
  BY <1>1, <1>2 DEF Wallet!OpenScreen, Wallet!LeaveScreen
<1>3. ASSUME Wallet!Load PROVE Parts'
  BY <1>1, <1>3 DEF Wallet!Load, Wallet!LoadAddress, Wallet!LoadBalance, Wallet!LoadFails
<1>4. ASSUME Wallet!ConfirmPin PROVE Parts'
  <2>1. made' # 0
    BY <1>1, <1>4, WalletBoundAssumption DEF Wallet!ConfirmPin, Wallet!TypeOK, Wallet!Number
  <2>2. QED
    BY <1>1, <1>4, <2>1 DEF Wallet!ConfirmPin
<1>5. ASSUME Wallet!WriteMnemonic \/ Wallet!WritePrivateKey PROVE Parts'
  BY <1>1, <1>5 DEF Wallet!WriteMnemonic, Wallet!WritePrivateKey
<1>6. ASSUME Wallet!WriteAddress PROVE Parts'
  BY <1>1, <1>6 DEF Wallet!WriteAddress
<1>7. ASSUME Wallet!WriteFails PROVE Parts'
  BY <1>1, <1>7 DEF Wallet!WriteFails
<1>8. ASSUME Wallet!SetPin \/ Wallet!SetPinFails PROVE Parts'
  BY <1>1, <1>8 DEF Wallet!SetPin, Wallet!SetPinFails
<1>9. ASSUME Wallet!Crash PROVE Parts'
  BY <1>1, <1>9 DEF Wallet!Crash
<1>10. Parts'
  BY <1>2, <1>3, <1>4, <1>5, <1>6, <1>7, <1>8, <1>9
     DEF Wallet!Next, Wallet!Step, Wallet!Create
<1>11. QED
  BY <1>1, <1>10 DEF WalletInv

LEMMA WalletFrame == WalletInv /\ UNCHANGED wallet => WalletInv'
  BY DEF WalletInv, Wallet!TypeOK, WholeInv, CreateInv, PinInv, Wallet!Writing, wallet

LEMMA WalletAlways == Spec => []WalletInv
<1>1. WalletInv /\ [Next]_vars => WalletInv'
  BY AppSteps, WalletStep, WalletFrame DEF Wallet!Next
<1>2. QED
  BY <1>1, WalletInit, PTL DEF Spec

(* The mnemonic, private key and address of a wallet the user has been     *)
(* shown stay in the storage (wallet_providers.dart:38-61).                *)
THEOREM ShownWalletStays == Spec => []ShownWalletKept
<1>1. WalletInv => ShownWalletKept
  BY DEF WalletInv, WholeInv, ShownWalletKept, Wallet!ShownWalletKept
<1>2. QED
  BY <1>1, WalletAlways, PTL

(* A wallet has its own PIN unless its creation was interrupted            *)
(* (wallet_screen.dart:114-115).                                           *)
THEOREM PinGoesWithWallet == Spec => []PinMissingOnlyByInterruption
<1>1. WalletInv => PinMissingOnlyByInterruption
  BY DEF WalletInv, PinInv, PinMissingOnlyByInterruption, Wallet!PinMissingOnlyByInterruption
<1>2. QED
  BY <1>1, WalletAlways, PTL

(* What the entries stand for.                                             *)
Shown == {<<w, w, w>> : w \in seen}

LEMMA WholeEntries ==
    ASSUME WalletInv, address # Wallet!None
    PROVE  Entries = <<address, address, address>> /\ Entries # <<>>
  BY DEF WalletInv, WholeInv, Entries

LEMMA EntriesStay ==
    ASSUME WalletInv, address' = address, seen' = seen,
           address # Wallet!None => UNCHANGED <<mnemonic, privateKey>>
    PROVE  UNCHANGED <<Entries, Shown>>
  BY DEF Entries, Shown

(* Every step of the wallet makes it, shows it or leaves it as it is.      *)
LEMMA WholeStep == WalletInv /\ Wallet!Next => [Whole!Next]_<<Entries, Shown>>
<1> SUFFICES ASSUME WalletInv, Wallet!Next PROVE Whole!Next \/ UNCHANGED <<Entries, Shown>>
  OBVIOUS
<1> USE DEF Wallet!entries
<1>1. ASSUME Wallet!WriteMnemonic \/ Wallet!WritePrivateKey PROVE UNCHANGED <<Entries, Shown>>
  <2>1. address = Wallet!None
    BY <1>1 DEF WalletInv, CreateInv, Wallet!Writing, Wallet!WriteMnemonic, Wallet!WritePrivateKey
  <2>2. QED
    BY <1>1, <2>1, EntriesStay DEF Wallet!WriteMnemonic, Wallet!WritePrivateKey
<1>2. ASSUME Wallet!WriteAddress PROVE Whole!Next
  <2>1. /\ address = Wallet!None /\ made # Wallet!None /\ made \in Wallet!Number
        /\ mnemonic = made /\ privateKey = made
    BY <1>2 DEF WalletInv, CreateInv, Wallet!Writing, Wallet!WriteAddress, Wallet!TypeOK
  <2>2. Entries = <<>> /\ Entries' = <<made, made, made>>
    BY <1>2, <2>1 DEF Wallet!WriteAddress, Entries
  <2>3. Shown' = Shown \cup {<<made, made, made>>}
    BY <1>2 DEF Wallet!WriteAddress, Shown
  <2>4. made \in 1..MaxWallets
    BY <2>1, WalletBoundAssumption DEF Wallet!Number, Wallet!None
  <2>5. QED
    BY <2>2, <2>3, <2>4 DEF Whole!Next, Whole!Make, Shown
<1>3. ASSUME Wallet!LoadBalance PROVE Whole!Next
  <2>1. address # Wallet!None
    BY <1>3 DEF WalletInv, CreateInv, Wallet!LoadBalance
  <2>2. Shown' = Shown \cup {<<address, address, address>>} /\ Entries' = Entries
    BY <1>3 DEF Wallet!LoadBalance, Shown, Entries
  <2>3. QED
    BY <2>1, <2>2, WholeEntries DEF Whole!Next, Whole!Show, Shown
<1>4. ASSUME Wallet!OpenScreen \/ Wallet!LeaveScreen \/ Wallet!LoadAddress \/ Wallet!LoadFails
      PROVE  UNCHANGED <<Entries, Shown>>
  BY <1>4, EntriesStay
     DEF Wallet!OpenScreen, Wallet!LeaveScreen, Wallet!LoadAddress, Wallet!LoadFails
<1>5. ASSUME Wallet!ConfirmPin \/ Wallet!WriteFails \/ Wallet!SetPin \/ Wallet!SetPinFails
      PROVE  UNCHANGED <<Entries, Shown>>
  BY <1>5, EntriesStay
     DEF Wallet!ConfirmPin, Wallet!WriteFails, Wallet!SetPin, Wallet!SetPinFails
<1>6. ASSUME Wallet!Crash PROVE UNCHANGED <<Entries, Shown>>
  BY <1>6, EntriesStay DEF Wallet!Crash
<1>7. QED
  BY <1>1, <1>2, <1>3, <1>4, <1>5, <1>6
     DEF Wallet!Next, Wallet!Step, Wallet!Load, Wallet!Create

(* The entries implement WholeWallet: wherever the app is killed and       *)
(* whichever write fails, the wallet is made once, of one key, or not at   *)
(* all (wallet_repository_impl.dart:74-85).                                *)
THEOREM WalletMadeWhole == Spec => WalletIsWhole
<1>1. Init => Whole!Init
  BY DEF Init, Wallet!Init, Whole!Init, Entries, Shown
<1>2. WalletInv /\ UNCHANGED wallet => UNCHANGED <<Entries, Shown>>
  BY EntriesStay DEF wallet
<1>3. WalletInv /\ [Next]_vars => [Whole!Next]_<<Entries, Shown>>
  BY <1>2, WholeStep, AppSteps DEF Wallet!Next
<1>4. QED
  BY <1>1, <1>3, WalletAlways, PTL DEF Spec, WalletIsWhole, Whole!Spec, Shown
-----------------------------------------------------------------------------
(* The socket                                                              *)

SocketInv == Socket!TypeOK /\ Socket!ConnectedMeansUp /\ Socket!OneLinePerCause

Counts ==
    /\ asked \in Nat /\ found \in Nat /\ timers \in Nat
    /\ connects \in 0..MaxConnects /\ errors \in 0..MaxErrors

Flags == hasToken \in BOOLEAN /\ isConnected \in BOOLEAN /\ wanted \in BOOLEAN

States ==
    /\ latest \in Socket!ChannelState \cup {"none"}
    /\ older \in [Socket!ChannelState -> Nat]

LEMMA SocketTypeParts == Socket!TypeOK <=> Counts /\ Flags /\ States
  BY DEF Socket!TypeOK, Counts, Flags, States

(* A channel that changes its state stays one, and one that ends is gone,  *)
(* whether it is the latest or an older one.                               *)
LEMMA BecomesStep ==
  ASSUME States, NEW from \in Socket!ChannelState, NEW to \in Socket!ChannelState \cup {"none"},
         from # to, Socket!Becomes(from, to)
  PROVE  /\ States'
         /\ Socket!Channels' = IF to = "none" THEN Socket!Channels - 1 ELSE Socket!Channels
<1> USE DEF States, Socket!ChannelState, Socket!Channels
<1>1. ASSUME latest = from, latest' = to, UNCHANGED older
      PROVE  /\ States'
             /\ Socket!Channels' = IF to = "none" THEN Socket!Channels - 1 ELSE Socket!Channels
  BY <1>1
<1>2. ASSUME older[from] > 0, older' = Socket!OlderMoved(from, to), UNCHANGED latest
      PROVE  /\ States'
             /\ Socket!Channels' = IF to = "none" THEN Socket!Channels - 1 ELSE Socket!Channels
  BY <1>2 DEF Socket!OlderMoved
<1>3. QED
  BY <1>1, <1>2 DEF Socket!Becomes

(* A channel that is opened is one more. *)
LEMMA OpenStep ==
  ASSUME States, Socket!OpenChannel
  PROVE  States' /\ Socket!Channels' = Socket!Channels + 1
  BY DEF States, Socket!ChannelState, Socket!Channels, Socket!OpenChannel, Socket!OlderMoved

LEMMA CountsStep == Counts /\ Socket!Next => Counts'
<1> SUFFICES ASSUME Counts, Socket!Next PROVE Counts'
  OBVIOUS
<1> USE SocketBoundsAssumption
    DEF Counts, Socket!TryConnect, Socket!_reconnect, Socket!socketVars
<1>1. ASSUME Socket!AppConnects \/ Socket!TimerFires PROVE Counts'
  BY <1>1 DEF Socket!AppConnects, Socket!TimerFires
<1>2. ASSUME Socket!ReadToken \/ Socket!OpenChannel \/ Socket!OpenFails PROVE Counts'
  BY <1>2 DEF Socket!ReadToken, Socket!OpenChannel, Socket!OpenFails
<1>3. ASSUME Socket!disconnect \/ Socket!TokenChanges \/ Socket!Accept PROVE Counts'
  BY <1>3 DEF Socket!disconnect, Socket!TokenChanges, Socket!Accept
<1>4. ASSUME NEW s \in Socket!ChannelState, Socket!OnError(s) \/ Socket!OnDone(s) PROVE Counts'
  BY <1>4 DEF Socket!OnError, Socket!OnDone
<1>5. ASSUME Socket!Crash PROVE Counts'
  BY <1>5 DEF Socket!Crash
<1>6. QED
  BY <1>1, <1>2, <1>3, <1>4, <1>5 DEF Socket!Next, Socket!Step, Socket!ServiceStep

LEMMA FlagsStep == Flags /\ Socket!Next => Flags'
  BY DEF Flags, Socket!Next, Socket!Step, Socket!ServiceStep, Socket!AppConnects,
         Socket!TimerFires, Socket!ReadToken, Socket!OpenChannel, Socket!OpenFails,
         Socket!disconnect, Socket!TokenChanges, Socket!Accept, Socket!OnError, Socket!OnDone,
         Socket!Crash, Socket!socketVars

LEMMA StatesStep == States /\ Socket!Next => States'
<1> SUFFICES ASSUME States, Socket!Next PROVE States'
  OBVIOUS
<1>1. ASSUME \/ Socket!AppConnects \/ Socket!TimerFires \/ Socket!ReadToken \/ Socket!OpenFails
             \/ Socket!TokenChanges
      PROVE  States'
  BY <1>1 DEF States, Socket!AppConnects, Socket!TimerFires, Socket!ReadToken, Socket!OpenFails,
              Socket!TokenChanges, Socket!socketVars
<1>2. ASSUME Socket!OpenChannel PROVE States'
  BY <1>2, OpenStep
<1>3. ASSUME NEW s \in Socket!ChannelState, Socket!Accept \/ Socket!OnError(s) \/ Socket!OnDone(s)
      PROVE  States'
  BY <1>3, BecomesStep
     DEF Socket!Accept, Socket!OnError, Socket!OnDone, Socket!Up, Socket!ChannelState
<1>4. ASSUME Socket!disconnect \/ Socket!Crash PROVE States'
  BY <1>4 DEF States, Socket!ChannelState, Socket!disconnect, Socket!Crash
<1>5. QED
  BY <1>1, <1>2, <1>3, <1>4 DEF Socket!Next, Socket!Step, Socket!ServiceStep, Socket!ChannelState

LEMMA SocketType == Socket!TypeOK /\ Socket!Next => Socket!TypeOK'
  BY SocketTypeParts, CountsStep, FlagsStep, StatesStep, PTL

LEMMA UpStep == Socket!ConnectedMeansUp /\ Socket!Next => Socket!ConnectedMeansUp'
<1> SUFFICES ASSUME Socket!ConnectedMeansUp, Socket!Next PROVE Socket!ConnectedMeansUp'
  OBVIOUS
<1> USE DEF Socket!ConnectedMeansUp, Socket!Up, Socket!socketVars
<1>1. ASSUME Socket!AppConnects \/ Socket!TimerFires \/ Socket!ReadToken \/ Socket!TokenChanges
      PROVE  Socket!ConnectedMeansUp'
  BY <1>1 DEF Socket!AppConnects, Socket!TimerFires, Socket!ReadToken, Socket!TokenChanges
<1>2. ASSUME Socket!OpenChannel PROVE Socket!ConnectedMeansUp'
  BY <1>2 DEF Socket!OpenChannel
<1>3. ASSUME Socket!Accept PROVE Socket!ConnectedMeansUp'
  BY <1>3 DEF Socket!Accept, Socket!Becomes
<1>4. ASSUME \/ Socket!disconnect \/ Socket!Crash \/ Socket!OpenFails
             \/ \E s \in Socket!ChannelState : Socket!OnError(s) \/ Socket!OnDone(s)
      PROVE  Socket!ConnectedMeansUp'
  BY <1>4 DEF Socket!disconnect, Socket!Crash, Socket!OpenFails, Socket!OnError, Socket!OnDone
<1>5. QED
  BY <1>1, <1>2, <1>3, <1>4 DEF Socket!Next, Socket!Step, Socket!ServiceStep

(* Lines and their causes, by step.                                        *)
LEMMA LinesStep ==
    Socket!TypeOK /\ Socket!OneLinePerCause /\ Socket!Next => Socket!OneLinePerCause'
<1> SUFFICES ASSUME Socket!TypeOK, Socket!OneLinePerCause, Socket!Next
             PROVE  Socket!OneLinePerCause'
  OBVIOUS
<1> DEFINE n == Socket!Channels
           Causes == asked + found + timers + n <= connects + errors
<1>1. States /\ asked \in Nat /\ found \in Nat /\ timers \in Nat /\ connects \in Nat
      /\ errors \in Nat
  BY SocketTypeParts, SocketBoundsAssumption DEF Counts
<1>2. n \in Nat
  BY <1>1 DEF States, Socket!Channels, Socket!ChannelState
<1>3. Socket!OneLinePerCause <=> Causes
  BY DEF Socket!OneLinePerCause, Socket!Lines
<1>4. Socket!OneLinePerCause' <=> Causes'
  BY DEF Socket!OneLinePerCause, Socket!Lines
<1>5. latest' = latest /\ older' = older => n' = n
  BY DEF Socket!Channels
<1> HIDE DEF n
<1>6. ASSUME Socket!AppConnects \/ Socket!TimerFires PROVE Causes'
  BY <1>1, <1>2, <1>3, <1>5, <1>6 DEF Socket!AppConnects, Socket!TimerFires, Socket!TryConnect
<1>7. ASSUME Socket!ReadToken \/ Socket!OpenFails PROVE Causes'
  BY <1>1, <1>2, <1>3, <1>5, <1>7 DEF Socket!ReadToken, Socket!OpenFails, Socket!_reconnect
<1>8. ASSUME Socket!OpenChannel PROVE Causes'
  <2>1. n' = n + 1
    BY <1>1, <1>8, OpenStep DEF n
  <2>2. QED
    BY <1>1, <1>2, <1>3, <1>8, <2>1 DEF Socket!OpenChannel
<1>9. ASSUME NEW s \in Socket!ChannelState, Socket!Accept \/ Socket!OnError(s) PROVE Causes'
  <2>1. n' = n
    BY <1>1, <1>9, BecomesStep DEF n, Socket!Accept, Socket!OnError, Socket!Up, Socket!ChannelState
  <2>2. QED
    BY <1>1, <1>2, <1>3, <1>9, <2>1 DEF Socket!Accept, Socket!OnError, Socket!_reconnect
<1>10. ASSUME NEW s \in Socket!ChannelState, Socket!OnDone(s) PROVE Causes'
  <2>1. n' = n - 1
    BY <1>1, <1>10, BecomesStep DEF n, Socket!OnDone, Socket!ChannelState
  <2>2. QED
    BY <1>1, <1>2, <1>3, <1>10, <2>1 DEF Socket!OnDone, Socket!_reconnect
<1>11. ASSUME Socket!disconnect \/ Socket!TokenChanges PROVE Causes'
  <2>1. n' = n
    BY <1>11 DEF n, Socket!Channels, Socket!disconnect, Socket!TokenChanges, Socket!socketVars,
                 Socket!Up
  <2>2. QED
    BY <1>3, <1>11, <2>1 DEF Socket!disconnect, Socket!TokenChanges, Socket!socketVars
<1>12. ASSUME Socket!Crash PROVE Causes'
  <2>1. n' = 0
    BY <1>12 DEF n, Socket!Channels, Socket!Crash, Socket!ChannelState
  <2>2. QED
    BY <1>12, <2>1 DEF Socket!Crash
<1>13. QED
  BY <1>4, <1>6, <1>7, <1>8, <1>9, <1>10, <1>11, <1>12
     DEF Socket!Next, Socket!Step, Socket!ServiceStep, Socket!ChannelState

LEMMA SocketInit == Init => SocketInv
<1> SUFFICES ASSUME Socket!Init PROVE SocketInv
  BY DEF Init
<1>1. Counts
  BY SocketBoundsAssumption DEF Socket!Init, Counts
<1>2. Flags /\ States
  BY DEF Socket!Init, Flags, States, Socket!ChannelState
<1>3. Socket!ConnectedMeansUp
  BY DEF Socket!Init, Socket!ConnectedMeansUp
<1>4. Socket!OneLinePerCause
  BY DEF Socket!Init, Socket!OneLinePerCause, Socket!Lines, Socket!Channels, Socket!ChannelState
<1>5. QED
  BY <1>1, <1>2, <1>3, <1>4, SocketTypeParts DEF SocketInv

LEMMA SocketFrame == SocketInv /\ UNCHANGED socket => SocketInv'
  BY DEF SocketInv, Socket!TypeOK, Socket!ConnectedMeansUp, Socket!Up, Socket!OneLinePerCause,
         Socket!Lines, Socket!Channels, socket

LEMMA SocketAlways == Spec => []SocketInv
<1>1. SocketInv /\ Socket!Next => SocketInv'
  BY SocketType, UpStep, LinesStep DEF SocketInv
<1>2. SocketInv /\ [Next]_vars => SocketInv'
  BY <1>1, AppSteps, SocketFrame DEF Socket!Next
<1>3. QED
  BY <1>2, SocketInit, PTL DEF Spec

(* The state of both services keeps its types (websocket_service.dart,     *)
(* wallet_repository_impl.dart).                                           *)
THEOREM AppTypeCorrect == Spec => []TypeOK
<1>1. SocketInv /\ WalletInv => TypeOK
  BY DEF SocketInv, WalletInv, TypeOK
<1>2. QED
  BY <1>1, SocketAlways, WalletAlways, PTL

(* While send sees _isConnected, it writes to a channel that has not ended *)
(* (websocket_service.dart:75-85).                                         *)
THEOREM ConnectedIsUp == Spec => []ConnectedMeansUp
<1>1. SocketInv => ConnectedMeansUp
  BY DEF SocketInv, ConnectedMeansUp
<1>2. QED
  BY <1>1, SocketAlways, PTL

(* Channels, timers and attempts together are never more than the calls of *)
(* connect and the errors (websocket_service.dart:88).                     *)
THEOREM LinesHaveACause == Spec => []OneLinePerCause
<1>1. SocketInv => OneLinePerCause
  BY DEF SocketInv, OneLinePerCause
<1>2. QED
  BY <1>1, SocketAlways, PTL
-----------------------------------------------------------------------------
(* Going offline                                                           *)

LEMMA SumNotZero ==
  ASSUME NEW a \in Nat, NEW b \in Nat, NEW c \in Nat, NEW d \in Nat,
         a # 0 \/ b # 0 \/ c # 0 \/ d # 0
  PROVE  a + b + c + d # 0
  OBVIOUS

LEMMA OfflineStep ==
    SocketInv /\ Socket!OfflineOnlyForCause /\ Socket!Next => Socket!OfflineOnlyForCause'
<1> SUFFICES ASSUME SocketInv, Socket!OfflineOnlyForCause, Socket!Next
             PROVE  Socket!OfflineOnlyForCause'
  OBVIOUS
<1> DEFINE n == Socket!Channels
           Alive == wanted => asked + found + timers + n # 0
<1>1. Counts /\ Flags /\ States /\ Socket!ConnectedMeansUp
  BY SocketTypeParts DEF SocketInv
<1>2. asked \in Nat /\ found \in Nat /\ timers \in Nat /\ n \in Nat
  BY <1>1 DEF Counts, States, Socket!Channels, Socket!ChannelState
<1>3. asked' \in Nat /\ found' \in Nat /\ timers' \in Nat /\ n' \in Nat
  <2>1. Counts' /\ States'
    BY <1>1, CountsStep, StatesStep
  <2>2. QED
    BY <2>1 DEF Counts, States, Socket!Channels, Socket!ChannelState
<1>4. Alive /\ (Alive' => Socket!OfflineOnlyForCause')
  BY DEF Socket!OfflineOnlyForCause, Socket!Lines
<1>5. isConnected => n # 0
  BY <1>1 DEF States, Socket!ConnectedMeansUp, Socket!Up, Socket!Channels, Socket!ChannelState
<1>6. latest' = latest /\ older' = older => n' = n
  BY DEF Socket!Channels
<1> HIDE DEF n
<1>7. ASSUME asked' # 0 \/ found' # 0 \/ timers' # 0 \/ n' # 0 PROVE Alive'
  <2>1. asked' + found' + timers' + n' # 0
    BY <1>3, <1>7, SumNotZero
  <2>2. QED
    BY <2>1
<1>8. ASSUME Socket!AppConnects \/ Socket!TimerFires PROVE Alive'
  <2>1. n' = n /\ (n # 0 \/ asked' = asked + 1)
    BY <1>5, <1>6, <1>8 DEF Socket!AppConnects, Socket!TimerFires, Socket!TryConnect
  <2>2. n' # 0 \/ asked' # 0
    BY <1>2, <2>1
  <2>3. QED
    BY <1>7, <2>2
<1>9. ASSUME Socket!ReadToken PROVE Alive'
  <2>1. wanted' = FALSE \/ found' = found + 1
    BY <1>9 DEF Socket!ReadToken
  <2>2. found' = found + 1 => found' # 0
    BY <1>2
  <2>3. QED
    BY <1>7, <2>1, <2>2
<1>10. ASSUME Socket!OpenChannel PROVE Alive'
  <2>1. n' = n + 1
    BY <1>1, <1>10, OpenStep DEF n
  <2>2. n' # 0
    BY <1>2, <2>1
  <2>3. QED
    BY <1>7, <2>2
<1>11. ASSUME Socket!Accept PROVE Alive'
  <2>1. n' = n
    BY <1>1, <1>11, BecomesStep DEF n, Socket!Accept, Socket!ChannelState
  <2>2. QED
    BY <1>4, <1>11, <2>1 DEF Socket!Accept
<1>12. ASSUME \/ Socket!OpenFails
              \/ \E s \in Socket!ChannelState : Socket!OnError(s) \/ Socket!OnDone(s)
       PROVE  Alive'
  <2>1. timers' = timers + 1
    BY <1>12 DEF Socket!OpenFails, Socket!OnError, Socket!OnDone, Socket!_reconnect
  <2>2. timers' # 0
    BY <1>2, <2>1
  <2>3. QED
    BY <1>7, <2>2
<1>13. ASSUME Socket!disconnect \/ Socket!Crash PROVE Alive'
  BY <1>13 DEF Socket!disconnect, Socket!Crash
<1>14. ASSUME Socket!TokenChanges PROVE Alive'
  BY <1>4, <1>6, <1>14 DEF Socket!TokenChanges, Socket!socketVars
<1>15. QED
  BY <1>4, <1>8, <1>9, <1>10, <1>11, <1>12, <1>13, <1>14
     DEF Socket!Next, Socket!Step, Socket!ServiceStep

(* The service stops reconnecting only after an attempt that found no      *)
(* token or a disconnect (websocket_service.dart:29-32, 69-72).            *)
THEOREM OfflineHasACause == Spec => []Socket!OfflineOnlyForCause
<1>1. Init => Socket!OfflineOnlyForCause
  BY DEF Init, Socket!Init, Socket!OfflineOnlyForCause
<1>2. Socket!OfflineOnlyForCause /\ UNCHANGED socket => Socket!OfflineOnlyForCause'
  BY DEF Socket!OfflineOnlyForCause, Socket!Lines, Socket!Channels, socket
<1>3. SocketInv /\ Socket!OfflineOnlyForCause /\ [Next]_vars => Socket!OfflineOnlyForCause'
  BY <1>2, AppSteps, OfflineStep DEF Socket!Next
<1>4. QED
  BY <1>1, <1>3, SocketAlways, PTL DEF Spec
=============================================================================
