SPECIFICATION FairSpec
CONSTANTS
    MaxConnects = 2
    MaxErrors = 1
    MaxWallets = 2
INVARIANTS TypeOK ConnectedMeansUp OneLinePerCause PinMissingOnlyByInterruption
PROPERTIES OnlineAgain WalletIsWhole
