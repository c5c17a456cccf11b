SPECIFICATION Spec
CONSTANTS
    Pages <- MCPages
    WalletAccount = {"alice", "bob"}
    Chain = {"hedera", "other"}
    Hedera = "hedera"
    None = "none"
    Input = {"x", "y"}
    PageSize = 2
    Search = {"", "query"}
    Selected = {"t1", "t2"}
    InitialRows = 3
    MaxRows = 4
    WalletPages <- MCWalletPages
    MaxClicks <- MCMaxClicks
    Faults = TRUE
INVARIANTS WebTypeOK WalletIsShown WalkMissesNothing CompletionsAreTrue
PROPERTIES ImplementsLatestAnswer SpinnersStop
CHECK_DEADLOCK FALSE
