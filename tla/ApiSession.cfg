SPECIFICATION LiveSpec
CONSTANTS
    MaxArcals = 5
    TreeHeight = 3
    Uint64Max = 100
    Uint256Max = 1000
    MintFee = 10
    HalfOrder = 11
    Unit = 36
    Unset = Unset
    Manifest <- MCManifest
    Configs <- MCConfigs
    Chains <- MCChains
    Wallets <- MCWallets
    p1 = p1
    p2 = p2
    Pids = {p1, p2}
    Attempts = 2
    Polls = 2
    None = None
INVARIANTS WrittenOnce
PROPERTIES CommandEnds
CHECK_DEADLOCK FALSE
