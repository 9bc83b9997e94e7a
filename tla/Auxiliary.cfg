SPECIFICATION LiveSpec
CONSTANTS
    p1 = p1
    p2 = p2
    Procs = {p1, p2}
    Commands <- OneConvertsOneLooks
    MaxOperations = 2
    Starts <- CirclePendingEoaLiquified
    None = None
    HollowPossible = TRUE
    Alike = {"NFT_APPROVAL", "LIQUIFY"}
INVARIANTS Tracked LiquifiesRegistered
PROPERTIES EndedIsSettled
CHECK_DEADLOCK FALSE
