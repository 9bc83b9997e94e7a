SPECIFICATION Spec
CONSTANTS
    p1 = p1
    p2 = p2
    Procs = {p1}
    Callers = {p1}
    Operations = {m1}
    None = None
    MintFee = 1
    Quotes = {0}
    Receipts = {0}
    Wallet = "circle"
    Limits <- TwoMints
    Commands <- BothMine
    Faults = {"chainLags"}
INVARIANTS FailedIsOver
CHECK_DEADLOCK FALSE
