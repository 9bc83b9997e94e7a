SPECIFICATION ProgressSpec
CONSTANTS
    p1 = p1
    p2 = p2
    Procs = {p1, p2}
    Callers = {p1, p2}
    Operations = {m1}
    None = None
    MintFee = 1
    Quotes = {0}
    Receipts = {0}
    Wallet = "eoa"
    Limits <- TwoMints
    Commands <- StopBesideMine
    Faults = {"prepareFails", "readsFail"}
PROPERTIES StopQuiesces
CHECK_DEADLOCK FALSE
