SPECIFICATION Spec
CONSTANTS
    p1 = p1
    p2 = p2
    Procs = {p1, p2}
    Callers = {p1, p2}
    Operations = {m1, m2}
    None = None
    MintFee = 1
    Quotes = {1}
    Receipts = {}
    Wallet = "circle"
    Limits <- OneMint
    Commands <- RunBesideMine
    Faults = {}
SYMMETRY OperationSymmetry
INVARIANTS TypeOK HandedAtMostOnce OneMintOut FailedIsOver
PROPERTIES ImplementsPromise UnattendedWithinBudget
CHECK_DEADLOCK FALSE
