SPECIFICATION Spec
CONSTANTS
    p1 = p1
    p2 = p2
    Pids = {p1, p2}
    Commands <- HelperBesideCli
    Accounts = {a1}
    MaxVersion = 2
    Skills = 1
    Transfers = 2
    None = None
INVARIANTS ReportsAreTrue OneDeployment
CHECK_DEADLOCK FALSE
