SPECIFICATION LiveSpec
CONSTANTS
    None = None
    r1 = r1
    r2 = r2
    r3 = r3
    p1 = p1
    p2 = p2
    mintA = mintA
    mintB = mintB
    approve = approve
    Requests <- TwoRequests
    CallOf <- Different
    Processes <- TwoProcesses
    OneOut = TRUE
    ListsCalls = {TRUE, FALSE}
    Window = 0
    MaxClock = 1
INVARIANTS TypeOK BoundToOwn ToldIsTrue
PROPERTIES OperationIsFound JournalGrows
CHECK_DEADLOCK FALSE
