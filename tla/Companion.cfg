SPECIFICATION Spec
CONSTANTS
    None = None
    p1 = p1
    p2 = p2
    w1 = w1
    w2 = w2
    w3 = w3
    w4 = w4
    Pages <- OnePage
    Works <- FourWorks
    Expiries <- Moments
    MaxPending = 3
    MinStart = 0
    Retention = 0
    MaxJobs = 4
    MaxClock = 1
SYMMETRY CompanionSymmetry
INVARIANTS TypeOK OneAtATime NoIdleQueue NoDuplicateWork AbortedIsCancelled
PROPERTIES StartsInOrder FinalIsFinal
CHECK_DEADLOCK FALSE
