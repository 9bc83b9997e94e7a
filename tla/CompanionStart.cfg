SPECIFICATION LiveSpec
CONSTANTS
    p1 = p1
    p2 = p2
    p3 = p3
    Pids = {p1, p2, p3}
    Commands <- TwoStart
    Manifests <- TwoReleases
    Platform = "linux-x64"
    None = None
INVARIANTS VerifiedStays NeverHalfInstalled
PROPERTIES StopReturns
CHECK_DEADLOCK FALSE
