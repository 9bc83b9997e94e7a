SPECIFICATION Spec
CONSTANTS
    None = None
    e1 = e1
    e2 = e2
    Calls <- ThreeCalls
    Epochs <- TwoEpochs
    JobIds <- MCJobIds
    MaxProgress = 0
    MayDie = TRUE
    PrepareTimesOut = FALSE
    ReplyTimesOut = FALSE
INVARIANTS MinerTypeOK SearchIsFramed ActiveOnCurrent SolutionIsOfItsEpoch SettledIsQuiet CleanExitOwesNothing
SYMMETRY EpochSymmetry
PROPERTIES ImplementsWorker
CHECK_DEADLOCK FALSE
