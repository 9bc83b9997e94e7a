SPECIFICATION Spec
CONSTANTS
    None = None
    e1 = e1
    e2 = e2
    Calls <- TwoCalls
    Epochs <- TwoEpochs
    JobIds <- MCJobIds
    MaxProgress = 0
    MayDie = FALSE
    PrepareTimesOut = FALSE
    ReplyTimesOut = FALSE
INVARIANT CancelSparesTheProgram
CHECK_DEADLOCK FALSE
