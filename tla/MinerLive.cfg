SPECIFICATION LiveSpec
CONSTANTS
    None = None
    e1 = e1
    e2 = e2
    Calls <- TwoCalls
    Epochs <- OneEpoch
    JobIds <- MCJobIds
    MaxProgress = 1
    MayDie = TRUE
    PrepareTimesOut = TRUE
    ReplyTimesOut = TRUE
PROPERTIES EveryCallSettles CancelStopsTheSearch
CHECK_DEADLOCK FALSE
