CONSTANTS
    Subs <- ConnectSubs
    Kinds <- ConnectKinds
    MaxMsgs = 2
    MaxStates = 2
    MaxHeights = 1
    MaxAttempts = 2
    Starts <- AllStarts
    None = None
    tag = tag
    Tags <- OneTag
    MaxPart = 1
SPECIFICATION FairStartSpec
INVARIANTS
    InfoOnlyWhenReady
    StartedAsConfigured
    SuccessMeansReady
    StartCleansUp
PROPERTIES
    CancelAborts
CHECK_DEADLOCK FALSE
