CONSTANTS
    Subs <- ConnectSubs
    Kinds <- ConnectKinds
    MaxMsgs = 1
    MaxStates = 0
    MaxHeights = 0
    MaxAttempts = 1
    Starts <- NoCallerCtx
    None = None
    tag = tag
    Tags <- OneTag
    MaxPart = 1
SPECIFICATION StartSpec
INVARIANT CallerCtxIsOptional
CHECK_DEADLOCK FALSE
