CONSTANTS
    s1 = s1
    s2 = s2
    Subs <- OneSub
    Kinds <- SoundKinds
    MaxMsgs = 3
SPECIFICATION FairSpec
INVARIANTS
    TypeOK
    InOrderDelivery
    EndIsExplained
    ErrorSendNeverBlocks
PROPERTIES
    KeepsPromises
    PumpsEnd
    CloseReturns
CHECK_DEADLOCK FALSE
