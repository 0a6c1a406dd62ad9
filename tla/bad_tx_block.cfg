CONSTANTS
    s1 = s1
    s2 = s2
    Subs <- OneSub
    Kinds <- OnlyTransactions
    MaxMsgs = 2
SPECIFICATION Spec
INVARIANT ErrorSendNeverBlocks
CHECK_DEADLOCK FALSE
