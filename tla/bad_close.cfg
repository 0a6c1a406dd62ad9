CONSTANTS
    s1 = s1
    s2 = s2
    Subs <- OneSub
    Kinds <- UnwaitedKinds
    MaxMsgs = 2
SPECIFICATION Spec
INVARIANT CloseWaitsForAll
CHECK_DEADLOCK FALSE
