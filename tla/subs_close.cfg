CONSTANTS
    s1 = s1
    s2 = s2
    Subs <- TwoSubs
    Kinds <- PairKinds
    MaxMsgs = 1
SYMMETRY Symmetry
SPECIFICATION Spec
INVARIANTS
    WaitCoversPumps
PROPERTIES
    ChannelsOnlyDrain
CHECK_DEADLOCK FALSE
