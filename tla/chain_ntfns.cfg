CONSTANTS
    MaxEvents = 4
    ReorgCaps <- NoneOrOne
SPECIFICATION FairSpec
INVARIANTS
    NothingLost
    OvertakingIsBounded
    EndHasAReason
PROPERTIES
    ReorgIsSignalled
    CloseReturns
CHECK_DEADLOCK FALSE
