CONSTANTS
    h1 = h1
    h2 = h2
    Htlcs <- TwoHtlcs
    None = None
    Receiver = Receiver
SPECIFICATION FairSpec
INVARIANTS
    NoRequestDropped
    WaitCoversGoroutines
PROPERTIES
    KeepsPromise
    FailureEndsCall
    CallLeavesNothingBehind
CHECK_DEADLOCK FALSE
