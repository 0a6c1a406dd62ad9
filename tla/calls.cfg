CONSTANTS
    c1 = c1
    c2 = c2
    Calls <- TwoCalls
    Mixes <- AnyAndPayment
    MaxRequests = 2
    MaxPayments = 2
SPECIFICATION FairSpec
INVARIANTS
    ResultIsTrue
    EndIsTold
PROPERTIES
    WaitFindsNoneRunning
    CloseEndsCalls
CHECK_DEADLOCK FALSE
