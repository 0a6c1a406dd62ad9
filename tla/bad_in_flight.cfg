CONSTANTS
    c1 = c1
    c2 = c2
    Calls <- TwoCalls
    Mixes <- TwoPayments
    MaxRequests = 0
    MaxPayments = 1
SPECIFICATION Spec
INVARIANT InFlightIsFollowed
CHECK_DEADLOCK FALSE
