\* Two requests for one phone.
SPECIFICATION BTFairSpec
CONSTANTS
    p1 = p1
    Nothing = Nothing
    Phones = {p1}
    MaxRequests = 2
    WaitRetries = 1
    ConnectRetries = 0
    Outcomes = {"SUCCESS", "APP_ERROR", "CANCELED", "CONNECT_ERROR"}
INVARIANT AskedOnce
INVARIANT FlagsAreThisRequests
PROPERTY EveryClientEnds
