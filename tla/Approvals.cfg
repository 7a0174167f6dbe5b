SPECIFICATION Spec
CONSTANTS
    Skew = 1
    Hour = 2
    Day = 3
    Conf <- MCConf
    Calls <- MCCalls
    Signings <- MCSignings
    DefaultTtl = 2
    MaxRequest = 3
    MaxTime = 3
    MaxLog = 2
    MaxFilings = 1
    MaxForwards = 2
    MaxCrashes = 1
INVARIANTS
    BrokerInv
    RateLimit
    WrittenIsAccepted
    
CHECK_DEADLOCK FALSE
