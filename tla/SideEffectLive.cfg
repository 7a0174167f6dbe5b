\* Requests are answered, forced verdicts and lingering gates included.
CONSTANTS
    Operations = {o1}
    NoOperation = NoOperation
    Calls = {c1}
    NoCall = NoCall
    Gates = {g1}
    NoGate = NoGate
    Attempts = {a1, a2}
    NoAttempt = NoAttempt
    Requests = {r1, r2}
    NoRequest = NoRequest
    Pii = {}
    Forcing = TRUE
    Linger = TRUE
    Faults = {"store", "ledger"}
SPECIFICATION FairSpec
PROPERTIES
    EveryRequestAnswered
