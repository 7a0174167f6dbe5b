\* An operator forces a verdict on an operation in flight.
CONSTANTS
    Operations = {o1}
    NoOperation = NoOperation
    Calls = {c1}
    NoCall = NoCall
    Gates = {g1}
    NoGate = NoGate
    Attempts = {a1, a2, a3}
    NoAttempt = NoAttempt
    Requests = {r1, r2}
    NoRequest = NoRequest
    Pii = {}
    Forcing = TRUE
    Linger = FALSE
    Faults = {}
SPECIFICATION Spec
SYMMETRY Symmetric
INVARIANTS
    AtMostOneEffect
