\* One operation, retried under two request ids, on one gate that restarts.
CONSTANTS
    Operations = {o1}
    NoOperation = NoOperation
    Calls = {c1}
    NoCall = NoCall
    Gates = {g1}
    NoGate = NoGate
    Attempts = {a1, a2, a3}
    NoAttempt = NoAttempt
    Requests = {r1, r2}
    NoRequest = NoRequest
    Pii = {}
    Forcing = FALSE
    Linger = FALSE
    Faults = {"store", "ledger"}
SPECIFICATION Spec
SYMMETRY Symmetric
INVARIANTS
    AtMostOneEffect
    DoneIsApplied
    LedgerTruthful
    NothingUnrecorded
    CoordinationInv
PROPERTIES
    DoneIsFinal
