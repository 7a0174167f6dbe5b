\* Two gates on one database, one of them with the PII transform; the promise of AtMostOnce.
CONSTANTS
    Operations = {o1}
    NoOperation = NoOperation
    Calls = {c1, c2}
    NoCall = NoCall
    Gates = {g1, g2}
    NoGate = NoGate
    Attempts = {a1, a2}
    NoAttempt = NoAttempt
    Requests = {r1, r2}
    NoRequest = NoRequest
    Pii = {g1}
    Forcing = FALSE
    Linger = FALSE
    Faults = {"store", "ledger"}
SPECIFICATION Spec
SYMMETRY Symmetric
INVARIANTS
    LiveNotDemoted
    NoTokensReplayed
PROPERTIES
    ImplementsAtMostOnce
