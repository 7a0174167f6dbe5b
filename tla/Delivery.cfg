\* Two threads flush a queue of three that takes batches of two.  No symmetry (liveness).
CONSTANTS
    Flushers = {f1, f2}
    Capacity = 3
    MaxBatch = 2
    Tries = 2
    Faults = {"thread", "client", "panic"}
    MaxPushes = 4
SPECIFICATION FairSpec
INVARIANTS
    DeliveryInv
PROPERTIES
    FlushTruthful
    QueueMakesProgress
CHECK_DEADLOCK FALSE
