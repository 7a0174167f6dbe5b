\* An export beside one gate that appends, seals and anchors, with ledger
\* operations that fail, crashes and restarts.
CONSTANTS
    Gates = {g1}
    Kinds = {rekor, rfc3161}
    Times = {1, 2}
    Every = 2
    Interval = TRUE
    Exporter = TRUE
    Faults = {"store", "crash"}
    MaxEntries = 3
    MaxStarts = 2
SPECIFICATION Spec
SYMMETRY Symmetric
INVARIANTS
    PackVerifies
CHECK_DEADLOCK FALSE
