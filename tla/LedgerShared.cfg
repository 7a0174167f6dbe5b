\* Two gates share the ledger: racing appends, seals and anchors.
CONSTANTS
    Gates = {g1, g2}
    Kinds = {rekor}
    Times = {1}
    Every = 2
    Interval = FALSE
    Exporter = FALSE
    Faults = {}
    MaxEntries = 3
    MaxStarts = 1
SPECIFICATION Spec
SYMMETRY Symmetric
INVARIANTS
    ChainUnbroken
    EpochsPartition
    ReceiptsSound
PROPERTIES
    HistoryStays
CHECK_DEADLOCK FALSE
