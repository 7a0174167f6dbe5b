\* Retries bring every entry an anchor of every kind, one kind at a time if need be.
CONSTANTS
    Gates = {g1}
    Kinds = {rekor, rfc3161}
    Times = {1}
    Every = 0
    Interval = TRUE
    Exporter = FALSE
    Faults = {}
    MaxEntries = 2
    MaxStarts = 2
SPECIFICATION FairSpec
PROPERTIES
    EventuallyAnchored
CHECK_DEADLOCK FALSE
