CONSTANTS
    Hops = {a, b}
    MaxRecords = 2
    MaxClock = 2
    MaxBundles = 2
    MaxRequests = 2
    MaxAhead = 1
    MaxRestores = 1
    Asked = {{"rfc3161", "rekor"}}
    Batches = {"batch"}
    Skew = 1
    OperatorKey = "operator"
    LogKey = "log"
    TsaCert <- MCTsaCert
    TsaPool <- MCTsaPool
    TsaRoots <- MCTsaRoots
    LastYear = 2100
    MaxLeaves = 7
    TicksPerSecond = 2
    MaxInstant = 2
    MaxEvents = 4
    MaxCertifications = 2
    DayTicks = 2
    Deployable = {"production"}
    IssuerKey = "issuer"
    ExporterKey = "exporter"
    LedgerSignerKey = "ledger"
    MaxSample = 200
SPECIFICATION MCSpec
INVARIANTS HonestHostIsTrusted TrustedIsTrue AlgorithmsAreExact HonestReleaseIsTold PromotionsJustified QuietMeansCertified OmissionsAreFound DecisionIsSound
SYMMETRY HopSymmetry
CHECK_DEADLOCK FALSE
