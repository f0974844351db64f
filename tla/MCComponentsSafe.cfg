SPECIFICATION Spec
CONSTANTS
    Components = {"repo_config", "pagination", "waiter", "scan_start",
                  "compare", "exchange"}
    Clients = {"c1"}
    MaxAttempts = 3
    MaxTokens = 3
    Presets = {"p1", "p2"}
    Loader = "loader"
    Nobody = "nobody"
    MaxParallel = 1
    Callers = {"c1", "c2", "c3"}
    Catalogue <- Items
    Added = {"x"}
    Configs <- IteratorConfigs
    MaxRemovals = 2
    MaxPage = 2
    Requested = {"sast", "sca"}
    Extra = {"auto"}
    Interval = 2
    MaxDuration = 3
    Attempts = 2
    MaxStarts = 2
    Scans <- ScanLists
    Filters = {{"HIGH"}}
    EngineFilters = {{"sast"}}
    MaxPages = 2
INVARIANTS
    TypeOK
    SharedUntilFailure
    SequentialRetry
    NothingSkipped
    NothingRepeated
    VerdictIsFinal
    DeadlineKept
    ScanHasItsSource
    StartIsOneScan
    FirstErrorWins
    ComparisonAddsUp
    SuccessIsComplete
    OutcomeExplained
CHECK_DEADLOCK FALSE
