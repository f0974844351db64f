SPECIFICATION Spec
CONSTANTS
    Components = {"lazy_reader"}
    Callers = {c1, c2}
    Third = c3
    Presets = {p1, p2, p3}
    Loader = Loader
    Nobody = Nobody
    MaxAttempts = 3
    MaxTokens = 3
    Timed = TRUE
    Intercepted = TRUE
    MaxParallel = 2
    PageSize = 2
    MaxItems = 4
    MaxLoads = 2
    Attempts = 2
    Limit = 10
    MaxObjects = 3
    MaxCalls = 2
INVARIANTS
    LoadErrorIsOwn
CHECK_DEADLOCK FALSE
