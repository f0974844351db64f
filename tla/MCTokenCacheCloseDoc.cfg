SPECIFICATION LateSpec
CONSTANTS
    Callers = {c1, c2}
    NoCaller = NoCaller
    AuthAttempts = 2
    MaxTokens = 3
INVARIANT
    ClosedCacheRefuses
