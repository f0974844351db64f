SPECIFICATION Spec
CONSTANTS
    Callers = {c1, c2, c3}
    NoCaller = NoCaller
    AuthAttempts = 2
    MaxTokens = 3
SYMMETRY CallerSymmetry
INVARIANTS
    TypeOK
    SingleFetch
    RefreshIsFresh
    GenerationNamesToken
PROPERTIES
    RenewedOnlyWhenStale
