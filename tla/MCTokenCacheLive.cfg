SPECIFICATION FairSpec
CONSTANTS
    Callers = {c1, c2}
    NoCaller = NoCaller
    AuthAttempts = 2
    MaxTokens = 2
PROPERTIES
    CallsReturn
    ImplementsTokenService
