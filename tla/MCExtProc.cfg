SPECIFICATION MCSpec
CONSTANTS
    Show = {"two", "race", "endpoints", "log", "params", "headers", "credentials"}
    r1 = r1
    r2 = r2
    None = None
    Req <- MCReq
    XRequestID <- SameID
    Backend <- MCBackend
    Unsupported <- MCUnsupported
    Config <- MCConfig
    MaxAttempts = 3
    Timeouts <- Abandoned
    Absent = "absent"
    UpstreamHost = "x-ai-eg-upstream-host"
    Key <- MCKey
    Value <- MCValue
    Ignored <- MCIgnored
    ClientHeaders <- MCClientHeaders
    Target <- MCTarget
    Remove <- MCRemove
    Set <- MCSet
    Auth <- MCAuth
    Injected <- Nothing
    Translated <- SetsPath
    MaxTries = 3
INVARIANTS RegistryMatchesStreams RequestsDoNotMix RetryReplacesBody
INVARIANTS ResponseMeetsItsAttempt AccountsAreTrue
INVARIANTS BackendAskedAsMeant ToldInItsApi
INVARIANTS DebugLogIsACopy SchemaKeepsItsMeaning AnswerFitsTheAsk
INVARIANTS RetryIsLikeFirst SentAsMeant
