SPECIFICATION MCSpec
CONSTANTS
    Show = {"headers"}
    r1 = r1
    r2 = r2
    None = None
    Req <- MCReq
    XRequestID <- SameID
    Backend <- MCBackend
    Unsupported <- MCUnsupported
    Config <- MCConfig
    MaxAttempts = 3
    Timeouts <- Abandoned
    Absent = "absent"
    UpstreamHost = "x-ai-eg-upstream-host"
    Key <- MCKey
    Value <- MCValue
    Ignored <- MCIgnored
    ClientHeaders <- MCClientHeaders
    Target <- MCTarget
    Remove <- MCRemove
    Set <- MCSet
    Auth <- MCAuth
    Injected <- Nothing
    Translated <- Rewrites
    MaxTries = 3
INVARIANT TranslationReachesBackend
